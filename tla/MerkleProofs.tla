------------------------------ MODULE MerkleProofs ----------------------------
(***************************************************************************)
(* The tree of the clients, for logs of every length: it is the tree of    *)
(* RFC 6962, its head binds the log, and an append keeps what was there.   *)
(* Induction over lengths is by the set of lengths for which the claim     *)
(* holds; that a recursive function exists is shown by extending it from   *)
(* one argument to the next.                                               *)
(***************************************************************************)
EXTENDS MerkleLog, WellFoundedInduction, TLAPS
-------------------------------------------------------------------------------
(* Induction over a set of numbers.                                        *)

\* A non-empty set of numbers has a least one.
LEMMA Least ==
  ASSUME NEW S \in SUBSET Nat, S # {}
  PROVE  \E n \in S : \A m \in S : n <= m
<1> DEFINE Below == OpToRel(<, Nat)
<1>1. IsWellFoundedOn(Below, Nat)
  BY NatLessThanWellFounded
<1>2. \A m, n \in Nat : m < n => <<m, n>> \in Below
  BY DEF OpToRel
<1> HIDE DEF Below
<1>3. PICK n \in S : \A m \in S : <<m, n>> \notin Below
  BY <1>1, WFMin
<1>4. n \in Nat /\ \A m \in S : m \in Nat /\ ~(m < n)
  BY <1>2, <1>3
<1>5. \A m \in S : n <= m
  BY <1>4
<1> QED
  BY <1>5

\* A set that holds every number whose predecessors it holds is all of Nat.
LEMMA StrongInduction ==
  ASSUME NEW S, \A n \in Nat : (\A m \in Nat : m < n => m \in S) => n \in S
  PROVE  \A n \in Nat : n \in S
<1> SUFFICES ASSUME NEW n \in Nat \ S PROVE FALSE
  OBVIOUS
<1> DEFINE T == Nat \ S
<1>1. T \in SUBSET Nat /\ n \in T
  OBVIOUS
<1> HIDE DEF T
<1>2. PICK least \in T : \A k \in T : least <= k
  BY <1>1, Least
<1>3. \A m \in Nat : m < least => m \in S
  BY <1>2 DEF T
<1> QED
  BY <1>2, <1>3 DEF T

\* A set that holds 0 and the successor of each of its members is all of Nat.
LEMMA Induction ==
  ASSUME NEW S, 0 \in S, \A n \in Nat : n \in S => n + 1 \in S
  PROVE  \A n \in Nat : n \in S
<1>1. ASSUME NEW n \in Nat, \A m \in Nat : m < n => m \in S
      PROVE  n \in S
  <2>1. CASE n = 0
    BY <2>1
  <2>2. CASE n # 0
    <3>1. n - 1 \in Nat /\ n - 1 < n /\ (n - 1) + 1 = n
      BY <2>2
    <3> QED
      BY <1>1, <3>1
  <2> QED
    BY <2>1, <2>2
<1> QED
  BY <1>1, StrongInduction
-------------------------------------------------------------------------------
(* Powers of two.                                                          *)

LEMMA OneIsPower == IsPowerOfTwo(1)
BY DEF IsPowerOfTwo

LEMMA DoubleIsPower ==
  ASSUME NEW p \in Nat, IsPowerOfTwo(p)
  PROVE  IsPowerOfTwo(2 * p)
<1> SUFFICES ASSUME NEW S \in SUBSET (1..(2 * p)), 1 \in S,
                    \A x \in S : 2 * x <= 2 * p => 2 * x \in S
             PROVE  2 * p \in S
  BY DEF IsPowerOfTwo
<1> DEFINE T == S \cap (1..p)
<1>1. p >= 1
  BY DEF IsPowerOfTwo
<1>2. T \in SUBSET (1..p) /\ 1 \in T
  BY <1>1
<1>3. \A x \in T : 2 * x <= p => 2 * x \in T
  OBVIOUS
<1>4. p \in T
  BY <1>2, <1>3 DEF IsPowerOfTwo
<1> QED
  BY <1>4

\* The double of a power is the only way to one beyond 1.
LEMMA HalfIsPower ==
  ASSUME NEW p \in Nat, IsPowerOfTwo(p), p > 1
  PROVE  \E q \in Nat : IsPowerOfTwo(q) /\ p = 2 * q
<1> DEFINE S == {x \in 1..p : x = 1 \/ \E q \in Nat : IsPowerOfTwo(q) /\ x = 2 * q}
<1>1. S \in SUBSET (1..p) /\ 1 \in S
  OBVIOUS
<1>2. ASSUME NEW x \in S, 2 * x <= p
      PROVE  2 * x \in S
  <2>1. x \in Nat /\ 2 * x \in 1..p
    BY <1>2
  <2>2. IsPowerOfTwo(x)
    BY OneIsPower, DoubleIsPower
  <2> QED
    BY <2>1, <2>2
<1> HIDE DEF S
<1>3. p \in S
  BY <1>1, <1>2 DEF IsPowerOfTwo
<1> QED
  BY <1>3 DEF S

\* Between a power and its double there is no other.
LEMMA PowersApart ==
  ASSUME NEW p \in Nat, NEW q \in Nat, IsPowerOfTwo(p), IsPowerOfTwo(q), p < q
  PROVE  2 * p <= q
<1> DEFINE S == {x \in 1..p : \A y \in Nat : IsPowerOfTwo(y) /\ x < y => 2 * x <= y}
<1>1. S \in SUBSET (1..p)
  OBVIOUS
<1>2. p >= 1
  BY DEF IsPowerOfTwo
<1>3. 1 \in S
  BY <1>2
<1>4. ASSUME NEW x \in S, 2 * x <= p
      PROVE  2 * x \in S
  <2> SUFFICES ASSUME NEW y \in Nat, IsPowerOfTwo(y), 2 * x < y
               PROVE  2 * (2 * x) <= y
    BY <1>4
  <2>1. PICK z \in Nat : IsPowerOfTwo(z) /\ y = 2 * z
    BY HalfIsPower
  <2>2. 2 * x <= z
    BY <2>1
  <2> QED
    BY <2>1, <2>2
<1> HIDE DEF S
<1>5. p \in S
  BY <1>1, <1>3, <1>4 DEF IsPowerOfTwo
<1> QED
  BY <1>5 DEF S
-------------------------------------------------------------------------------
(* Where a slice is cut.                                                   *)

\* The function that SplitPoint(n) asks for 1.
Doubling(n) ==
  CHOOSE double : double = [k \in 1..n |-> IF 2 * k < n THEN double[2 * k] ELSE k]

\* There is such a function: its value at n - j is determined by those above.
LEMMA DoublingExists ==
  ASSUME NEW n \in Nat
  PROVE  Doubling(n) = [k \in 1..n |-> IF 2 * k < n THEN Doubling(n)[2 * k] ELSE k]
<1> DEFINE Down(d, k) == IF 2 * k < n THEN d[2 * k] ELSE k
           S == {j \in Nat : \E d : /\ d = [k \in 1..n |-> d[k]]
                                    /\ \A k \in 1..n : k > n - j => d[k] = Down(d, k)}
<1>1. 0 \in S
  <2> DEFINE d == [k \in 1..n |-> k]
  <2>1. d = [k \in 1..n |-> d[k]] /\ \A k \in 1..n : ~(k > n - 0)
    OBVIOUS
  <2> QED
    BY <2>1
<1>2. ASSUME NEW j \in Nat, j \in S
      PROVE  j + 1 \in S
  <2>1. PICK d : /\ d = [k \in 1..n |-> d[k]]
                 /\ \A k \in 1..n : k > n - j => d[k] = Down(d, k)
    BY <1>2
  <2> DEFINE e == [k \in 1..n |-> IF k = n - j THEN Down(d, k) ELSE d[k]]
  <2>2. e = [k \in 1..n |-> e[k]]
    OBVIOUS
  <2>3. ASSUME NEW k \in 1..n, k > n - (j + 1)
        PROVE  e[k] = Down(e, k)
    <3>1. e[k] = Down(d, k)
      <4>1. CASE k = n - j
        BY <4>1
      <4>2. CASE k # n - j
        <5>1. k > n - j
          BY <2>3, <4>2
        <5> QED
          BY <2>1, <4>2, <5>1
      <4> QED
        BY <4>1, <4>2
    <3>2. 2 * k < n => 2 * k \in 1..n /\ 2 * k # n - j
      BY <2>3
    <3>3. 2 * k < n => e[2 * k] = d[2 * k]
      BY <3>2
    <3> QED
      BY <3>1, <3>3
  <2> HIDE DEF e, Down
  <2> QED
    BY <2>2, <2>3
<1>3. n \in S
  <2> HIDE DEF S
  <2> QED
    BY <1>1, <1>2, Induction
<1>4. PICK d : d = [k \in 1..n |-> d[k]] /\ \A k \in 1..n : k > n - n => d[k] = Down(d, k)
  BY <1>3
<1>5. \A k \in 1..n : d[k] = Down(d, k)
  <2> HIDE DEF Down
  <2> QED
    BY <1>4
<1>6. d = [k \in 1..n |-> IF 2 * k < n THEN d[2 * k] ELSE k]
  BY <1>4, <1>5
<1> QED
  BY <1>6 DEF Doubling

\* The loop ends at a power of two that is below n and whose double is not.
LEMMA SplitFacts ==
  ASSUME NEW n \in Nat, n >= 2
  PROVE  /\ SplitPoint(n) \in 1..(n - 1) /\ n <= 2 * SplitPoint(n)
         /\ IsPowerOfTwo(SplitPoint(n))
<1> DEFINE Cuts(k) == k \in 1..(n - 1) /\ n <= 2 * k /\ IsPowerOfTwo(k)
           d == Doubling(n)
           S == {j \in Nat : \A k \in 1..(n - 1) :
                               k >= n - j /\ IsPowerOfTwo(k) => Cuts(d[k])}
<1>1. \A k \in 1..n : d[k] = IF 2 * k < n THEN d[2 * k] ELSE k
  <2> HIDE DEF d
  <2>1. d = [k \in 1..n |-> IF 2 * k < n THEN d[2 * k] ELSE k]
    BY DoublingExists DEF d
  <2> QED
    BY <2>1
<1> HIDE DEF d
<1>2. 0 \in S
  OBVIOUS
<1>3. ASSUME NEW j \in Nat, j \in S
      PROVE  j + 1 \in S
  <2> SUFFICES ASSUME NEW k \in 1..(n - 1), k >= n - (j + 1), IsPowerOfTwo(k)
               PROVE  Cuts(d[k])
    OBVIOUS
  <2>1. CASE 2 * k < n
    <3>1. 2 * k \in 1..(n - 1) /\ 2 * k >= n - j /\ IsPowerOfTwo(2 * k)
      BY <2>1, DoubleIsPower
    <3>2. Cuts(d[2 * k])
      BY <1>3, <3>1
    <3> QED
      BY <1>1, <2>1, <3>2
  <2>2. CASE ~(2 * k < n)
    <3>1. d[k] = k
      BY <1>1, <2>2
    <3> QED
      BY <2>2, <3>1
  <2> QED
    BY <2>1, <2>2
<1>4. n \in S
  <2> HIDE DEF S
  <2> QED
    BY <1>2, <1>3, Induction
<1>5. Cuts(d[1])
  BY <1>4, OneIsPower
<1>6. SplitPoint(n) = d[1]
  BY DEF SplitPoint, Doubling, d
<1> QED
  BY <1>5, <1>6

\* It is the only one.
LEMMA SplitIsUnique ==
  ASSUME NEW n \in Nat, NEW k \in Nat, IsPowerOfTwo(k), k < n, n <= 2 * k
  PROVE  SplitPoint(n) = k
<1>1. k >= 1 /\ n >= 2
  BY DEF IsPowerOfTwo
<1>2. /\ SplitPoint(n) \in Nat /\ SplitPoint(n) < n /\ n <= 2 * SplitPoint(n)
      /\ IsPowerOfTwo(SplitPoint(n))
  BY <1>1, SplitFacts
<1>3. ~(SplitPoint(n) < k) /\ ~(k < SplitPoint(n))
  BY <1>2, PowersApart
<1> QED
  BY <1>2, <1>3
-------------------------------------------------------------------------------
(* The heads of slices.                                                    *)

Slices(n) == (1..n) \X (1..n)

\* The head of a slice, given those of its two parts.
HeadStep(leaves, mth, slice) ==
  LET lo == slice[1]
      hi == slice[2]
      k  == SplitPoint(hi - lo + 1)
  IN  IF lo >= hi THEN leaves[lo]
      ELSE NodeHash(mth[<<lo, lo + k - 1>>], mth[<<lo + k, hi>>])

\* The function that TreeHead asks for the whole.
Mth(leaves) ==
  CHOOSE mth : mth = [slice \in Slices(Len(leaves)) |-> HeadStep(leaves, mth, slice)]

HeadOf(leaves, lo, hi) == Mth(leaves)[<<lo, hi>>]

LEMMA TreeHeadIsHead ==
  ASSUME NEW leaves, Len(leaves) \in Nat, Len(leaves) # 0
  PROVE  TreeHead(leaves) = HeadOf(leaves, 1, Len(leaves))
BY DEF TreeHead, HeadOf, Mth, HeadStep, Slices

\* Both parts of a slice are slices, and shorter.
LEMMA CutFacts ==
  ASSUME NEW n \in Nat, NEW lo \in 1..n, NEW hi \in 1..n, lo < hi
  PROVE  LET k == SplitPoint(hi - lo + 1)
         IN  /\ k \in 1..(hi - lo)
             /\ lo + k - 1 \in lo..(hi - 1) /\ lo + k \in (lo + 1)..hi
<1>1. hi - lo + 1 \in Nat /\ hi - lo + 1 >= 2
  OBVIOUS
<1>2. SplitPoint(hi - lo + 1) \in 1..((hi - lo + 1) - 1)
  BY <1>1, SplitFacts
<1> QED
  BY <1>2

\* There is such a function: the heads of shorter slices determine those of the
\* next length.
LEMMA MthExists ==
  ASSUME NEW leaves, Len(leaves) \in Nat
  PROVE  Mth(leaves) = [slice \in Slices(Len(leaves)) |-> HeadStep(leaves, Mth(leaves), slice)]
<1> DEFINE n == Len(leaves)
           Good(m, j) == /\ m = [s \in Slices(n) |-> m[s]]
                         /\ \A s \in Slices(n) : s[2] - s[1] < j => m[s] = HeadStep(leaves, m, s)
           S == {j \in Nat : \E m : Good(m, j)}
<1>1. 0 \in S
  <2> DEFINE m == [s \in Slices(n) |-> leaves[s[1]]]
  <2>1. m = [s \in Slices(n) |-> m[s]]
    OBVIOUS
  <2>2. ASSUME NEW s \in Slices(n), s[2] - s[1] < 0
        PROVE  m[s] = HeadStep(leaves, m, s)
    <3>1. s[1] >= s[2]
      BY <2>2 DEF Slices
    <3>2. m[s] = leaves[s[1]]
      OBVIOUS
    <3> QED
      BY <3>1, <3>2 DEF HeadStep
  <2> QED
    BY <2>1, <2>2
<1>2. ASSUME NEW j \in Nat, j \in S
      PROVE  j + 1 \in S
  <2>1. PICK m : Good(m, j)
    BY <1>2
  <2> DEFINE e == [s \in Slices(n) |-> IF s[2] - s[1] = j THEN HeadStep(leaves, m, s) ELSE m[s]]
  <2>2. e = [s \in Slices(n) |-> e[s]]
    OBVIOUS
  <2>3. ASSUME NEW s \in Slices(n), s[2] - s[1] < j + 1
        PROVE  e[s] = HeadStep(leaves, e, s)
    <3>1. e[s] = HeadStep(leaves, m, s)
      <4>1. s[2] - s[1] = j \/ s[2] - s[1] < j
        BY <2>3 DEF Slices
      <4> QED
        BY <2>1, <4>1
    <3>2. ASSUME NEW t \in Slices(n), t[2] - t[1] < j
          PROVE  e[t] = m[t]
      <4>1. t[2] - t[1] # j
        BY <3>2 DEF Slices
      <4> QED
        BY <4>1
    <3> DEFINE lo == s[1]
               hi == s[2]
               k  == SplitPoint(hi - lo + 1)
    <3>3. lo \in 1..n /\ hi \in 1..n
      BY DEF Slices
    <3>4. CASE lo >= hi
      BY <3>1, <3>4 DEF HeadStep
    <3>5. CASE ~(lo >= hi)
      <4>1. k \in 1..(hi - lo) /\ lo + k - 1 \in lo..(hi - 1) /\ lo + k \in (lo + 1)..hi
        <5>1. lo < hi
          BY <3>3, <3>5
        <5> HIDE DEF lo, hi
        <5> QED
          BY <3>3, <5>1, CutFacts
      <4>2. /\ lo + k - 1 \in 1..n /\ lo + k \in 1..n
            /\ (lo + k - 1) - lo < j /\ hi - (lo + k) < j
        <5>1. hi - lo <= j
          BY <2>3, <3>3
        <5>2. j \in Nat /\ n \in Nat
          OBVIOUS
        <5> HIDE DEF lo, hi, k, n
        <5> QED
          BY <3>3, <4>1, <5>1, <5>2
      <4> HIDE DEF e, lo, hi, k
      <4>3. e[<<lo, lo + k - 1>>] = m[<<lo, lo + k - 1>>]
        BY <3>2, <3>3, <4>2 DEF Slices
      <4>4. e[<<lo + k, hi>>] = m[<<lo + k, hi>>]
        BY <3>2, <3>3, <4>2 DEF Slices
      <4> QED
        BY <3>1, <4>3, <4>4 DEF HeadStep, lo, hi, k
    <3> QED
      BY <3>4, <3>5
  <2> HIDE DEF e
  <2> QED
    BY <2>2, <2>3
<1>3. n \in S
  <2> HIDE DEF S
  <2> QED
    BY <1>1, <1>2, Induction
<1>4. PICK m : Good(m, n)
  BY <1>3
<1>5. \A s \in Slices(n) : s[2] - s[1] < n
  BY DEF Slices
<1>6. m = [s \in Slices(n) |-> HeadStep(leaves, m, s)]
  BY <1>4, <1>5
<1> QED
  BY <1>6 DEF Mth

LEMMA LeafHead ==
  ASSUME NEW leaves, Len(leaves) \in Nat, NEW i \in 1..Len(leaves)
  PROVE  HeadOf(leaves, i, i) = leaves[i]
<1>1. <<i, i>> \in Slices(Len(leaves))
  BY DEF Slices
<1>2. HeadOf(leaves, i, i) = HeadStep(leaves, Mth(leaves), <<i, i>>)
  BY <1>1, MthExists DEF HeadOf
<1>3. i >= i
  OBVIOUS
<1> QED
  BY <1>2, <1>3 DEF HeadStep

LEMMA NodeHead ==
  ASSUME NEW leaves, Len(leaves) \in Nat,
         NEW lo \in 1..Len(leaves), NEW hi \in 1..Len(leaves), lo < hi
  PROVE  LET k == SplitPoint(hi - lo + 1)
         IN  HeadOf(leaves, lo, hi) =
               NodeHash(HeadOf(leaves, lo, lo + k - 1), HeadOf(leaves, lo + k, hi))
<1>1. <<lo, hi>> \in Slices(Len(leaves))
  BY DEF Slices
<1>2. HeadOf(leaves, lo, hi) = HeadStep(leaves, Mth(leaves), <<lo, hi>>)
  BY <1>1, MthExists DEF HeadOf
<1>3. ~(lo >= hi)
  OBVIOUS
<1> QED
  BY <1>2, <1>3 DEF HeadStep, HeadOf
-------------------------------------------------------------------------------
(* The head binds what is below it.                                        *)

LEMMA HashesDiffer == \A x, l, r : LeafHash(x) # NodeHash(l, r)
<1> SUFFICES ASSUME NEW x, NEW l, NEW r PROVE LeafHash(x) # NodeHash(l, r)
  OBVIOUS
<1>1. LeafHash(x)[1] = "leaf" /\ NodeHash(l, r)[1] = "node"
  BY DEF LeafHash, NodeHash
<1> QED
  BY <1>1

LEMMA NodeHashBinds ==
  ASSUME NEW l, NEW r, NEW l2, NEW r2, NodeHash(l, r) = NodeHash(l2, r2)
  PROVE  l = l2 /\ r = r2
<1>1. /\ NodeHash(l, r)[2] = l /\ NodeHash(l, r)[3] = r
      /\ NodeHash(l2, r2)[2] = l2 /\ NodeHash(l2, r2)[3] = r2
  BY DEF NodeHash
<1> QED
  BY <1>1

\* A digest of one event each.
AreLeaves(leaves) ==
  Len(leaves) \in Nat /\ \A i \in 1..Len(leaves) : \E x : leaves[i] = LeafHash(x)

\* Slices with one head are equal, wherever and in whatever log they are.
SliceEqual(a, lo, hi, b, lo2, hi2) ==
  hi - lo = hi2 - lo2 /\ \A i \in 0..(hi - lo) : a[lo + i] = b[lo2 + i]

LEMMA HeadBinds ==
  ASSUME NEW a, NEW b, AreLeaves(a), AreLeaves(b),
         NEW lo \in 1..Len(a), NEW hi \in 1..Len(a), lo <= hi,
         NEW lo2 \in 1..Len(b), NEW hi2 \in 1..Len(b), lo2 <= hi2,
         HeadOf(a, lo, hi) = HeadOf(b, lo2, hi2)
  PROVE  SliceEqual(a, lo, hi, b, lo2, hi2)
<1> DEFINE Bound(x, y, x2, y2) ==
             HeadOf(a, x, y) = HeadOf(b, x2, y2) => SliceEqual(a, x, y, b, x2, y2)
           S == {d \in Nat : \A x, y \in 1..Len(a), x2, y2 \in 1..Len(b) :
                               x <= y /\ x2 <= y2 /\ y - x = d => Bound(x, y, x2, y2)}
<1>1. Len(a) \in Nat /\ Len(b) \in Nat
  BY DEF AreLeaves
<1>2. ASSUME NEW d \in Nat, \A m \in Nat : m < d => m \in S
      PROVE  d \in S
  <2> SUFFICES ASSUME NEW x \in 1..Len(a), NEW y \in 1..Len(a),
                      NEW x2 \in 1..Len(b), NEW y2 \in 1..Len(b),
                      x <= y, x2 <= y2, y - x = d, HeadOf(a, x, y) = HeadOf(b, x2, y2)
               PROVE  SliceEqual(a, x, y, b, x2, y2)
    OBVIOUS
  <2> DEFINE k  == SplitPoint(y - x + 1)
             k2 == SplitPoint(y2 - x2 + 1)
  <2>0. /\ x \in Int /\ y \in Int /\ x >= 1 /\ y <= Len(a)
        /\ x2 \in Int /\ y2 \in Int /\ x2 >= 1 /\ y2 <= Len(b)
    BY <1>1
  <2>1. x = y => HeadOf(a, x, y) = a[x] /\ \E e : a[x] = LeafHash(e)
    BY <1>1, LeafHead DEF AreLeaves
  <2>2. x2 = y2 => HeadOf(b, x2, y2) = b[x2] /\ \E e : b[x2] = LeafHash(e)
    BY <1>1, LeafHead DEF AreLeaves
  <2>3. x < y =>
          /\ HeadOf(a, x, y) = NodeHash(HeadOf(a, x, x + k - 1), HeadOf(a, x + k, y))
          /\ k \in 1..(y - x) /\ x + k - 1 \in x..(y - 1) /\ x + k \in (x + 1)..y
    BY <1>1, NodeHead, CutFacts
  <2>4. x2 < y2 =>
          /\ HeadOf(b, x2, y2) = NodeHash(HeadOf(b, x2, x2 + k2 - 1), HeadOf(b, x2 + k2, y2))
          /\ k2 \in 1..(y2 - x2) /\ x2 + k2 - 1 \in x2..(y2 - 1) /\ x2 + k2 \in (x2 + 1)..y2
    BY <1>1, NodeHead, CutFacts
  <2> HIDE DEF k, k2
  <2>5. CASE x = y
    <3>1. x2 = y2
      <4> SUFFICES ASSUME x2 < y2 PROVE FALSE
        BY <2>0
      <4>1. PICK e : HeadOf(a, x, y) = LeafHash(e)
        BY <2>1, <2>5
      <4>2. LeafHash(e) = NodeHash(HeadOf(b, x2, x2 + k2 - 1), HeadOf(b, x2 + k2, y2))
        BY <2>4, <4>1
      <4> QED
        BY <4>2, HashesDiffer
    <3>2. a[x] = b[x2]
      BY <2>1, <2>2, <2>5, <3>1
    <3>3. \A i \in 0..(y - x) : i = 0
      BY <2>5
    <3>4. x + 0 = x /\ x2 + 0 = x2
      OBVIOUS
    <3> QED
      BY <2>5, <3>1, <3>2, <3>3, <3>4 DEF SliceEqual
  <2>6. CASE x < y
    <3>1. x2 < y2
      <4> SUFFICES ASSUME x2 = y2 PROVE FALSE
        BY <2>0
      <4>1. PICK e : HeadOf(b, x2, y2) = LeafHash(e)
        BY <2>2
      <4>2. LeafHash(e) = NodeHash(HeadOf(a, x, x + k - 1), HeadOf(a, x + k, y))
        BY <2>3, <2>6, <4>1
      <4> QED
        BY <4>2, HashesDiffer
    <3>2. /\ HeadOf(a, x, x + k - 1) = HeadOf(b, x2, x2 + k2 - 1)
          /\ HeadOf(a, x + k, y) = HeadOf(b, x2 + k2, y2)
      BY <2>3, <2>4, <2>6, <3>1, NodeHashBinds
    <3>3. /\ x + k - 1 \in 1..Len(a) /\ x + k \in 1..Len(a)
          /\ x <= x + k - 1 /\ x + k <= y /\ k \in Int
      <4>1. k \in 1..(y - x)
        BY <2>3, <2>6
      <4>2. Len(a) \in Int /\ y - x \in Int
        BY <1>1, <2>0
      <4>3. k \in Int /\ k >= 1 /\ k <= y - x
        BY <4>1, <4>2
      <4> QED
        BY <2>0, <4>2, <4>3
    <3>8. /\ x2 + k2 - 1 \in 1..Len(b) /\ x2 + k2 \in 1..Len(b)
           /\ x2 <= x2 + k2 - 1 /\ x2 + k2 <= y2 /\ k2 \in Int
      <4>1. k2 \in 1..(y2 - x2)
        BY <2>4, <3>1
      <4>2. Len(b) \in Int /\ y2 - x2 \in Int
        BY <1>1, <2>0
      <4>3. k2 \in Int /\ k2 >= 1 /\ k2 <= y2 - x2
        BY <4>1, <4>2
      <4> QED
        BY <2>0, <4>2, <4>3
    <3>4. SliceEqual(a, x, x + k - 1, b, x2, x2 + k2 - 1)
      <4>1. (x + k - 1) - x \in Nat /\ (x + k - 1) - x < d
        BY <2>0, <2>6, <3>3
      <4>2. (x + k - 1) - x \in S
        BY <1>2, <4>1
      <4> QED
        BY <3>2, <3>3, <3>8, <4>2
    <3>5. SliceEqual(a, x + k, y, b, x2 + k2, y2)
      <4>1. y - (x + k) \in Nat /\ y - (x + k) < d
        BY <2>0, <2>3, <2>6, <3>3
      <4>2. y - (x + k) \in S
        BY <1>2, <4>1
      <4> QED
        BY <3>2, <3>3, <3>8, <4>2
    <3>6. k = k2 /\ y - x = y2 - x2
      BY <2>0, <3>3, <3>8, <3>4, <3>5 DEF SliceEqual
    <3>7. ASSUME NEW i \in 0..(y - x)
          PROVE  a[x + i] = b[x2 + i]
      <4>1. CASE i < k
        <5>1. i \in 0..((x + k - 1) - x)
          BY <2>0, <3>3, <4>1
        <5> QED
          BY <3>4, <5>1 DEF SliceEqual
      <4>2. CASE ~(i < k)
        <5>1. i - k \in 0..(y - (x + k)) /\ (x + k) + (i - k) = x + i
              /\ (x2 + k2) + (i - k) = x2 + i
          BY <2>0, <3>3, <3>8, <3>6, <4>2
        <5> QED
          BY <3>5, <5>1 DEF SliceEqual
      <4> QED
        BY <4>1, <4>2
    <3> QED
      BY <3>6, <3>7 DEF SliceEqual
  <2> QED
    BY <2>5, <2>6
<1>3. hi - lo \in S
  <2> HIDE DEF S
  <2>1. \A d \in Nat : d \in S
    BY <1>2, StrongInduction
  <2> QED
    BY <2>1
<1> QED
  BY <1>3

\* The leaves of a log.
LeavesOf(s) == [i \in DOMAIN s |-> LeafHash(s[i])]

LEMMA LeavesFacts ==
  ASSUME NEW E, NEW s \in Seq(E)
  PROVE  /\ AreLeaves(LeavesOf(s)) /\ Len(LeavesOf(s)) = Len(s)
         /\ \A i \in 1..Len(s) : LeavesOf(s)[i] = LeafHash(s[i])
         /\ MerkleRoot(s) = IF Len(s) = 0 THEN EmptyRoot ELSE HeadOf(LeavesOf(s), 1, Len(s))
<1>1. DOMAIN s = 1..Len(s) /\ Len(s) \in Nat
  OBVIOUS
<1>2. Len(LeavesOf(s)) = Len(s) /\ \A i \in 1..Len(s) : LeavesOf(s)[i] = LeafHash(s[i])
  BY <1>1 DEF LeavesOf
<1>3. AreLeaves(LeavesOf(s))
  BY <1>1, <1>2 DEF AreLeaves
<1>4. MerkleRoot(s) = TreeHead(LeavesOf(s))
  BY DEF MerkleRoot, LeavesOf
<1>5. Len(s) = 0 => TreeHead(LeavesOf(s)) = EmptyRoot
  BY <1>2 DEF TreeHead
<1>6. Len(s) # 0 => TreeHead(LeavesOf(s)) = HeadOf(LeavesOf(s), 1, Len(s))
  BY <1>1, <1>2, TreeHeadIsHead
<1> QED
  BY <1>2, <1>3, <1>4, <1>5, <1>6

\* The head of a log is that of no other log, of whatever length.
LEMMA RootBinds ==
  ASSUME NEW E, NEW s \in Seq(E), NEW t \in Seq(E), MerkleRoot(s) = MerkleRoot(t)
  PROVE  s = t
<1> DEFINE a == LeavesOf(s)
           b == LeavesOf(t)
           m == Len(s)
           n == Len(t)
<1>1. /\ AreLeaves(a) /\ Len(a) = m /\ \A i \in 1..m : a[i] = LeafHash(s[i])
      /\ MerkleRoot(s) = IF m = 0 THEN EmptyRoot ELSE HeadOf(a, 1, m)
  BY LeavesFacts
<1>2. /\ AreLeaves(b) /\ Len(b) = n /\ \A i \in 1..n : b[i] = LeafHash(t[i])
      /\ MerkleRoot(t) = IF n = 0 THEN EmptyRoot ELSE HeadOf(b, 1, n)
  BY LeavesFacts
<1>3. m \in Nat /\ n \in Nat
  OBVIOUS
<1> HIDE DEF a, b
<1>4. \A x, l, r : EmptyRoot # LeafHash(x) /\ EmptyRoot # NodeHash(l, r)
  <2> SUFFICES ASSUME NEW x, NEW l, NEW r
               PROVE  EmptyRoot # LeafHash(x) /\ EmptyRoot # NodeHash(l, r)
    OBVIOUS
  <2>1. EmptyRoot[1] = "empty" /\ LeafHash(x)[1] = "leaf" /\ NodeHash(l, r)[1] = "node"
    BY DEF EmptyRoot, LeafHash, NodeHash
  <2> QED
    BY <2>1
<1>5. ASSUME NEW c, AreLeaves(c), Len(c) # 0
      PROVE  HeadOf(c, 1, Len(c)) # EmptyRoot
  <2>1. Len(c) \in Nat /\ 1 \in 1..Len(c) /\ Len(c) \in 1..Len(c)
    BY <1>5 DEF AreLeaves
  <2>2. CASE Len(c) = 1
    <3>1. HeadOf(c, 1, Len(c)) = c[1]
      BY <2>1, <2>2, LeafHead
    <3> QED
      BY <1>4, <1>5, <2>1, <3>1 DEF AreLeaves
  <2>3. CASE Len(c) # 1
    <3> DEFINE n1 == Len(c)
    <3>1. n1 \in Nat /\ n1 # 0 /\ n1 # 1
      BY <1>5, <2>1, <2>3
    <3> HIDE DEF n1
    <3>2. 1 < n1
      BY <3>1
    <3>3. \E l, r : HeadOf(c, 1, Len(c)) = NodeHash(l, r)
      BY <2>1, <3>2, NodeHead DEF n1
    <3> QED
      BY <1>4, <3>3
  <2> QED
    BY <2>2, <2>3
<1>6. m = 0 <=> n = 0
  BY <1>1, <1>2, <1>5
<1>7. CASE m = 0
  BY <1>6, <1>7
<1>8. CASE m # 0
  <2>1. /\ 1 \in 1..m /\ m \in 1..m /\ 1 \in 1..n /\ n \in 1..n /\ 1 <= m /\ 1 <= n
    BY <1>3, <1>6, <1>8
  <2>2. HeadOf(a, 1, m) = HeadOf(b, 1, n)
    BY <1>1, <1>2, <1>6, <1>8
  <2>3. SliceEqual(a, 1, m, b, 1, n)
    BY <1>1, <1>2, <2>1, <2>2, HeadBinds
  <2>4. m = n
    BY <1>3, <2>3 DEF SliceEqual
  <2>5. ASSUME NEW i \in 1..m
        PROVE  s[i] = t[i]
    <3>1. i - 1 \in 0..(m - 1) /\ 1 + (i - 1) = i
      BY <1>3
    <3>2. a[i] = b[i]
      BY <2>3, <3>1 DEF SliceEqual
    <3>3. LeafHash(s[i]) = LeafHash(t[i])
      BY <1>1, <1>2, <2>4, <3>2
    <3>4. LeafHash(s[i])[2] = s[i] /\ LeafHash(t[i])[2] = t[i]
      BY DEF LeafHash
    <3> QED
      BY <3>3, <3>4
  <2> QED
    BY <2>4, <2>5
<1> QED
  BY <1>7, <1>8
-------------------------------------------------------------------------------
(* The head of a slice depends on that slice only.                         *)

LEMMA SameSlice ==
  ASSUME NEW a, NEW b, Len(a) \in Nat, Len(b) \in Nat, Len(a) <= Len(b),
         \A i \in 1..Len(a) : a[i] = b[i],
         NEW lo \in 1..Len(a), NEW hi \in 1..Len(a), lo <= hi
  PROVE  HeadOf(a, lo, hi) = HeadOf(b, lo, hi)
<1> DEFINE S == {d \in Nat : \A x, y \in 1..Len(a) :
                               x <= y /\ y - x = d => HeadOf(a, x, y) = HeadOf(b, x, y)}
<1>1. ASSUME NEW d \in Nat, \A m \in Nat : m < d => m \in S
      PROVE  d \in S
  <2> SUFFICES ASSUME NEW x \in 1..Len(a), NEW y \in 1..Len(a), x <= y, y - x = d
               PROVE  HeadOf(a, x, y) = HeadOf(b, x, y)
    OBVIOUS
  <2>1. x \in 1..Len(b) /\ y \in 1..Len(b) /\ x \in Int /\ y \in Int
    OBVIOUS
  <2>2. CASE x = y
    BY <2>1, <2>2, LeafHead
  <2>3. CASE x < y
    <3> DEFINE k == SplitPoint(y - x + 1)
    <3>1. k \in 1..(y - x) /\ x + k - 1 \in x..(y - 1) /\ x + k \in (x + 1)..y
      BY <2>3, CutFacts
    <3>2. /\ HeadOf(a, x, y) = NodeHash(HeadOf(a, x, x + k - 1), HeadOf(a, x + k, y))
          /\ HeadOf(b, x, y) = NodeHash(HeadOf(b, x, x + k - 1), HeadOf(b, x + k, y))
      BY <2>1, <2>3, NodeHead
    <3> HIDE DEF k
    <3>3. k \in Int /\ k >= 1 /\ k <= y - x
      BY <2>1, <3>1
    <3>4. /\ x + k - 1 \in 1..Len(a) /\ x + k \in 1..Len(a)
          /\ x <= x + k - 1 /\ x + k <= y
      BY <2>1, <3>3
    <3>5. HeadOf(a, x, x + k - 1) = HeadOf(b, x, x + k - 1)
      <4>1. (x + k - 1) - x \in Nat /\ (x + k - 1) - x < d
        BY <2>1, <3>3
      <4>2. (x + k - 1) - x \in S
        BY <1>1, <4>1
      <4> QED
        BY <3>4, <4>2
    <3>6. HeadOf(a, x + k, y) = HeadOf(b, x + k, y)
      <4>1. y - (x + k) \in Nat /\ y - (x + k) < d
        BY <2>1, <3>3
      <4>2. y - (x + k) \in S
        BY <1>1, <4>1
      <4> QED
        BY <3>4, <4>2
    <3> QED
      BY <3>2, <3>5, <3>6
  <2> QED
    BY <2>1, <2>2, <2>3
<1>2. hi - lo \in S
  <2> HIDE DEF S
  <2>1. \A d \in Nat : d \in S
    BY <1>1, StrongInduction
  <2> QED
    BY <2>1
<1> QED
  BY <1>2
-------------------------------------------------------------------------------
(* The tree that is built level by level.                                  *)

LevelStep(leaves, level, h) == IF h = 0 THEN leaves ELSE Pair(level[h - 1])

\* The function that LevelRoot asks for the last level.
Levels(leaves, n) ==
  CHOOSE level : level = [h \in 0..n |-> LevelStep(leaves, level, h)]

\* There is such a function: every level determines the next.
LEMMA LevelsExist ==
  ASSUME NEW leaves, NEW n \in Nat
  PROVE  Levels(leaves, n) = [h \in 0..n |-> LevelStep(leaves, Levels(leaves, n), h)]
<1> DEFINE Good(v, j) == /\ v = [h \in 0..n |-> v[h]]
                         /\ \A h \in 0..n : h < j => v[h] = LevelStep(leaves, v, h)
           S == {j \in Nat : \E v : Good(v, j)}
<1>1. 0 \in S
  <2> DEFINE v == [h \in 0..n |-> leaves]
  <2>1. v = [h \in 0..n |-> v[h]] /\ \A h \in 0..n : ~(h < 0)
    OBVIOUS
  <2> QED
    BY <2>1
<1>2. ASSUME NEW j \in Nat, j \in S
      PROVE  j + 1 \in S
  <2>1. PICK v : Good(v, j)
    BY <1>2
  <2> DEFINE e == [h \in 0..n |-> IF h = j THEN LevelStep(leaves, v, h) ELSE v[h]]
  <2>2. e = [h \in 0..n |-> e[h]]
    OBVIOUS
  <2>3. ASSUME NEW h \in 0..n, h < j + 1
        PROVE  e[h] = LevelStep(leaves, e, h)
    <3>1. e[h] = LevelStep(leaves, v, h)
      <4>1. h = j \/ h < j
        BY <2>3
      <4> QED
        BY <2>1, <4>1
    <3>2. h # 0 => h - 1 \in 0..n /\ h - 1 # j
      BY <2>3
    <3>3. h # 0 => e[h - 1] = v[h - 1]
      BY <3>2
    <3> HIDE DEF e
    <3> QED
      BY <3>1, <3>3 DEF LevelStep
  <2> HIDE DEF e
  <2> QED
    BY <2>2, <2>3
<1>3. n + 1 \in S
  <2> HIDE DEF S
  <2> QED
    BY <1>1, <1>2, Induction
<1>4. PICK v : Good(v, n + 1)
  BY <1>3
<1>5. \A h \in 0..n : h < n + 1
  OBVIOUS
<1>6. v = [h \in 0..n |-> LevelStep(leaves, v, h)]
  BY <1>4, <1>5
<1> QED
  BY <1>6 DEF Levels

\* Products keep the order of their first factors.
LEMMA TimesMonotone ==
  ASSUME NEW x \in Int, NEW y \in Int, NEW p \in Nat, x <= y
  PROVE  x * p <= y * p
<1>1. (y - x) * p >= 0
  OBVIOUS
<1>2. (y - x) * p = y * p - x * p
  OBVIOUS
<1>3. x * p \in Int /\ y * p \in Int
  OBVIOUS
<1> QED
  BY <1>1, <1>2, <1>3

\* The i-th node of the level whose complete nodes stand over p leaves each.
NodeAt(leaves, p, i) ==
  HeadOf(leaves, (i - 1) * p + 1, IF i * p <= Len(leaves) THEN i * p ELSE Len(leaves))

\* w nodes over p leaves each, the last one over what is left.
IsLevel(leaves, level, p, w) ==
  /\ (w - 1) * p < Len(leaves)
  /\ Len(leaves) <= w * p
  /\ level = [i \in 1..w |-> NodeAt(leaves, p, i)]

\* Two neighbours are the two parts of a slice of the tree, which the split cuts
\* where they meet, and an odd last node is a slice on the level above as well.
LEMMA PairLevel ==
  ASSUME NEW leaves, Len(leaves) \in Nat, NEW level,
         NEW p \in Nat, IsPowerOfTwo(p), NEW w \in Nat, w >= 1, IsLevel(leaves, level, p, w)
  PROVE  IsLevel(leaves, Pair(level), 2 * p, (w + 1) \div 2)
<1> DEFINE n == Len(leaves)
           v == (w + 1) \div 2
<1>1. v \in Nat /\ (w = 2 * v \/ w = 2 * v - 1)
  OBVIOUS
<1>2. n \in Nat /\ p >= 1
  BY DEF IsPowerOfTwo
<1>3. (w - 1) * p < n /\ n <= w * p /\ level = [i \in 1..w |-> NodeAt(leaves, p, i)]
  BY DEF IsLevel
<1>4. Len(level) = w
  BY <1>3
<1> HIDE DEF n, v
<1>5. (v - 1) * (2 * p) < n
  <2>1. (2 * (v - 1)) * p <= (w - 1) * p
    <3>1. 2 * (v - 1) \in Int /\ w - 1 \in Int /\ 2 * (v - 1) <= w - 1
      BY <1>1
    <3> QED
      BY <3>1, TimesMonotone
  <2>2. (2 * (v - 1)) * p = (v - 1) * (2 * p) /\ (v - 1) * (2 * p) \in Int /\ (w - 1) * p \in Int
    BY <1>1
  <2> QED
    BY <1>2, <1>3, <2>1, <2>2
<1>6. n <= v * (2 * p)
  <2>1. w * p <= (2 * v) * p
    <3>1. 2 * v \in Int /\ w <= 2 * v
      BY <1>1
    <3> QED
      BY <3>1, TimesMonotone
  <2>2. (2 * v) * p = v * (2 * p) /\ v * (2 * p) \in Int /\ w * p \in Int
    BY <1>1
  <2> QED
    BY <1>2, <1>3, <2>1, <2>2
<1>7. ASSUME NEW i \in 1..v
      PROVE  (IF 2 * i <= w THEN NodeHash(level[2*i - 1], level[2*i]) ELSE level[2*i - 1])
               = NodeAt(leaves, 2 * p, i)
  <2> DEFINE q == i * p
             lo == 2 * q - 2 * p + 1
  <2>1. i \in Int /\ i >= 1 /\ i <= v /\ 2 * i - 1 \in 1..w /\ q \in Int /\ q >= p
    <3>1. i \in Int /\ i >= 1 /\ i <= v /\ 2 * i - 1 \in 1..w
      BY <1>1
    <3>2. 1 * p <= i * p
      BY <3>1, TimesMonotone
    <3> QED
      BY <3>1, <3>2
  <2>2. /\ ((2*i - 1) - 1) * p + 1 = lo /\ (2*i - 1) * p = 2 * q - p
        /\ (2*i - 1) * p + 1 = 2 * q - p + 1
        /\ (2*i) * p = 2 * q
        /\ (i - 1) * (2 * p) + 1 = lo /\ i * (2 * p) = 2 * q
    BY <2>1
  <2>3. level[2*i - 1] = NodeAt(leaves, p, 2*i - 1)
    BY <1>3, <2>1
  <2> DEFINE hi == IF 2 * q <= n THEN 2 * q ELSE n
  <2>4. NodeAt(leaves, 2 * p, i) = HeadOf(leaves, lo, hi)
    BY <2>2 DEF NodeAt, n
  <2>5. CASE 2 * i <= w
    <3>1. level[2*i] = NodeAt(leaves, p, 2*i)
      BY <1>3, <2>1, <2>5
    <3>2. 2 * q - p < n
      <4>1. 2*i - 1 <= w - 1 /\ 2*i - 1 \in Int /\ w - 1 \in Int
        BY <2>1, <2>5
      <4>2. (2*i - 1) * p <= (w - 1) * p
        BY <4>1, TimesMonotone
      <4>3. (w - 1) * p \in Int
        OBVIOUS
      <4> HIDE DEF q
      <4> QED
        BY <1>2, <1>3, <2>1, <2>2, <4>2, <4>3
    <3> HIDE DEF q
    <3>3. level[2*i - 1] = HeadOf(leaves, lo, 2 * q - p)
      <4>1. 2 * q - p <= n
        BY <1>2, <2>1, <3>2
      <4> QED
        BY <2>2, <2>3, <4>1 DEF NodeAt, n
    <3>4. level[2*i] = HeadOf(leaves, 2 * q - p + 1, hi)
      BY <2>2, <3>1 DEF NodeAt, n
    <3>5. /\ lo \in 1..n /\ hi \in 1..n /\ lo < hi
          /\ hi - lo + 1 \in Nat /\ p < hi - lo + 1 /\ hi - lo + 1 <= 2 * p
          /\ lo + p - 1 = 2 * q - p /\ lo + p = 2 * q - p + 1
      BY <1>2, <2>1, <3>2
    <3> HIDE DEF lo, hi
    <3>6. SplitPoint(hi - lo + 1) = p
      BY <3>5, SplitIsUnique
    <3>7. HeadOf(leaves, lo, hi) = NodeHash(HeadOf(leaves, lo, lo + p - 1), HeadOf(leaves, lo + p, hi))
      BY <3>5, <3>6, NodeHead DEF n
    <3> QED
      BY <2>4, <2>5, <3>3, <3>4, <3>5, <3>7
  <2>6. CASE ~(2 * i <= w)
    <3>1. w = 2*i - 1
      BY <1>1, <2>1, <2>6
    <3> HIDE DEF q
    <3>2. n <= 2 * q - p
      BY <1>3, <2>2, <3>1
    <3>3. hi = n /\ (IF 2 * q - p <= n THEN 2 * q - p ELSE n) = n
      BY <1>2, <2>1, <3>2
    <3> QED
      BY <2>2, <2>3, <2>4, <2>6, <3>3 DEF NodeAt, n
  <2> QED
    BY <2>5, <2>6
<1>8. Pair(level) = [i \in 1..v |-> NodeAt(leaves, 2 * p, i)]
  BY <1>4, <1>7 DEF Pair, v
<1> QED
  BY <1>5, <1>6, <1>8 DEF IsLevel, n, v

\* As many levels as there are leaves are enough: the last one is the head alone.
LEMMA LastLevel ==
  ASSUME NEW leaves, NEW n \in Nat, n = Len(leaves), n >= 1,
         leaves = [i \in 1..n |-> leaves[i]]
  PROVE  Levels(leaves, n)[n][1] = HeadOf(leaves, 1, n)
<1> DEFINE L == Levels(leaves, n)
           Good(h) == \E p, w \in Nat : /\ IsPowerOfTwo(p) /\ p > h /\ w >= 1
                                        /\ IsLevel(leaves, L[h], p, w)
           S == {h \in Nat : h <= n => Good(h)}
<1>1. \A h \in 0..n : L[h] = LevelStep(leaves, L, h)
  <2> HIDE DEF L
  <2>1. L = [h \in 0..n |-> LevelStep(leaves, L, h)]
    BY LevelsExist DEF L
  <2> QED
    BY <2>1
<1> HIDE DEF L
<1>2. 0 \in S
  <2>1. L[0] = leaves
    BY <1>1 DEF LevelStep
  <2>2. ASSUME NEW i \in 1..n
        PROVE  NodeAt(leaves, 1, i) = leaves[i]
    <3>1. (i - 1) * 1 + 1 = i /\ (IF i * 1 <= n THEN i * 1 ELSE n) = i
      OBVIOUS
    <3> QED
      BY <3>1, LeafHead DEF NodeAt
  <2>3. leaves = [i \in 1..n |-> NodeAt(leaves, 1, i)]
    BY <2>2
  <2>4. (n - 1) * 1 < n /\ n <= n * 1
    OBVIOUS
  <2>5. IsLevel(leaves, L[0], 1, n)
    BY <2>1, <2>3, <2>4 DEF IsLevel
  <2>6. Good(0)
    <3>1. 1 \in Nat /\ 1 > 0 /\ n >= 1 /\ n \in Nat
      OBVIOUS
    <3> HIDE DEF L
    <3> QED
      BY <2>5, <3>1, OneIsPower
  <2> HIDE DEF Good
  <2> QED
    BY <2>6
<1>3. ASSUME NEW h \in Nat, h \in S
      PROVE  h + 1 \in S
  <2> SUFFICES ASSUME h + 1 <= n PROVE Good(h + 1)
    OBVIOUS
  <2>1. PICK p \in Nat, w \in Nat : /\ IsPowerOfTwo(p) /\ p > h /\ w >= 1
                                    /\ IsLevel(leaves, L[h], p, w)
    BY <1>3
  <2>2. L[h + 1] = Pair(L[h])
    <3>1. h + 1 \in 0..n /\ h + 1 # 0 /\ (h + 1) - 1 = h
      OBVIOUS
    <3> QED
      BY <1>1, <3>1 DEF LevelStep
  <2>3. IsLevel(leaves, L[h + 1], 2 * p, (w + 1) \div 2)
    BY <2>1, <2>2, PairLevel
  <2>4. 2 * p \in Nat /\ 2 * p > h + 1 /\ (w + 1) \div 2 \in Nat /\ (w + 1) \div 2 >= 1
    BY <2>1
  <2>5. IsPowerOfTwo(2 * p)
    BY <2>1, DoubleIsPower
  <2> QED
    BY <2>3, <2>4, <2>5
<1>4. n \in S
  <2> HIDE DEF S
  <2> QED
    BY <1>2, <1>3, Induction
<1>5. PICK p \in Nat, w \in Nat : /\ IsPowerOfTwo(p) /\ p > n /\ w >= 1
                                  /\ IsLevel(leaves, L[n], p, w)
  BY <1>4
<1>6. w = 1
  <2>1. (w - 1) * p < n
    BY <1>5 DEF IsLevel
  <2>2. w # 1 => 1 * p <= (w - 1) * p
    <3>1. w # 1 => 1 <= w - 1 /\ w - 1 \in Int
      BY <1>5
    <3> QED
      BY <3>1, TimesMonotone
  <2>3. (w - 1) * p \in Int /\ 1 * p = p
    OBVIOUS
  <2> QED
    BY <1>5, <2>1, <2>2, <2>3
<1>7. L[n][1] = NodeAt(leaves, p, 1)
  BY <1>5, <1>6 DEF IsLevel
<1>8. (1 - 1) * p + 1 = 1 /\ (IF 1 * p <= n THEN 1 * p ELSE n) = n
  BY <1>5
<1> QED
  BY <1>7, <1>8 DEF NodeAt, L
-------------------------------------------------------------------------------
(* The log.                                                                *)

LEMMA LogTyping == Spec => [](log \in Seq(Event))
<1>1. Init => log \in Seq(Event)
  BY DEF Init
<1>2. log \in Seq(Event) /\ [Next]_log => (log \in Seq(Event))'
  BY DEF Next, Append1
<1> QED
  BY <1>1, <1>2, PTL DEF Spec

LEMMA LogsAreSequences == \A s \in Logs : s \in Seq(Event)
BY DEF Logs

\* verify.py:115-116: equal heads mean equal logs, at every length of either.
THEOREM Binding == Spec => []RootBindsLog
<1>1. log \in Seq(Event) => RootBindsLog
  BY LogsAreSequences, RootBinds DEF RootBindsLog
<1> QED
  BY <1>1, LogTyping, PTL

\* verify.py:210-238: at every length the split builds the tree that pairing the
\* neighbours level by level builds.
THEOREM Construction == Spec => []RootIsRFC6962
<1>1. ASSUME log \in Seq(Event)
      PROVE  RootIsRFC6962
  <2> DEFINE n == Len(log)
             a == LeavesOf(log)
  <2>1. n \in Nat /\ (log = <<>> <=> n = 0)
    BY <1>1
  <2>2. Len(a) = n /\ MerkleRoot(log) = IF n = 0 THEN EmptyRoot ELSE HeadOf(a, 1, n)
    BY <1>1, LeavesFacts
  <2>3. a = [i \in 1..n |-> a[i]]
    BY <1>1 DEF LeavesOf
  <2>4. LevelRoot(log) = IF log = <<>> THEN EmptyRoot ELSE Levels(a, n)[n][1]
    BY DEF LevelRoot, Levels, LevelStep, LeavesOf
  <2>5. n # 0 => Levels(a, n)[n][1] = HeadOf(a, 1, n)
    <3> HIDE DEF a, n
    <3>1. n # 0 => n >= 1
      BY <2>1
    <3> QED
      BY <2>1, <2>2, <2>3, <3>1, LastLevel
  <2> QED
    BY <2>1, <2>2, <2>4, <2>5 DEF RootIsRFC6962
<1> QED
  BY <1>1, LogTyping, PTL

\* The assumption RootBinding of Wire, of the tree that the clients build.
THEOREM TreeBinding ==
  \A s, t \in Logs : Len(s) = Len(t) /\ MerkleRoot(s) = MerkleRoot(t) => s = t
BY LogsAreSequences, RootBinds

\* verify.py:235-237: the loop of _merkle_root cuts at the largest power of two
\* below the number of leaves, so neither half is empty.
THEOREM Splitting == Spec => []SplitIsLargestPowerOfTwo
<1>1. ASSUME log \in Seq(Event), Len(log) >= 2
      PROVE  LET n == Len(log)
                 k == SplitPoint(n)
             IN  k < n /\ n <= 2 * k /\ IsPowerOfTwo(k)
  <2>1. Len(log) \in Nat
    BY <1>1
  <2>2. /\ SplitPoint(Len(log)) \in 1..(Len(log) - 1) /\ Len(log) <= 2 * SplitPoint(Len(log))
        /\ IsPowerOfTwo(SplitPoint(Len(log)))
    BY <1>1, <2>1, SplitFacts
  <2> QED
    BY <2>1, <2>2
<1>2. log \in Seq(Event) => SplitIsLargestPowerOfTwo
  BY <1>1 DEF SplitIsLargestPowerOfTwo
<1> QED
  BY <1>2, LogTyping, PTL

\* verify.py:228-238: an append leaves the complete left half of the tree as it was,
\* or makes the whole old tree the left half of the new one.
THEOREM AppendKeeps == Spec => AppendKeepsLeftHalf
<1> DEFINE old == MerkleRoot(log)
           new == MerkleRoot(log')
           n   == Len(log)
           k   == SplitPoint(n)
           k2  == SplitPoint(n + 1)
<1>1. ASSUME log \in Seq(Event), Next, n >= 2
      PROVE  IF k2 = k THEN new[2] = old[2] ELSE new[2] = old /\ Len(new) = 3
  <2> DEFINE a == LeavesOf(log)
             b == LeavesOf(log')
  <2>1. n \in Nat /\ n + 1 \in Nat /\ n + 1 >= 2
    BY <1>1
  <2>2. PICK e \in Event : log' = Append(log, e)
    BY <1>1 DEF Next, Append1
  <2>3. /\ log' \in Seq(Event) /\ Len(log') = n + 1
        /\ \A i \in 1..n : log'[i] = log[i]
    BY <1>1, <2>2
  <2>4. /\ Len(a) = n /\ \A i \in 1..n : a[i] = LeafHash(log[i])
        /\ old = HeadOf(a, 1, n)
    BY <1>1, <2>1, LeavesFacts
  <2>5. /\ Len(b) = n + 1 /\ \A i \in 1..n : b[i] = LeafHash(log'[i])
        /\ new = HeadOf(b, 1, n + 1)
    BY <2>1, <2>3, LeavesFacts
  <2>6. \A i \in 1..n : a[i] = b[i]
    BY <2>3, <2>4, <2>5
  <2> HIDE DEF a, b, old, new, n
  <2>7. \A i \in 1..n : HeadOf(a, 1, i) = HeadOf(b, 1, i)
    <3> SUFFICES ASSUME NEW i \in 1..n PROVE HeadOf(a, 1, i) = HeadOf(b, 1, i)
      OBVIOUS
    <3>1. 1 \in 1..n /\ 1 <= i /\ n <= n + 1
      BY <2>1
    <3> QED
      BY <2>1, <2>4, <2>5, <2>6, <3>1, SameSlice
  <2>8. k \in 1..(n - 1) /\ n <= 2 * k /\ IsPowerOfTwo(k)
    BY <1>1, <2>1, SplitFacts
  <2>9. old[2] = HeadOf(a, 1, k)
    <3>1. 1 \in 1..n /\ n \in 1..n /\ 1 < n /\ n - 1 + 1 = n /\ 1 + k - 1 = k
      BY <1>1, <2>1, <2>8
    <3>2. HeadOf(a, 1, n) = NodeHash(HeadOf(a, 1, k), HeadOf(a, 1 + k, n))
      BY <2>1, <2>4, <3>1, NodeHead
    <3> QED
      BY <2>4, <3>2 DEF NodeHash
  <2>10. new[2] = HeadOf(b, 1, k2) /\ Len(new) = 3
    <3>1. k2 \in 1..n
      BY <2>1, SplitFacts
    <3>2. /\ 1 \in 1..(n + 1) /\ n + 1 \in 1..(n + 1) /\ 1 < n + 1
          /\ (n + 1) - 1 + 1 = n + 1 /\ 1 + k2 - 1 = k2
      BY <1>1, <2>1, <3>1
    <3>3. HeadOf(b, 1, n + 1) = NodeHash(HeadOf(b, 1, k2), HeadOf(b, 1 + k2, n + 1))
      BY <2>1, <2>5, <3>2, NodeHead
    <3> QED
      BY <2>5, <3>3 DEF NodeHash
  <2>11. CASE k2 = k
    BY <2>1, <2>7, <2>8, <2>9, <2>10, <2>11
  <2>12. CASE k2 # k
    <3>1. ~(n + 1 <= 2 * k)
      <4>1. k \in Nat /\ k < n + 1
        BY <2>1, <2>8
      <4> QED
        BY <2>1, <2>8, <2>12, <4>1, SplitIsUnique
    <3>2. n = 2 * k /\ k \in Nat
      BY <2>1, <2>8, <3>1
    <3>3. IsPowerOfTwo(n)
      BY <2>8, <3>2, DoubleIsPower
    <3>4. k2 = n
      <4>1. n < n + 1 /\ n + 1 <= 2 * n
        BY <1>1, <2>1
      <4> QED
        BY <2>1, <3>3, <4>1, SplitIsUnique
    <3>5. n \in 1..n
      BY <1>1, <2>1
    <3> QED
      BY <2>4, <2>7, <2>10, <2>12, <3>4, <3>5
  <2> QED
    BY <2>11, <2>12
<1>2. log \in Seq(Event) /\ [Next]_log =>
        [n >= 2 => IF SplitPoint(n + 1) = SplitPoint(n)
                   THEN new[2] = old[2]
                   ELSE new[2] = old /\ Len(new) = 3]_log
  BY <1>1
<1> QED
  BY <1>2, LogTyping, PTL DEF Spec, AppendKeepsLeftHalf
===============================================================================
