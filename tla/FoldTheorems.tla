----------------------------- MODULE FoldTheorems -----------------------------
(***************************************************************************)
(* What the proofs about folds share.  The folds of the community modules  *)
(* are recursive functions over the subsets of a sequence's domain.  An    *)
(* induction is stated over a set of numbers, which is what a step with a  *)
(* property of the numbers defines.                                        *)
(***************************************************************************)
EXTENDS Integers, FiniteSets, FiniteSetsExt, FiniteSetTheorems, TLAPS

LEMMA LeastNatural ==
    ASSUME NEW T \in SUBSET Nat, T # {}
    PROVE  \E n \in T : \A m \in T : n <= m
<1> DEFINE Below == {ss \in Nat \X Nat : ss[1] < ss[2]}
<1>1. IsWellFoundedOn(Below, Nat)
  BY NatLessThanWellFounded DEF OpToRel
<1>2. PICK x \in T : \A y \in T : <<y, x>> \notin Below
  <2> HIDE DEF Below
  <2>1. QED
    BY <1>1, WFMin
<1>3. ASSUME NEW m \in T
      PROVE  x <= m
  <2>1. m \in Nat /\ x \in Nat /\ <<m, x>> \notin Below
    BY <1>2
  <2>2. m < x => <<m, x>> \in Below
    BY <2>1
  <2> HIDE DEF Below
  <2>3. QED
    BY <2>1, <2>2
<1>4. QED
  BY <1>3

\* Induction from 0 to n.
LEMMA UpTo ==
    ASSUME NEW n \in Nat, NEW T, 0 \in T,
           \A k \in 1..n : k - 1 \in T => k \in T
    PROVE  \A k \in 0..n : k \in T
<1> SUFFICES ASSUME NEW j \in 0..n, j \notin T PROVE FALSE
  OBVIOUS
<1> DEFINE Missing == (0..n) \ T
<1>1. PICK k \in Missing : \A m \in Missing : k <= m
  <2>1. Missing \in SUBSET Nat /\ j \in Missing
    OBVIOUS
  <2> HIDE DEF Missing
  <2>2. QED
    BY <2>1, LeastNatural
<1>2. k # 0 /\ k \in 1..n /\ k - 1 \in 0..n
  OBVIOUS
<1>3. k - 1 \in T
  BY <1>1, <1>2
<1>4. QED
  BY <1>2, <1>3

\* Induction from n + 1 down to 1.
LEMMA DownTo ==
    ASSUME NEW n \in Nat, NEW T, n + 1 \in T,
           \A k \in 1..n : k + 1 \in T => k \in T
    PROVE  \A k \in 1..(n + 1) : k \in T
<1> DEFINE Mirrored == {m \in 0..n : n + 1 - m \in T}
<1>1. 0 \in Mirrored
  OBVIOUS
<1>2. ASSUME NEW m \in 1..n, m - 1 \in Mirrored
      PROVE  m \in Mirrored
  <2>1. (n + 1 - m) + 1 = n + 1 - (m - 1) /\ n + 1 - m \in 1..n
    OBVIOUS
  <2>2. QED
    BY <1>2, <2>1
<1>3. \A m \in 0..n : m \in Mirrored
  <2> HIDE DEF Mirrored
  <2>1. QED
    BY <1>1, <1>2, UpTo
<1>4. TAKE k \in 1..(n + 1)
<1>5. n + 1 - k \in 0..n /\ n + 1 - (n + 1 - k) = k
  OBVIOUS
<1>6. QED
  BY <1>3, <1>5

\* A set of numbers with an upper bound has a greatest one.
LEMMA Greatest ==
    ASSUME NEW n \in Nat, NEW T \in SUBSET (0..n), T # {}
    PROVE  \E m \in T : \A k \in T : k <= m
<1> DEFINE Gaps == {n - k : k \in T}
<1>1. Gaps \in SUBSET Nat /\ Gaps # {}
  <2>1. \A k \in T : n - k \in Nat
    OBVIOUS
  <2>2. PICK k \in T : TRUE
    OBVIOUS
  <2>3. n - k \in Gaps
    BY <2>2, Zenon
  <2>4. \A h \in Gaps : h \in Nat
    BY <2>1, Zenon
  <2>5. QED
    BY <2>3, <2>4, Zenon
<1>2. PICK g \in Gaps : \A h \in Gaps : g <= h
  <2> HIDE DEF Gaps
  <2>1. QED
    BY <1>1, LeastNatural
<1>3. PICK m \in T : g = n - m
  OBVIOUS
<1>4. ASSUME NEW k \in T
      PROVE  k <= m
  <2>1. n - k \in Gaps
    OBVIOUS
  <2>2. n - m <= n - k
    BY <1>2, <1>3, <2>1
  <2>3. QED
    BY <2>2
<1>5. QED
  BY <1>4

\* Max and Min of a set of positions.
LEMMA MaxOf ==
    ASSUME NEW n \in Nat, NEW s \in SUBSET (1..n), s # {}
    PROVE  Max(s) \in s /\ \A k \in s : k <= Max(s)
<1>1. s \in SUBSET (0..n)
  OBVIOUS
<1>2. PICK m \in s : \A k \in s : k <= m
  BY <1>1, Greatest
<1>3. \A k \in s : m >= k
  BY <1>2
<1>4. QED
  BY <1>3 DEF Max

LEMMA MinOf ==
    ASSUME NEW n \in Nat, NEW s \in SUBSET (1..n), s # {}
    PROVE  Min(s) \in s /\ \A k \in s : Min(s) <= k
<1>1. s \in SUBSET Nat
  OBVIOUS
<1>2. PICK m \in s : \A k \in s : m <= k
  BY <1>1, LeastNatural
<1>3. QED
  BY <1>2 DEF Min

\* pick chooses an element of every nonempty subset of 1..n.
Picks(n, pick) == \A s \in SUBSET (1..n) : s # {} => pick[s] \in s

\* f folds the subsets of 1..n, taking away the picked element each time.
FoldsBy(f, n, base, step, pick) ==
    \A s \in SUBSET (1..n) :
        f[s] = IF s = {} THEN base ELSE step[<<f[s \ {pick[s]}], pick[s]>>]

\* A function on the subsets of 1..n can be defined by recursion that takes
\* away one element at a time.
LEMMA FoldExists ==
    ASSUME NEW n \in Nat, NEW B, NEW base \in B,
           NEW step \in [B \X (1..n) -> B],
           NEW pick, Picks(n, pick)
    PROVE  \E f \in [SUBSET (1..n) -> B] : FoldsBy(f, n, base, step, pick)
<1> DEFINE D == SUBSET (1..n)
           Next(f, s) == IF s = {} THEN base ELSE step[<<f[s \ {pick[s]}], pick[s]>>]
           Good(k, f) == \A s \in D : Cardinality(s) <= k => f[s] = Next(f, s)
           T == {k \in 0..n : \E f \in [D -> B] : Good(k, f)}
<1>1. /\ \A s \in D : Cardinality(s) \in 0..n
      /\ \A s \in D : s # {} => /\ s \ {pick[s]} \in D /\ pick[s] \in 1..n
                                /\ Cardinality(s \ {pick[s]}) = Cardinality(s) - 1
      /\ \A s \in D : Cardinality(s) = 0 <=> s = {}
  <2>1. IsFiniteSet(1..n) /\ Cardinality(1..n) = n
    BY FS_Interval
  <2>2. ASSUME NEW s \in D
        PROVE  IsFiniteSet(s) /\ Cardinality(s) \in 0..n
    <3>1. IsFiniteSet(s) /\ Cardinality(s) <= Cardinality(1..n)
      BY <2>1, FS_Subset, Zenon
    <3>2. Cardinality(s) \in Nat
      BY <3>1, FS_CardinalityType
    <3>3. QED
      BY <2>1, <3>1, <3>2
  <2>3. QED
    BY <2>2, FS_RemoveElement, FS_EmptySet DEF Picks
<1> HIDE DEF D
<1>2. 0 \in T
  <2> DEFINE f == [s \in D |-> base]
  <2>1. f \in [D -> B]
    OBVIOUS
  <2>2. ASSUME NEW s \in D, Cardinality(s) <= 0
        PROVE  f[s] = Next(f, s)
    BY <1>1, <2>2
  <2>3. Good(0, f)
    BY <2>2
  <2> HIDE DEF f, Good
  <2>4. QED
    BY <2>1, <2>3
<1>3. ASSUME NEW k \in 1..n, k - 1 \in T
      PROVE  k \in T
  <2>1. PICK f \in [D -> B] : Good(k - 1, f)
    BY <1>3
  <2> DEFINE h == [s \in D |-> IF Cardinality(s) = k THEN Next(f, s) ELSE f[s]]
  <2>2. h \in [D -> B]
    <3>1. ASSUME NEW s \in D, Cardinality(s) = k
          PROVE  Next(f, s) \in B
      <4>1. s # {} => f[s \ {pick[s]}] \in B /\ pick[s] \in 1..n
        BY <1>1
      <4>2. QED
        BY <4>1
    <3>2. QED
      BY <3>1
  <2>3. ASSUME NEW s \in D, Cardinality(s) <= k
        PROVE  h[s] = Next(h, s)
    <3>1. s # {} => h[s \ {pick[s]}] = f[s \ {pick[s]}]
      BY <1>1, <2>3
    <3>2. h[s] = Next(f, s)
      <4>1. CASE Cardinality(s) = k
        BY <4>1
      <4>2. CASE Cardinality(s) # k
        <5>1. Cardinality(s) <= k - 1
          BY <1>1, <2>3, <4>2
        <5>2. QED
          BY <2>1, <4>2, <5>1
      <4>3. QED
        BY <4>1, <4>2
    <3>3. QED
      BY <3>1, <3>2
  <2>4. Good(k, h)
    BY <2>3
  <2> HIDE DEF h, Good
  <2>5. QED
    BY <2>2, <2>4
<1>4. n \in T
  <2> HIDE DEF T
  <2>1. QED
    BY <1>2, <1>3, UpTo
<1>5. PICK f \in [D -> B] : Good(n, f)
  <2> HIDE DEF Good
  <2>1. QED
    BY <1>4
<1>6. \A s \in D : f[s] = Next(f, s)
  BY <1>1, <1>5
<1>7. QED
  BY <1>6 DEF D, FoldsBy
=============================================================================
