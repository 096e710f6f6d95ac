---------------------------- MODULE RangesProofs ----------------------------
(***************************************************************************)
(* The range arithmetic of a backfill computes what it is for, whatever    *)
(* the ranges: the gaps are the complement of the coverage, the chunks     *)
(* partition a range.  The induction over a loop is done by the smallest   *)
(* index at which its invariant would fail.                                *)
(***************************************************************************)
EXTENDS Ranges, FiniteSetTheorems, WellFoundedInduction, TLAPS

-----------------------------------------------------------------------------
(* Loops.                                                                  *)

\* Induction up to N, for a set of indices.
LEMMA UpTo ==
    ASSUME NEW N \in Nat, NEW T, 0 \in T,
           \A i \in 1 .. N : i - 1 \in T => i \in T
    PROVE  0 .. N \subseteq T
<1> DEFINE Bad == {i \in 0 .. N : i \notin T}
<1> SUFFICES ASSUME Bad # {} PROVE FALSE
  OBVIOUS
<1>1. Bad \subseteq Nat
  OBVIOUS
<1>2. PICK i \in Bad : \A j \in Bad : <<j, i>> \notin OpToRel(<, Nat)
  <2> HIDE DEF Bad
  <2> QED BY <1>1, NatLessThanWellFounded, WFMin, Zenon
<1>3. i \in 1 .. N /\ i - 1 \in Nat /\ i \in Nat /\ i - 1 < i
  OBVIOUS
<1>4. i - 1 \notin T
  BY <1>3
<1>5. i - 1 \in Bad
  BY <1>3, <1>4
<1>6. <<i - 1, i>> \in OpToRel(<, Nat)
  BY <1>3 DEF OpToRel
<1> QED BY <1>2, <1>5, <1>6

\* g is the sequence of values of a loop over 1 .. N.
Loop(g, N, base, step) ==
    g[0] = base /\ \A i \in 1 .. N : g[i] = step[<<g[i - 1], i>>]

(***************************************************************************)
(* A loop over 1 .. N that starts at base and computes its next value by   *)
(* step: the recursive function that describes it exists, and its values   *)
(* are of the kind V that step preserves.                                  *)
(***************************************************************************)
LEMMA LoopExists ==
    ASSUME NEW N \in Nat, NEW V, NEW base \in V,
           NEW step \in [V \X (1 .. N) -> V]
    PROVE  \E g \in [0 .. N -> V] : Loop(g, N, base, step)
<1> DEFINE Goes(g, n) ==
              /\ g[0] = base
              /\ \A i \in 1 .. n : g[i] = step[<<g[i - 1], i>>]
           T == {n \in 0 .. N : \E g \in [0 .. N -> V] : Goes(g, n)}
<1>1. 0 \in T
  <2> DEFINE h == [i \in 0 .. N |-> base]
  <2>1. h \in [0 .. N -> V] /\ h[0] = base
    OBVIOUS
  <2> HIDE DEF h
  <2>2. Goes(h, 0)
    BY <2>1
  <2>3. \E g \in [0 .. N -> V] : Goes(g, 0)
    BY <2>1, <2>2
  <2> QED BY <2>3
<1>2. ASSUME NEW n \in 1 .. N, n - 1 \in T
      PROVE  n \in T
  <2>1. PICK g \in [0 .. N -> V] : Goes(g, n - 1)
    BY <1>2
  <2> DEFINE h == [g EXCEPT ![n] = step[<<g[n - 1], n>>]]
  <2>2. g[n - 1] \in V /\ step[<<g[n - 1], n>>] \in V
    OBVIOUS
  <2>3. h \in [0 .. N -> V]
    BY <2>2
  <2>4. h[0] = base
    BY <2>1
  <2>5. ASSUME NEW i \in 1 .. n
        PROVE  h[i] = step[<<h[i - 1], i>>]
    <3>1. i - 1 # n /\ i - 1 \in 0 .. N /\ h[i - 1] = g[i - 1]
      OBVIOUS
    <3>2. CASE i = n
      BY <3>1, <3>2
    <3>3. CASE i # n
      <4>1. i \in 1 .. n - 1 /\ h[i] = g[i]
        BY <3>3
      <4> QED BY <2>1, <3>1, <4>1
    <3> QED BY <3>2, <3>3
  <2> HIDE DEF h
  <2>6. Goes(h, n)
    BY <2>4, <2>5
  <2>7. \E k \in [0 .. N -> V] : Goes(k, n)
    BY <2>3, <2>6
  <2> QED BY <2>7
<1>3. N \in T
  <2> HIDE DEF T
  <2>1. 0 .. N \subseteq T
    BY <1>1, <1>2, UpTo
  <2> QED BY <2>1
<1> QED BY <1>3 DEF Loop

-----------------------------------------------------------------------------
(* Sorting.                                                                *)

IntRange == [from : Int, to : Int]

\* The larger of two numbers.
LEMMA MaxOfTwo ==
    ASSUME NEW a \in Int, NEW b \in Int
    PROVE  Max({a, b}) = IF a >= b THEN a ELSE b
<1>1. \A x \in {a, b} : (\A y \in {a, b} : x >= y) <=> x = IF a >= b THEN a ELSE b
  OBVIOUS
<1>2. \E x \in {a, b} : \A y \in {a, b} : x >= y
  BY <1>1
<1> QED BY <1>1, <1>2 DEF Max

\* The smaller of two numbers.
LEMMA MinOfTwo ==
    ASSUME NEW a \in Int, NEW b \in Int
    PROVE  Min({a, b}) = IF a <= b THEN a ELSE b
<1>1. \A x \in {a, b} : (\A y \in {a, b} : x <= y) <=> x = IF a <= b THEN a ELSE b
  OBVIOUS
<1>2. \E x \in {a, b} : \A y \in {a, b} : x <= y
  BY <1>1
<1> QED BY <1>1, <1>2 DEF Min

\* Python's order on tuples is a strict total order.
LEMMA BeforeIsTotal ==
    /\ \A r \in IntRange : ~Before(r, r)
    /\ \A r, s, u \in IntRange : Before(r, s) /\ Before(s, u) => Before(r, u)
    /\ \A r, s \in IntRange : r = s \/ Before(r, s) \/ Before(s, r)
<1>1. \A r, s \in IntRange : r.from = s.from /\ r.to = s.to => r = s
  BY DEF IntRange
<1>2. \A r \in IntRange : r.from \in Int /\ r.to \in Int
  BY DEF IntRange
<1> QED BY <1>1, <1>2 DEF Before

\* Sorting a finite set of ranges lists each of them once, in order.
LEMMA SortedInOrder ==
    ASSUME NEW covered, IsFiniteSet(covered), covered \subseteq IntRange
    PROVE  LET s == Sorted(covered)
           IN /\ s \in Seq(covered)
              /\ \A r \in covered : \E i \in 1 .. Len(s) : s[i] = r
              /\ \A i, j \in 1 .. Len(s) : i < j => Before(s[i], s[j])
<1> DEFINE n == Cardinality(covered)
           Rank(r) == {u \in covered : Before(u, r)}
           f == [r \in covered |-> Cardinality(Rank(r)) + 1]
           s == Sorted(covered)
<1>1. n \in Nat
  BY FS_CardinalityType
<1>2. \A r \in covered : IsFiniteSet(Rank(r)) /\ Cardinality(Rank(r)) \in Nat
  BY FS_Subset, FS_CardinalityType
<1>3. \A r \in covered : Cardinality(Rank(r)) + 1 \in 1 .. n
  <2> SUFFICES ASSUME NEW r \in covered
               PROVE  Cardinality(Rank(r)) < n
    <3> HIDE DEF Rank, n
    <3> QED BY <1>1, <1>2
  <2>1. Rank(r) \in SUBSET covered /\ Rank(r) # covered
    BY BeforeIsTotal
  <2>2. Cardinality(Rank(r)) <= n /\ Cardinality(Rank(r)) # n
    <3> HIDE DEF Rank
    <3> QED BY <2>1, FS_Subset
  <2> QED BY <1>1, <1>2, <2>2
<1>4. \A r, u \in covered :
         Before(r, u) => Cardinality(Rank(r)) < Cardinality(Rank(u))
  <2> SUFFICES ASSUME NEW r \in covered, NEW u \in covered, Before(r, u)
               PROVE  Cardinality(Rank(r)) < Cardinality(Rank(u))
    OBVIOUS
  <2>1. Rank(r) \in SUBSET Rank(u) /\ Rank(r) # Rank(u)
    BY BeforeIsTotal
  <2>2. Cardinality(Rank(r)) <= Cardinality(Rank(u))
        /\ Cardinality(Rank(u)) # Cardinality(Rank(r))
    <3> HIDE DEF Rank
    <3> QED BY <1>2, <2>1, FS_Subset
  <2> QED BY <1>2, <2>2
<1>5. f \in Injection(covered, 1 .. n)
  <2>1. f \in [covered -> 1 .. n]
    BY <1>3
  <2>2. \A r, u \in covered : f[r] = f[u] => r = u
    <3> SUFFICES ASSUME NEW r \in covered, NEW u \in covered,
                        Cardinality(Rank(r)) = Cardinality(Rank(u)), r # u
                 PROVE  FALSE
      <4> HIDE DEF Rank
      <4> QED BY <1>2
    <3>1. Before(r, u) \/ Before(u, r)
      BY BeforeIsTotal
    <3> HIDE DEF Rank
    <3> QED BY <1>2, <1>4, <3>1
  <2> QED BY <2>1, <2>2 DEF Injection, IsInjective
<1>6. f \in Surjection(covered, 1 .. n)
  <2>1. IsFiniteSet(1 .. n) /\ Cardinality(1 .. n) = n
    BY <1>1, FS_Interval
  <2> HIDE DEF f
  <2> QED BY <1>5, <2>1, FS_Injection
<1>7. \A i \in 1 .. n : s[i] \in covered /\ Cardinality(Rank(s[i])) = i - 1
  <2> SUFFICES ASSUME NEW i \in 1 .. n
               PROVE  s[i] \in covered /\ Cardinality(Rank(s[i])) = i - 1
    OBVIOUS
  <2>1. PICK r \in covered : f[r] = i
    BY <1>6 DEF Surjection
  <2>2. Cardinality(Rank(r)) = i - 1
    BY <1>2, <2>1
  <2>3. s[i] = CHOOSE u \in covered : Cardinality(Rank(u)) = i - 1
    BY DEF Sorted
  <2> HIDE DEF Rank, s
  <2> QED BY <2>2, <2>3
<1>8. s \in Seq(covered) /\ Len(s) = n
  <2>1. s = [i \in 1 .. n |-> s[i]]
    <3> DEFINE At(i) == CHOOSE r \in covered : Cardinality(Rank(r)) = i - 1
               g == [i \in 1 .. n |-> At(i)]
    <3>1. s = g
      BY DEF Sorted
    <3>2. g = [i \in 1 .. n |-> g[i]]
      <4> HIDE DEF At, n
      <4> QED OBVIOUS
    <3> HIDE DEF s, g
    <3> QED BY <3>1, <3>2
  <2>2. \A i \in 1 .. n : s[i] \in covered
    BY <1>7
  <2> HIDE DEF s, n
  <2> QED BY <1>1, <2>1, <2>2
<1>9. \A r \in covered : \E i \in 1 .. n : s[i] = r
  <2> SUFFICES ASSUME NEW r \in covered PROVE \E i \in 1 .. n : s[i] = r
    OBVIOUS
  <2> DEFINE i == Cardinality(Rank(r)) + 1
  <2>1. i \in 1 .. n /\ i - 1 = Cardinality(Rank(r))
    <3> HIDE DEF Rank, n
    <3> QED BY <1>2, <1>3
  <2>2. s[i] \in covered /\ Cardinality(Rank(s[i])) = Cardinality(Rank(r))
    BY <1>7, <2>1
  <2>3. s[i] = r
    <3> HIDE DEF Rank, s, i
    <3>1. ~Before(s[i], r) /\ ~Before(r, s[i])
      BY <1>2, <1>4, <2>2
    <3> QED BY <2>2, <3>1, BeforeIsTotal
  <2> QED BY <2>1, <2>3
<1>10. \A i, j \in 1 .. n : i < j => Before(s[i], s[j])
  <2> SUFFICES ASSUME NEW i \in 1 .. n, NEW j \in 1 .. n, i < j
               PROVE  Before(s[i], s[j])
    OBVIOUS
  <2>1. /\ s[i] \in covered /\ Cardinality(Rank(s[i])) = i - 1
        /\ s[j] \in covered /\ Cardinality(Rank(s[j])) = j - 1
    BY <1>7
  <2> HIDE DEF Rank, s, n
  <2>2. s[i] # s[j] /\ ~Before(s[j], s[i])
    BY <1>1, <1>4, <2>1
  <2> QED BY <2>1, <2>2, BeforeIsTotal
<1> QED BY <1>8, <1>9, <1>10

-----------------------------------------------------------------------------
(* Merging.                                                                *)

\* Ranges of at least one block.
ValidRange == {r \in IntRange : r.from <= r.to}

\* In order, with at least one block between two neighbours.
Apart(m) == \A i, j \in 1 .. Len(m) : i < j => m[i].to + 1 < m[j].from

\* A valid range has two ends, in order.
LEMMA ValidRangeType ==
    /\ \A r \in ValidRange : r.from \in Int /\ r.to \in Int /\ r.from <= r.to
    /\ \A f, n \in Int : /\ RangeOf(f, n).from = f /\ RangeOf(f, n).to = n
                         /\ f <= n => RangeOf(f, n) \in ValidRange
  BY DEF ValidRange, IntRange, RangeOf

\* What appending one element does to a sequence.
LEMMA AppendAt ==
    ASSUME NEW S, NEW m \in Seq(S), NEW x \in S
    PROVE  /\ Append(m, x) \in Seq(S) /\ Len(Append(m, x)) = Len(m) + 1
           /\ \A i \in 1 .. Len(m) : Append(m, x)[i] = m[i]
           /\ Append(m, x)[Len(m) + 1] = x
  OBVIOUS

\* What replacing the last element does to it.
LEMMA ReplaceLast ==
    ASSUME NEW S, NEW m \in Seq(S), m # <<>>, NEW x \in S
    PROVE  LET q == Front(m) \o <<x>>
           IN /\ q \in Seq(S) /\ Len(q) = Len(m)
              /\ \A i \in 1 .. Len(m) - 1 : q[i] = m[i]
              /\ q[Len(m)] = x
<1>1. Len(m) \in Nat \ {0}
  OBVIOUS
<1>2. \A n \in Nat : n <= Len(m) =>
         /\ SubSeq(m, 1, n) \in Seq(S) /\ Len(SubSeq(m, 1, n)) = n
         /\ \A i \in 1 .. n : SubSeq(m, 1, n)[i] = m[i]
  OBVIOUS
<1>3. /\ Front(m) \in Seq(S) /\ Len(Front(m)) = Len(m) - 1
      /\ \A i \in 1 .. Len(m) - 1 : Front(m)[i] = m[i]
  <2> DEFINE n == Len(m) - 1
  <2>1. n \in Nat /\ n <= Len(m)
    BY <1>1
  <2>2. Front(m) = SubSeq(m, 1, n)
    BY DEF Front
  <2> HIDE DEF n
  <2>3. /\ Front(m) \in Seq(S) /\ Len(Front(m)) = n
        /\ \A i \in 1 .. n : Front(m)[i] = m[i]
    BY <1>2, <2>1, <2>2
  <2> QED BY <2>3 DEF n
<1> HIDE DEF Front
<1> QED BY <1>1, <1>3

(***************************************************************************)
(* One step of the merge loop: the new range is taken in, and the merged   *)
(* ranges stay apart, if it starts at or after all of them.                *)
(***************************************************************************)
LEMMA ExtendCorrect ==
    ASSUME NEW m \in Seq(ValidRange), NEW r \in ValidRange
    PROVE  LET q == Extend(m, r)
           IN /\ q \in Seq(ValidRange)
              /\ Apart(m) /\ (\A i \in 1 .. Len(m) : m[i].from <= r.from) =>
                    /\ Apart(q)
                    /\ \A b \in Int : Holds(q, b) <=> Holds(m, b) \/ In(b, r)
                    /\ \A i \in 1 .. Len(q) : q[i].from <= r.from
<1> DEFINE q == Extend(m, r)
           k == Len(m)
<1> USE ValidRangeType
<1>1. k \in Nat /\ \A i \in 1 .. k : m[i] \in ValidRange
  OBVIOUS
<1>2. CASE m # <<>> /\ r.from <= Last(m).to + 1
  <2> DEFINE x == RangeOf(Last(m).from, Max({Last(m).to, r.to}))
  <2>1. k \in 1 .. k /\ Last(m) = m[k] /\ m[k] \in ValidRange
    BY <1>1, <1>2 DEF Last
  <2>2. Max({m[k].to, r.to}) = IF m[k].to >= r.to THEN m[k].to ELSE r.to
    <3>1. m[k].to \in Int /\ r.to \in Int
      BY <2>1
    <3> QED BY <3>1, MaxOfTwo
  <2>3. /\ x \in ValidRange /\ x.from = m[k].from
        /\ x.to = IF m[k].to >= r.to THEN m[k].to ELSE r.to
    BY <2>1, <2>2
  <2>4. q = Front(m) \o <<x>>
    BY <1>2 DEF Extend
  <2> HIDE DEF x, q
  <2>5. /\ q \in Seq(ValidRange) /\ Len(q) = k
        /\ \A i \in 1 .. k - 1 : q[i] = m[i]
        /\ q[k] = x
    BY <1>2, <2>3, <2>4, ReplaceLast
  <2>6. ASSUME Apart(m), \A i \in 1 .. k : m[i].from <= r.from
        PROVE  /\ Apart(q)
               /\ \A b \in Int : Holds(q, b) <=> Holds(m, b) \/ In(b, r)
               /\ \A i \in 1 .. Len(q) : q[i].from <= r.from
    <3>1. \A i \in 1 .. k : q[i].from = m[i].from
      <4>1. \A i \in 1 .. k : i \in 1 .. k - 1 \/ i = k
        BY <1>1
      <4> QED BY <2>3, <2>5, <4>1
    <3>2. Apart(q)
      <4> SUFFICES ASSUME NEW i \in 1 .. k, NEW j \in 1 .. k, i < j
                   PROVE  q[i].to + 1 < q[j].from
        BY <2>5 DEF Apart
      <4>1. q[i] = m[i]
        BY <1>1, <2>5
      <4> QED BY <2>6, <3>1, <4>1 DEF Apart
    <3>3. \A b \in Int : In(b, x) <=> In(b, m[k]) \/ In(b, r)
      BY <1>2, <2>1, <2>3, <2>6 DEF In
    <3>4. \A b \in Int : Holds(q, b) <=>
             (\E i \in 1 .. k - 1 : In(b, m[i])) \/ In(b, x)
      <4>1. \A i \in 1 .. k : i \in 1 .. k - 1 \/ i = k
        BY <1>1
      <4>2. k \in 1 .. k /\ \A i \in 1 .. k - 1 : i \in 1 .. k
        BY <1>1, <2>1
      <4> QED BY <2>5, <4>1, <4>2 DEF Holds
    <3>5. \A b \in Int : Holds(m, b) <=>
             (\E i \in 1 .. k - 1 : In(b, m[i])) \/ In(b, m[k])
      <4>1. \A i \in 1 .. k : i \in 1 .. k - 1 \/ i = k
        BY <1>1
      <4>2. k \in 1 .. k /\ \A i \in 1 .. k - 1 : i \in 1 .. k
        BY <1>1, <2>1
      <4> QED BY <4>1, <4>2 DEF Holds
    <3> QED BY <2>5, <2>6, <3>1, <3>2, <3>3, <3>4, <3>5
  <2> QED BY <2>5, <2>6 DEF q
<1>3. CASE ~(m # <<>> /\ r.from <= Last(m).to + 1)
  <2>1. q = Append(m, r)
    BY <1>3 DEF Extend
  <2> HIDE DEF q
  <2>2. /\ q \in Seq(ValidRange) /\ Len(q) = k + 1
        /\ \A i \in 1 .. k : q[i] = m[i]
        /\ q[k + 1] = r
    BY <2>1, AppendAt
  <2>3. ASSUME Apart(m), \A i \in 1 .. k : m[i].from <= r.from
        PROVE  /\ Apart(q)
               /\ \A b \in Int : Holds(q, b) <=> Holds(m, b) \/ In(b, r)
               /\ \A i \in 1 .. Len(q) : q[i].from <= r.from
    <3>1. \A i \in 1 .. k + 1 : i \in 1 .. k \/ i = k + 1
      BY <1>1
    <3>2. \A i \in 1 .. k : i \in 1 .. k + 1
      BY <1>1
    <3>3. \A i \in 1 .. k : m[i].to + 1 < r.from
      <4> SUFFICES ASSUME NEW i \in 1 .. k PROVE m[i].to + 1 < r.from
        OBVIOUS
      <4>1. m # <<>> /\ k \in 1 .. k /\ Last(m) = m[k]
        BY <1>1 DEF Last
      <4>2. m[k].to + 1 < r.from
        BY <1>1, <1>3, <4>1
      <4>3. CASE i = k
        BY <4>2, <4>3
      <4>4. CASE i # k
        <5>1. m[i].to + 1 < m[k].from
          BY <1>1, <2>3, <4>1, <4>4 DEF Apart
        <5> QED BY <1>1, <4>1, <4>2, <5>1
      <4> QED BY <4>3, <4>4
    <3>4. Apart(q)
      <4> SUFFICES ASSUME NEW i \in 1 .. k + 1, NEW j \in 1 .. k + 1, i < j
                   PROVE  q[i].to + 1 < q[j].from
        BY <2>2 DEF Apart
      <4>1. i \in 1 .. k /\ q[i] = m[i]
        BY <1>1, <2>2
      <4>2. CASE j = k + 1
        BY <2>2, <3>3, <4>1, <4>2
      <4>3. CASE j \in 1 .. k
        BY <2>2, <2>3, <4>1, <4>3 DEF Apart
      <4> QED BY <3>1, <4>2, <4>3
    <3>5. \A b \in Int : Holds(q, b) <=> Holds(m, b) \/ In(b, r)
      <4>1. k + 1 \in 1 .. k + 1
        BY <1>1
      <4> QED BY <2>2, <3>1, <3>2, <4>1 DEF Holds
    <3>6. \A i \in 1 .. Len(q) : q[i].from <= r.from
      <4>1. \A i \in 1 .. k : q[i].from <= r.from
        BY <2>2, <2>3
      <4>2. r.from <= r.from
        OBVIOUS
      <4> HIDE DEF k
      <4> QED BY <2>2, <3>1, <4>1, <4>2
    <3> QED BY <3>4, <3>5, <3>6
  <2> QED BY <2>2, <2>3 DEF q
<1> QED BY <1>2, <1>3

\* Merging sorted ranges keeps their blocks and leaves gaps between them.
LEMMA MergeLoopCorrect ==
    ASSUME NEW s \in Seq(ValidRange),
           \A i, j \in 1 .. Len(s) : i < j => s[i].from <= s[j].from
    PROVE  /\ MergeLoop(s) \in Seq(ValidRange)
           /\ Apart(MergeLoop(s))
           /\ \A b \in Int : Holds(MergeLoop(s), b) <=> Holds(s, b)
<1> DEFINE N == Len(s)
           V == Seq(ValidRange)
           Eq(g) == g = [i \in 0 .. N |->
                           IF i = 0 THEN <<>> ELSE Extend(g[i - 1], s[i])]
           merge == CHOOSE g : Eq(g)
           step == [x \in V \X (1 .. N) |-> Extend(x[1], s[x[2]])]
<1>1. N \in Nat /\ \A i \in 1 .. N : s[i] \in ValidRange
  OBVIOUS
<1>2. Eq(merge)
  <2>1. step \in [V \X (1 .. N) -> V]
    <3>1. \A x \in V \X (1 .. N) : Extend(x[1], s[x[2]]) \in V
      BY <1>1, ExtendCorrect
    <3> QED BY <3>1
  <2>2. <<>> \in V
    OBVIOUS
  <2> DEFINE base == <<>>
  <2> HIDE DEF step, V, N, base
  <2>3. PICK g \in [0 .. N -> V] : Loop(g, N, base, step)
    <3>1. N \in Nat /\ base \in V
      BY <1>1, <2>2 DEF base
    <3> QED BY <2>1, <3>1, LoopExists
  <2>4. \A i \in 1 .. N : step[<<g[i - 1], i>>] = Extend(g[i - 1], s[i])
    <3> SUFFICES ASSUME NEW i \in 1 .. N
                 PROVE  step[<<g[i - 1], i>>] = Extend(g[i - 1], s[i])
      OBVIOUS
    <3>1. i - 1 \in 0 .. N
      BY <1>1
    <3>2. <<g[i - 1], i>> \in V \X (1 .. N)
      BY <3>1
    <3> QED BY <3>2 DEF step
  <2>5. \A i \in 0 .. N : g[i] = IF i = 0 THEN <<>> ELSE Extend(g[i - 1], s[i])
    <3> SUFFICES ASSUME NEW i \in 0 .. N
                 PROVE  g[i] = IF i = 0 THEN base ELSE Extend(g[i - 1], s[i])
      BY DEF base
    <3>1. i # 0 => i \in 1 .. N
      BY <1>1
    <3> QED BY <2>3, <2>4, <3>1 DEF Loop
  <2>6. Eq(g)
    BY <2>3, <2>5
  <2> HIDE DEF Eq
  <2> QED BY <2>6
<1>3. MergeLoop(s) = merge[N]
  BY DEF MergeLoop
<1> HIDE DEF merge
<1>4. merge[0] = <<>> /\ \A i \in 1 .. N : merge[i] = Extend(merge[i - 1], s[i])
  BY <1>1, <1>2
<1> HIDE DEF Eq, step
<1> DEFINE Good(i) ==
              /\ merge[i] \in V /\ Apart(merge[i])
              /\ \A b \in Int : Holds(merge[i], b) <=>
                                   \E j \in 1 .. i : In(b, s[j])
              /\ i > 0 => \A k \in 1 .. Len(merge[i]) :
                              merge[i][k].from <= s[i].from
           T == {i \in 0 .. N : Good(i)}
<1>5. 0 \in T
  <2>1. Len(merge[0]) = 0 /\ merge[0] \in V
    BY <1>4
  <2>2. Good(0)
    BY <2>1 DEF Apart, Holds
  <2> QED BY <1>1, <2>2
<1>6. ASSUME NEW i \in 1 .. N, i - 1 \in T
      PROVE  i \in T
  <2> DEFINE m == merge[i - 1]
             q == merge[i]
             r == s[i]
  <2>1. Good(i - 1) /\ i - 1 \in Nat
    BY <1>1, <1>6
  <2>2. r \in ValidRange /\ q = Extend(m, r)
    BY <1>1, <1>4
  <2>3. \A k \in 1 .. Len(m) : m[k].from <= r.from
    <3>1. CASE i = 1
      BY <1>4, <3>1
    <3>2. CASE i # 1
      <4>1. i - 1 \in 1 .. N /\ i - 1 < i /\ s[i - 1].from <= r.from
        BY <1>1, <3>2
      <4>2. \A k \in 1 .. Len(m) : m[k] \in ValidRange /\ m[k].from <= s[i - 1].from
        BY <2>1, <4>1
      <4>3. s[i - 1] \in ValidRange
        BY <1>1, <4>1
      <4>4. /\ r.from \in Int /\ s[i - 1].from \in Int
            /\ \A k \in 1 .. Len(m) : m[k].from \in Int
        BY <2>2, <4>2, <4>3, ValidRangeType
      <4> HIDE DEF m, r
      <4> QED BY <4>1, <4>2, <4>4
    <3> QED BY <3>1, <3>2
  <2> HIDE DEF m, q, r
  <2>4. m \in V /\ Apart(m)
    BY <2>1 DEF m
  <2>5. /\ q \in V /\ Apart(q)
        /\ \A b \in Int : Holds(q, b) <=> Holds(m, b) \/ In(b, r)
        /\ \A k \in 1 .. Len(q) : q[k].from <= r.from
    BY <2>2, <2>3, <2>4, ExtendCorrect
  <2>6. \A b \in Int : Holds(m, b) <=> \E j \in 1 .. i - 1 : In(b, s[j])
    BY <2>1 DEF m
  <2>7. \A b \in Int : Holds(q, b) <=> \E j \in 1 .. i : In(b, s[j])
    <3>1. i \in 1 .. i /\ \A j \in 1 .. i : j \in 1 .. i - 1 \/ j = i
      BY <1>1
    <3>2. \A j \in 1 .. i - 1 : j \in 1 .. i
      BY <1>1
    <3> QED BY <2>5, <2>6, <3>1, <3>2 DEF r
  <2>8. Good(i)
    BY <2>5, <2>7 DEF q, r
  <2> QED BY <1>1, <2>8
<1>7. Good(N)
  <2> HIDE DEF Good
  <2>1. N \in T
    <3> HIDE DEF T, N
    <3>1. 0 .. N \subseteq T
      BY <1>1, <1>5, <1>6, UpTo
    <3> QED BY <1>1, <3>1
  <2> QED BY <2>1
<1> QED BY <1>3, <1>7 DEF Holds

\* Merged: the coverage, with touching and overlapping records joined.
LEMMA MergedCorrect ==
    ASSUME NEW covered, IsFiniteSet(covered), covered \subseteq ValidRange
    PROVE  /\ Merged(covered) \in Seq(ValidRange)
           /\ Apart(Merged(covered))
           /\ \A b \in Int : Holds(Merged(covered), b) <=>
                                \E r \in covered : In(b, r)
<1> DEFINE s == Sorted(covered)
<1>1. /\ s \in Seq(covered)
      /\ \A r \in covered : \E i \in 1 .. Len(s) : s[i] = r
      /\ \A i, j \in 1 .. Len(s) : i < j => Before(s[i], s[j])
  BY SortedInOrder DEF ValidRange
<1> HIDE DEF s
<1>2. s \in Seq(ValidRange)
  BY <1>1
<1>3. \A i, j \in 1 .. Len(s) : i < j => s[i].from <= s[j].from
  <2>1. ASSUME NEW r \in ValidRange, NEW u \in ValidRange, Before(r, u)
        PROVE  r.from <= u.from
    <3>1. r.from \in Int /\ u.from \in Int
      BY ValidRangeType
    <3> QED BY <2>1, <3>1 DEF Before
  <2> SUFFICES ASSUME NEW i \in 1 .. Len(s), NEW j \in 1 .. Len(s), i < j
               PROVE  s[i].from <= s[j].from
    OBVIOUS
  <2>2. s[i] \in ValidRange /\ s[j] \in ValidRange
    BY <1>2
  <2>3. Before(s[i], s[j])
    BY <1>1
  <2> QED BY <2>1, <2>2, <2>3
<1>4. ASSUME NEW b \in Int
      PROVE  Holds(s, b) <=> \E r \in covered : In(b, r)
  <2>1. \A i \in 1 .. Len(s) : s[i] \in covered
    BY <1>1
  <2>2. Holds(s, b) => \E r \in covered : In(b, r)
    BY <2>1 DEF Holds
  <2>3. \A r \in covered : In(b, r) => Holds(s, b)
    BY <1>1 DEF Holds
  <2> QED BY <2>2, <2>3
<1> QED BY <1>2, <1>3, <1>4, MergeLoopCorrect DEF Merged, s

-----------------------------------------------------------------------------
(* Gaps.                                                                   *)

ScanState == [gaps : Seq(ValidRange), pos : Int]

(***************************************************************************)
(* The gap loop on [f, n] after the first i of the ranges m: the gaps lie  *)
(* in [f, n], apart and before pos, and hold the blocks before pos that m  *)
(* does not; what was scanned ends before pos.                             *)
(***************************************************************************)
GapInv(st, m, i, f, n) ==
    /\ f <= st.pos
    /\ \A k \in 1 .. Len(st.gaps) :
          /\ f <= st.gaps[k].from /\ st.gaps[k].to <= n
          /\ st.gaps[k].to + 1 < st.pos
    /\ Apart(st.gaps)
    /\ \A b \in f .. n : b < st.pos => (Holds(st.gaps, b) <=> ~Holds(m, b))
    /\ st.pos <= n => \A j \in 1 .. i : m[j].to < st.pos

\* Appending a range behind all the others.
LEMMA AppendApart ==
    ASSUME NEW m \in Seq(ValidRange), Apart(m), NEW x \in ValidRange,
           \A i \in 1 .. Len(m) : m[i].to + 1 < x.from
    PROVE  /\ Apart(Append(m, x))
           /\ \A b \in Int : Holds(Append(m, x), b) <=> Holds(m, b) \/ In(b, x)
<1> DEFINE q == Append(m, x)
           k == Len(m)
<1>1. /\ q \in Seq(ValidRange) /\ Len(q) = k + 1
      /\ \A i \in 1 .. k : q[i] = m[i]
      /\ q[k + 1] = x
  BY AppendAt
<1>2. k \in Nat /\ \A i \in 1 .. k + 1 : i \in 1 .. k \/ i = k + 1
  OBVIOUS
<1>3. k + 1 \in 1 .. k + 1 /\ \A i \in 1 .. k : i \in 1 .. k + 1
  BY <1>2
<1> HIDE DEF q
<1>4. Apart(q)
  <2> SUFFICES ASSUME NEW i \in 1 .. k + 1, NEW j \in 1 .. k + 1, i < j
               PROVE  q[i].to + 1 < q[j].from
    BY <1>1 DEF Apart
  <2>1. i \in 1 .. k /\ q[i] = m[i]
    BY <1>1, <1>2
  <2>2. CASE j = k + 1
    BY <1>1, <2>1, <2>2
  <2>3. CASE j \in 1 .. k
    BY <1>1, <2>1, <2>3 DEF Apart
  <2> QED BY <1>2, <2>2, <2>3
<1>5. \A b \in Int : Holds(q, b) <=> Holds(m, b) \/ In(b, x)
  BY <1>1, <1>2, <1>3 DEF Holds
<1> QED BY <1>4, <1>5 DEF q

\* One step of the gap loop.
LEMMA NextGapCorrect ==
    ASSUME NEW f \in Int, NEW n \in Int, NEW m \in Seq(ValidRange),
           NEW i \in 1 .. Len(m), NEW st \in ScanState
    PROVE  /\ NextGap(st, m[i], n) \in ScanState
           /\ Apart(m) /\ GapInv(st, m, i - 1, f, n)
              => GapInv(NextGap(st, m[i], n), m, i, f, n)
<1> DEFINE r == m[i]
           u == NextGap(st, r, n)
           x == RangeOf(st.pos, Min({r.from - 1, n}))
<1>1. /\ st.gaps \in Seq(ValidRange) /\ st.pos \in Int
      /\ i \in Nat /\ Len(m) \in Nat
      /\ r \in ValidRange /\ r.from \in Int /\ r.to \in Int /\ r.from <= r.to
  BY ValidRangeType DEF ScanState
<1>2. CASE st.pos > n
  <2>1. u = st
    BY <1>2 DEF NextGap
  <2>2. st.pos <= n => FALSE
    BY <1>1, <1>2
  <2> QED BY <2>1, <2>2 DEF GapInv
<1>3. CASE ~(st.pos > n)
  <2>1. st.pos <= n
    BY <1>1, <1>3
  <2>2. u = [gaps |-> IF r.from > st.pos THEN Append(st.gaps, x) ELSE st.gaps,
             pos  |-> Max({st.pos, r.to + 1})]
    BY <1>3 DEF NextGap
  <2>3. r.from > st.pos =>
           /\ x \in ValidRange /\ x.from = st.pos
           /\ x.to = IF r.from - 1 <= n THEN r.from - 1 ELSE n
    <3> SUFFICES ASSUME r.from > st.pos
                 PROVE  /\ x \in ValidRange /\ x.from = st.pos
                        /\ x.to = IF r.from - 1 <= n THEN r.from - 1 ELSE n
      OBVIOUS
    <3>1. Min({r.from - 1, n}) = IF r.from - 1 <= n THEN r.from - 1 ELSE n
      BY <1>1, MinOfTwo
    <3>2. st.pos <= r.from - 1
      BY <1>1
    <3> QED BY <1>1, <2>1, <3>1, <3>2, ValidRangeType
  <2>4. u.pos = IF st.pos >= r.to + 1 THEN st.pos ELSE r.to + 1
    <3>1. Max({st.pos, r.to + 1}) = IF st.pos >= r.to + 1 THEN st.pos ELSE r.to + 1
      BY <1>1, MaxOfTwo
    <3> QED BY <2>2, <3>1
  <2>5. u.gaps = IF r.from > st.pos THEN Append(st.gaps, x) ELSE st.gaps
    BY <2>2
  <2> HIDE DEF x
  <2>6. u.gaps \in Seq(ValidRange) /\ u.pos \in Int
    BY <1>1, <2>3, <2>4, <2>5, AppendAt
  <2>7. u \in ScanState
    BY <2>2, <2>6 DEF ScanState
  <2> HIDE DEF u, r
  <2>8. ASSUME Apart(m), GapInv(st, m, i - 1, f, n)
        PROVE  GapInv(u, m, i, f, n)
    <3>1. /\ f <= st.pos
          /\ \A k \in 1 .. Len(st.gaps) :
                /\ f <= st.gaps[k].from /\ st.gaps[k].to <= n
                /\ st.gaps[k].to + 1 < st.pos
          /\ Apart(st.gaps)
          /\ \A b \in f .. n : b < st.pos =>
                                 (Holds(st.gaps, b) <=> ~Holds(m, b))
          /\ \A j \in 1 .. i - 1 : m[j].to < st.pos
      BY <2>1, <2>8 DEF GapInv
    <3>2. \A k \in 1 .. Len(st.gaps) : /\ st.gaps[k].from \in Int
                                       /\ st.gaps[k].to \in Int
      BY <1>1, ValidRangeType
    <3>3. \A j \in 1 .. Len(m) : m[j].from \in Int /\ m[j].to \in Int
      BY ValidRangeType
    <3>4. \A b \in Int : In(b, r) => Holds(m, b)
      BY DEF r, Holds
    <3>5. \A b \in Int : st.pos <= b /\ b < r.from => ~Holds(m, b)
      <4> SUFFICES ASSUME NEW b \in Int, st.pos <= b, b < r.from,
                          NEW j \in 1 .. Len(m), In(b, m[j])
                   PROVE  FALSE
        BY DEF Holds
      <4>1. CASE j < i
        <5>1. j \in 1 .. i - 1
          BY <1>1, <4>1
        <5> QED BY <1>1, <3>1, <3>3, <5>1 DEF In
      <4>2. CASE j = i
        BY <1>1, <4>2 DEF In, r
      <4>3. CASE j > i
        <5>1. m[i].to + 1 < m[j].from
          BY <2>8, <4>3 DEF Apart
        <5> QED BY <1>1, <3>3, <5>1 DEF In, r
      <4> QED BY <1>1, <4>1, <4>2, <4>3
    <3>6. \A b \in Int : st.pos <= b => ~Holds(st.gaps, b)
      <4> SUFFICES ASSUME NEW b \in Int, st.pos <= b,
                          NEW k \in 1 .. Len(st.gaps), In(b, st.gaps[k])
                   PROVE  FALSE
        BY DEF Holds
      <4>1. st.gaps[k].to + 1 < st.pos /\ st.gaps[k].to \in Int
        BY <3>1, <3>2
      <4> QED BY <1>1, <4>1 DEF In
    <3>7. u.pos <= n => \A j \in 1 .. i : m[j].to < u.pos
      <4> SUFFICES ASSUME NEW j \in 1 .. i PROVE m[j].to < u.pos
        OBVIOUS
      <4>1. CASE j = i
        BY <1>1, <2>4, <4>1 DEF r
      <4>2. CASE j # i
        <5>1. j \in 1 .. i - 1 /\ j \in 1 .. Len(m)
          BY <1>1, <4>2
        <5> QED BY <1>1, <2>4, <3>1, <3>3, <5>1
      <4> QED BY <4>1, <4>2
    <3>8. CASE r.from > st.pos
      <4>1. u.gaps = Append(st.gaps, x) /\ u.pos = r.to + 1 /\ x \in ValidRange
        BY <1>1, <2>3, <2>4, <2>5, <3>8
      <4>2. /\ x.from = st.pos
            /\ x.to = IF r.from - 1 <= n THEN r.from - 1 ELSE n
        BY <2>3, <3>8
      <4>3. \A k \in 1 .. Len(st.gaps) : st.gaps[k].to + 1 < x.from
        BY <3>1, <4>2
      <4>4. /\ Apart(u.gaps)
            /\ \A b \in Int : Holds(u.gaps, b) <=> Holds(st.gaps, b) \/ In(b, x)
        <5> DEFINE g == st.gaps
        <5>1. /\ g \in Seq(ValidRange) /\ Apart(g)
              /\ \A k \in 1 .. Len(g) : g[k].to + 1 < x.from
          BY <1>1, <3>1, <4>3
        <5> HIDE DEF g
        <5>2. /\ Apart(Append(g, x))
              /\ \A b \in Int : Holds(Append(g, x), b) <=> Holds(g, b) \/ In(b, x)
          BY <4>1, <5>1, AppendApart
        <5> QED BY <4>1, <5>2 DEF g
      <4>5. \A b \in f .. n : b < u.pos => (Holds(u.gaps, b) <=> ~Holds(m, b))
        <5> SUFFICES ASSUME NEW b \in f .. n, b < u.pos
                     PROVE  Holds(u.gaps, b) <=> ~Holds(m, b)
          OBVIOUS
        <5>1. CASE b < st.pos
          <6>1. ~In(b, x)
            BY <1>1, <4>2, <5>1 DEF In
          <6> QED BY <3>1, <4>4, <5>1, <6>1
        <5>2. CASE st.pos <= b /\ b < r.from
          <6>1. In(b, x)
            BY <1>1, <4>2, <5>2 DEF In
          <6> QED BY <3>5, <4>4, <5>2, <6>1
        <5>3. CASE r.from <= b
          <6>1. ~In(b, x) /\ In(b, r)
            BY <1>1, <4>1, <4>2, <5>3 DEF In
          <6> QED BY <1>1, <3>4, <3>6, <3>8, <4>4, <5>3, <6>1
        <5> QED BY <1>1, <5>1, <5>2, <5>3
      <4>6. \A k \in 1 .. Len(u.gaps) : /\ f <= u.gaps[k].from /\ u.gaps[k].to <= n
                                        /\ u.gaps[k].to + 1 < u.pos
        <5>1. /\ Len(u.gaps) = Len(st.gaps) + 1
              /\ \A k \in 1 .. Len(st.gaps) : u.gaps[k] = st.gaps[k]
              /\ u.gaps[Len(st.gaps) + 1] = x
          BY <1>1, <4>1, AppendAt
        <5>2. f <= x.from /\ x.to <= n /\ x.to + 1 < u.pos
          BY <1>1, <2>1, <3>1, <4>1, <4>2
        <5>3. \A k \in 1 .. Len(st.gaps) : st.gaps[k].to + 1 < u.pos
          <6> SUFFICES ASSUME NEW k \in 1 .. Len(st.gaps)
                       PROVE  st.gaps[k].to + 1 < u.pos
            OBVIOUS
          <6>1. st.pos < u.pos
            BY <1>1, <3>8, <4>1
          <6>2. st.gaps[k].to + 1 < st.pos /\ st.gaps[k].to \in Int
            BY <3>1, <3>2
          <6> QED BY <1>1, <2>6, <6>1, <6>2
        <5>4. \A k \in 1 .. Len(u.gaps) :
                 k \in 1 .. Len(st.gaps) \/ k = Len(st.gaps) + 1
          BY <1>1, <5>1
        <5> QED BY <3>1, <5>1, <5>2, <5>3, <5>4
      <4>7. f <= u.pos
        BY <1>1, <3>1, <3>8, <4>1
      <4> QED BY <3>7, <4>4, <4>5, <4>6, <4>7 DEF GapInv
    <3>9. CASE ~(r.from > st.pos)
      <4>1. u.gaps = st.gaps /\ st.pos <= u.pos
        BY <1>1, <2>4, <2>5, <3>9
      <4>2. \A b \in f .. n : b < u.pos => (Holds(u.gaps, b) <=> ~Holds(m, b))
        <5> SUFFICES ASSUME NEW b \in f .. n, b < u.pos
                     PROVE  Holds(u.gaps, b) <=> ~Holds(m, b)
          OBVIOUS
        <5>1. CASE b < st.pos
          BY <3>1, <4>1, <5>1
        <5>2. CASE st.pos <= b
          <6>1. In(b, r)
            BY <1>1, <2>4, <3>9, <5>2 DEF In
          <6> QED BY <3>4, <3>6, <4>1, <5>2, <6>1
        <5> QED BY <1>1, <5>1, <5>2
      <4>3. \A k \in 1 .. Len(st.gaps) : st.gaps[k].to + 1 < u.pos
        <5> SUFFICES ASSUME NEW k \in 1 .. Len(st.gaps)
                     PROVE  st.gaps[k].to + 1 < u.pos
          OBVIOUS
        <5>1. st.gaps[k].to + 1 < st.pos /\ st.gaps[k].to \in Int
          BY <3>1, <3>2
        <5> QED BY <1>1, <2>6, <4>1, <5>1
      <4>4. f <= u.pos
        BY <1>1, <2>6, <3>1, <4>1
      <4> QED BY <3>1, <3>7, <4>1, <4>2, <4>3, <4>4 DEF GapInv
    <3> QED BY <3>8, <3>9
  <2> QED BY <2>7, <2>8 DEF u, r
<1> QED BY <1>2, <1>3

\* The gap loop on a whole sequence of ranges.
LEMMA GapLoopCorrect ==
    ASSUME NEW f \in Int, NEW n \in Int, NEW m \in Seq(ValidRange), Apart(m)
    PROVE  /\ GapLoop(m, f, n) \in ScanState
           /\ GapInv(GapLoop(m, f, n), m, Len(m), f, n)
<1> DEFINE N == Len(m)
           V == ScanState
           base == [gaps |-> <<>>, pos |-> f]
           Eq(g) == g = [i \in 0 .. N |->
                           IF i = 0 THEN [gaps |-> <<>>, pos |-> f]
                           ELSE NextGap(g[i - 1], m[i], n)]
           scan == CHOOSE g : Eq(g)
           step == [x \in V \X (1 .. N) |-> NextGap(x[1], m[x[2]], n)]
<1>1. N \in Nat
  OBVIOUS
<1>2. base \in V /\ base.gaps = <<>> /\ base.pos = f
  BY DEF ScanState
<1>3. Eq(scan)
  <2>1. step \in [V \X (1 .. N) -> V]
    <3>1. \A x \in V \X (1 .. N) : NextGap(x[1], m[x[2]], n) \in V
      BY NextGapCorrect
    <3> QED BY <3>1
  <2> HIDE DEF step, V, N, base
  <2>2. PICK g \in [0 .. N -> V] : Loop(g, N, base, step)
    BY <1>1, <1>2, <2>1, LoopExists
  <2>3. \A i \in 1 .. N : step[<<g[i - 1], i>>] = NextGap(g[i - 1], m[i], n)
    <3> SUFFICES ASSUME NEW i \in 1 .. N
                 PROVE  step[<<g[i - 1], i>>] = NextGap(g[i - 1], m[i], n)
      OBVIOUS
    <3>1. i - 1 \in 0 .. N
      BY <1>1
    <3>2. <<g[i - 1], i>> \in V \X (1 .. N)
      BY <3>1
    <3> QED BY <3>2 DEF step
  <2>4. \A i \in 0 .. N : g[i] = IF i = 0 THEN [gaps |-> <<>>, pos |-> f]
                                 ELSE NextGap(g[i - 1], m[i], n)
    <3> SUFFICES ASSUME NEW i \in 0 .. N
                 PROVE  g[i] = IF i = 0 THEN base ELSE NextGap(g[i - 1], m[i], n)
      BY DEF base
    <3>1. i # 0 => i \in 1 .. N
      BY <1>1
    <3> QED BY <2>2, <2>3, <3>1 DEF Loop
  <2>5. Eq(g)
    BY <2>4
  <2> HIDE DEF Eq
  <2> QED BY <2>5
<1>4. GapLoop(m, f, n) = scan[N]
  BY DEF GapLoop
<1> HIDE DEF scan
<1>5. /\ scan[0] = base
      /\ \A i \in 1 .. N : scan[i] = NextGap(scan[i - 1], m[i], n)
  BY <1>1, <1>3
<1> HIDE DEF Eq, step, base, V
<1> DEFINE T == {i \in 0 .. N : scan[i] \in V /\ GapInv(scan[i], m, i, f, n)}
<1>6. 0 \in T
  <2>1. GapInv(base, m, 0, f, n)
    BY <1>2, <1>1 DEF GapInv, Apart, Holds
  <2> QED BY <1>1, <1>2, <1>5, <2>1
<1>7. ASSUME NEW i \in 1 .. N, i - 1 \in T
      PROVE  i \in T
  <2>1. scan[i - 1] \in V /\ GapInv(scan[i - 1], m, i - 1, f, n)
    BY <1>7
  <2>2. scan[i] = NextGap(scan[i - 1], m[i], n)
    BY <1>5
  <2> DEFINE st == scan[i - 1]
  <2>3. st \in ScanState /\ GapInv(st, m, i - 1, f, n)
    BY <2>1 DEF V
  <2>4. scan[i] = NextGap(st, m[i], n)
    BY <2>2
  <2> HIDE DEF st
  <2>5. scan[i] \in V /\ GapInv(scan[i], m, i, f, n)
    BY <2>3, <2>4, NextGapCorrect DEF V
  <2> QED BY <1>1, <2>5
<1>8. N \in T
  <2> HIDE DEF T, N
  <2>1. 0 .. N \subseteq T
    BY <1>1, <1>6, <1>7, UpTo
  <2> QED BY <1>1, <2>1
<1> QED BY <1>4, <1>8 DEF V

(***************************************************************************)
(* compute_gaps: the gaps lie in [f, n], hold exactly its blocks that no   *)
(* record covers, and are as few and as large as can be: two neighbours    *)
(* are kept apart by a covered block (backfill/core.py, compute_gaps).     *)
(***************************************************************************)
THEOREM GapsCorrect ==
    ASSUME NEW f \in Int, NEW n \in Int,
           NEW covered, IsFiniteSet(covered), covered \subseteq ValidRange
    PROVE  LET g == ComputeGaps(f, n, covered)
           IN /\ g \in Seq(ValidRange)
              /\ \A k \in 1 .. Len(g) : f <= g[k].from /\ g[k].to <= n
              /\ Apart(g)
              /\ \A b \in f .. n :
                    Holds(g, b) <=> \A r \in covered : ~In(b, r)
<1> DEFINE g == ComputeGaps(f, n, covered)
           m == Merged(covered)
           end == GapLoop(m, f, n)
           x == RangeOf(end.pos, n)
<1>1. /\ m \in Seq(ValidRange) /\ Apart(m)
      /\ \A b \in Int : Holds(m, b) <=> \E r \in covered : In(b, r)
  BY MergedCorrect
<1>2. CASE n < f
  <2>1. g = <<>>
    BY <1>2 DEF ComputeGaps
  <2> QED BY <1>2, <2>1 DEF Apart
<1>3. CASE ~(n < f)
  <2>1. g = IF end.pos <= n THEN Append(end.gaps, x) ELSE end.gaps
    BY <1>3 DEF ComputeGaps
  <2> HIDE DEF m, g
  <2>2. end \in ScanState /\ GapInv(end, m, Len(m), f, n)
    BY <1>1, GapLoopCorrect
  <2> DEFINE h == end.gaps
             p == end.pos
  <2>3. h \in Seq(ValidRange) /\ p \in Int /\ f <= p
    BY <2>2 DEF ScanState, GapInv
  <2>4. /\ \A k \in 1 .. Len(h) : f <= h[k].from /\ h[k].to <= n /\ h[k].to + 1 < p
        /\ Apart(h)
        /\ \A b \in f .. n : b < p => (Holds(h, b) <=> ~Holds(m, b))
        /\ p <= n => \A j \in 1 .. Len(m) : m[j].to < p
    BY <2>2 DEF GapInv
  <2>5. g = IF p <= n THEN Append(h, RangeOf(p, n)) ELSE h
    BY <2>1
  <2> HIDE DEF h, p
  <2>6. CASE p <= n
    <3> DEFINE y == RangeOf(p, n)
    <3>1. y \in ValidRange /\ y.from = p /\ y.to = n
      BY <2>3, <2>6, ValidRangeType
    <3>2. g = Append(h, y)
      BY <2>5, <2>6
    <3> HIDE DEF y
    <3>3. /\ g \in Seq(ValidRange) /\ Len(g) = Len(h) + 1
          /\ \A k \in 1 .. Len(h) : g[k] = h[k]
          /\ g[Len(h) + 1] = y
      BY <2>3, <3>1, <3>2, AppendAt
    <3>4. \A k \in 1 .. Len(g) : k \in 1 .. Len(h) \/ k = Len(h) + 1
      BY <2>3, <3>3
    <3>5. \A k \in 1 .. Len(g) : f <= g[k].from /\ g[k].to <= n
      BY <2>3, <2>4, <3>1, <3>3, <3>4
    <3>6. /\ Apart(g)
          /\ \A b \in Int : Holds(g, b) <=> Holds(h, b) \/ In(b, y)
      BY <2>3, <2>4, <3>1, <3>2, AppendApart
    <3>7. \A b \in f .. n : Holds(g, b) <=> ~Holds(m, b)
      <4> SUFFICES ASSUME NEW b \in f .. n PROVE Holds(g, b) <=> ~Holds(m, b)
        OBVIOUS
      <4>1. CASE b < p
        <5>1. ~In(b, y)
          BY <2>3, <3>1, <4>1 DEF In
        <5> QED BY <2>4, <3>6, <4>1, <5>1
      <4>2. CASE ~(b < p)
        <5>1. In(b, y)
          BY <2>3, <3>1, <4>2 DEF In
        <5>2. ~Holds(m, b)
          <6>1. \A j \in 1 .. Len(m) : m[j].to < p /\ m[j].to \in Int
            BY <1>1, <2>4, <2>6, ValidRangeType
          <6> QED BY <2>3, <4>2, <6>1 DEF Holds, In
        <5> QED BY <3>6, <5>1, <5>2
      <4> QED BY <4>1, <4>2
    <3> QED BY <1>1, <3>3, <3>5, <3>6, <3>7 DEF g
  <2>7. CASE ~(p <= n)
    <3>1. g = h
      BY <2>5, <2>7
    <3>2. \A b \in f .. n : Holds(g, b) <=> ~Holds(m, b)
      BY <2>3, <2>4, <2>7, <3>1
    <3> QED BY <1>1, <2>3, <2>4, <3>1, <3>2 DEF g
  <2> QED BY <2>6, <2>7
<1> QED BY <1>2, <1>3

\* range_fully_covered: no gap means that every block has a record.
LEMMA NoGapMeansCovered ==
    ASSUME NEW f \in Int, NEW n \in Int,
           NEW covered, IsFiniteSet(covered), covered \subseteq ValidRange
    PROVE  ComputeGaps(f, n, covered) = <<>> <=>
              \A b \in f .. n : \E r \in covered : In(b, r)
<1> DEFINE g == ComputeGaps(f, n, covered)
<1>1. /\ g \in Seq(ValidRange)
      /\ \A k \in 1 .. Len(g) : f <= g[k].from /\ g[k].to <= n
      /\ \A b \in f .. n : Holds(g, b) <=> \A r \in covered : ~In(b, r)
  BY GapsCorrect
<1> HIDE DEF g
<1>2. ASSUME g = <<>>, NEW b \in f .. n
      PROVE  \E r \in covered : In(b, r)
  <2>1. Len(g) = 0
    BY <1>2
  <2>2. ~Holds(g, b)
    BY <2>1 DEF Holds
  <2> QED BY <1>1, <2>2
<1>3. ASSUME \A b \in f .. n : \E r \in covered : In(b, r), g # <<>>
      PROVE  FALSE
  <2>1. 1 \in 1 .. Len(g) /\ g[1] \in ValidRange
    BY <1>1, <1>3
  <2>2. /\ g[1].from \in Int /\ g[1].to \in Int /\ g[1].from <= g[1].to
        /\ f <= g[1].from /\ g[1].to <= n
    BY <1>1, <2>1, ValidRangeType
  <2>3. g[1].from \in f .. n /\ In(g[1].from, g[1])
    BY <2>2 DEF In
  <2>4. Holds(g, g[1].from)
    BY <2>1, <2>3 DEF Holds
  <2> QED BY <1>1, <1>3, <2>3, <2>4
<1> QED BY <1>2, <1>3 DEF g

-----------------------------------------------------------------------------
(* Chunks.                                                                 *)

\* What integer division computes.
LEMMA DivBounds ==
    ASSUME NEW a \in Int, NEW b \in Nat \ {0}
    PROVE  /\ a \div b \in Int
           /\ (a \div b) * b <= a /\ a < (a \div b) * b + b
  OBVIOUS

\* Multiples of a positive number keep the order.
LEMMA TimesMonotone ==
    ASSUME NEW x \in Int, NEW y \in Int, NEW s \in Nat \ {0}
    PROVE  /\ x * s \in Int
           /\ x * s < y * s => x < y
           /\ x <= y => x * s <= y * s
           /\ (x - 1) * s = x * s - s
           /\ (x + 1) * s = x * s + s
  OBVIOUS

\* math.ceil of a quotient.
LEMMA CeilDivBounds ==
    ASSUME NEW a \in Nat \ {0}, NEW b \in Nat \ {0}
    PROVE  /\ CeilDiv(a, b) \in Nat \ {0}
           /\ (CeilDiv(a, b) - 1) * b < a
           /\ a <= CeilDiv(a, b) * b
<1> DEFINE q == (a + b - 1) \div b
<1>1. q \in Int /\ q * b <= a + b - 1 /\ a + b - 1 < q * b + b
  BY DivBounds
<1>2. q = CeilDiv(a, b)
  BY DEF CeilDiv
<1> HIDE DEF q
<1>3. (q - 1) * b = q * b - b /\ q * b \in Int
  BY <1>1, TimesMonotone
<1>4. (q - 1) * b < a /\ a <= q * b
  BY <1>1, <1>3
<1>5. 0 * b < q * b
  BY <1>3, <1>4
<1>6. 0 < q
  BY <1>1, <1>5, TimesMonotone
<1> QED BY <1>1, <1>2, <1>4, <1>6

\* A chunk has at least one block, and a pool's is not too small.
LEMMA ChunkSizeBounds ==
    ASSUME NEW total \in Nat \ {0}, NEW workers \in Nat \ {0},
           NEW batch \in Nat \ {0}
    PROVE  /\ ChunkSize(total, workers, batch) \in Nat \ {0}
           /\ workers # 1 => CeilDiv(total, workers * 8)
                                <= ChunkSize(total, workers, batch)
<1>1. workers * 8 \in Nat \ {0}
  OBVIOUS
<1>2. CeilDiv(total, workers * 8) \in Nat \ {0}
  BY <1>1, CeilDivBounds
<1>3. Max({batch, CeilDiv(total, workers * 8)}) =
         IF batch >= CeilDiv(total, workers * 8)
         THEN batch ELSE CeilDiv(total, workers * 8)
  BY <1>2, MaxOfTwo
<1> QED BY <1>2, <1>3 DEF ChunkSize

\* c splits [f, n] in order, into at most eight parts for each of several
\* workers.
IsSplit(c, f, n, workers) ==
    /\ c \in Seq(ValidRange) /\ c # <<>>
    /\ c[1].from = f /\ c[Len(c)].to = n
    /\ \A i \in 1 .. Len(c) - 1 : c[i + 1].from = c[i].to + 1
    /\ \A i \in 1 .. Len(c) : f <= c[i].from /\ c[i].to <= n
    /\ \A b \in f .. n : Holds(c, b)
    /\ workers > 1 => Len(c) <= workers * 8

(***************************************************************************)
(* _chunks: the chunks partition [f, n] in order, and a pool gets at most  *)
(* eight of them per worker, however long the range (backfill/core.py).    *)
(***************************************************************************)
THEOREM ChunksCorrect ==
    ASSUME NEW f \in Int, NEW n \in Int, f <= n,
           NEW workers \in Nat \ {0}, NEW batch \in Nat \ {0}
    PROVE  IsSplit(Chunks(f, n, workers, batch), f, n, workers)
<1> DEFINE total == n - f + 1
           size == ChunkSize(total, workers, batch)
           k == CeilDiv(total, size)
           At(i) == RangeOf(f + (i - 1) * size, Min({f + i * size - 1, n}))
           c == Chunks(f, n, workers, batch)
<1>1. total \in Nat \ {0}
  OBVIOUS
<1>2. /\ size \in Nat \ {0}
      /\ workers # 1 => CeilDiv(total, workers * 8) <= size
  BY <1>1, ChunkSizeBounds
<1>3. c = [i \in 1 .. k |-> At(i)]
  BY DEF Chunks
<1> HIDE DEF size, c
<1>4. k \in Nat \ {0} /\ (k - 1) * size < total /\ total <= k * size
  BY <1>1, <1>2, CeilDivBounds
<1> HIDE DEF k
<1>5. ASSUME NEW i \in 1 .. k
      PROVE  /\ At(i) \in ValidRange
             /\ At(i).from = f + (i - 1) * size
             /\ At(i).to = IF i = k THEN n ELSE f + i * size - 1
             /\ f <= At(i).from /\ At(i).to <= n
  <2>1. /\ i * size \in Int /\ (i - 1) * size = i * size - size
        /\ (i - 1) * size \in Int
    BY <1>2, TimesMonotone
  <2>2. 0 <= (i - 1) * size /\ (i - 1) * size <= (k - 1) * size
    <3>1. 0 * size <= (i - 1) * size
      BY <1>2, TimesMonotone
    <3>2. i - 1 <= k - 1 /\ i - 1 \in Int /\ k - 1 \in Int
      BY <1>4
    <3> QED BY <1>2, <3>1, <3>2, TimesMonotone
  <2>3. (k - 1) * size \in Int /\ k * size \in Int
    BY <1>2, <1>4, TimesMonotone
  <2>4. i # k => i * size <= (k - 1) * size
    <3>1. i # k => i <= k - 1 /\ k - 1 \in Int
      BY <1>4
    <3> QED BY <1>2, <3>1, TimesMonotone
  <2>5. Min({f + i * size - 1, n}) = IF i = k THEN n ELSE f + i * size - 1
    <3>1. Min({f + i * size - 1, n}) =
             IF f + i * size - 1 <= n THEN f + i * size - 1 ELSE n
      BY <2>1, MinOfTwo
    <3>2. CASE i = k
      BY <1>4, <2>1, <3>1, <3>2
    <3>3. CASE i # k
      BY <1>4, <2>1, <2>3, <2>4, <3>1, <3>3
    <3> QED BY <3>2, <3>3
  <2> DEFINE lo == f + (i - 1) * size
             hi == IF i = k THEN n ELSE f + i * size - 1
  <2>6. lo \in Int /\ hi \in Int /\ f <= lo /\ lo <= hi /\ hi <= n
    BY <1>2, <1>4, <2>1, <2>2, <2>3, <2>4
  <2>7. At(i) = RangeOf(lo, hi)
    BY <2>5
  <2> HIDE DEF lo, hi, At
  <2>8. At(i) \in ValidRange /\ At(i).from = lo /\ At(i).to = hi
    BY <2>6, <2>7, ValidRangeType
  <2> QED BY <2>6, <2>8 DEF lo, hi
<1> HIDE DEF At
<1>6. /\ c \in Seq(ValidRange) /\ Len(c) = k
      /\ \A i \in 1 .. k : c[i] = At(i)
  BY <1>3, <1>4, <1>5
<1>7. c # <<>> /\ 1 \in 1 .. k /\ k \in 1 .. k
  BY <1>4, <1>6
<1>8. c[1].from = f
  <2>1. At(1).from = f + (1 - 1) * size
    BY <1>5, <1>7
  <2>2. (1 - 1) * size = 0
    BY <1>2
  <2> QED BY <1>6, <1>7, <2>1, <2>2
<1>9. c[k].to = n
  BY <1>5, <1>6, <1>7
<1>10. \A i \in 1 .. k - 1 : c[i + 1].from = c[i].to + 1
  <2> SUFFICES ASSUME NEW i \in 1 .. k - 1 PROVE c[i + 1].from = c[i].to + 1
    OBVIOUS
  <2>1. i \in 1 .. k /\ i + 1 \in 1 .. k /\ i # k /\ (i + 1) - 1 = i
    BY <1>4
  <2>2. At(i + 1).from = f + i * size /\ At(i).to = f + i * size - 1
    BY <1>5, <2>1
  <2>3. i * size \in Int
    BY <1>2, TimesMonotone
  <2> QED BY <1>6, <2>1, <2>2, <2>3
<1>11. \A b \in f .. n : Holds(c, b)
  <2> SUFFICES ASSUME NEW b \in f .. n PROVE Holds(c, b)
    OBVIOUS
  <2> DEFINE d == b - f
             j == d \div size
  <2>1. d \in Nat /\ d < total
    OBVIOUS
  <2>2. j \in Int /\ j * size <= d /\ d < j * size + size
    BY <1>2, <2>1, DivBounds
  <2> HIDE DEF j, d
  <2>3. j * size \in Int /\ (j + 1) * size = j * size + size
        /\ (j + 1) * size \in Int
    BY <1>2, <2>2, TimesMonotone
  <2>4. -1 < j
    <3>1. 0 * size < (j + 1) * size
      BY <1>2, <2>1, <2>2, <2>3
    <3>2. 0 < j + 1
      BY <1>2, <2>2, <3>1, TimesMonotone
    <3> QED BY <2>2, <3>2
  <2>5. j < k
    <3>1. j * size < k * size
      BY <1>1, <1>2, <1>4, <2>1, <2>2, <2>3, TimesMonotone
    <3> QED BY <1>2, <1>4, <2>2, <3>1, TimesMonotone
  <2>6. j + 1 \in 1 .. k /\ (j + 1) - 1 = j
    BY <1>4, <2>2, <2>4, <2>5
  <2>7. /\ At(j + 1).from = f + j * size
        /\ At(j + 1).to = IF j + 1 = k THEN n ELSE f + (j + 1) * size - 1
    BY <1>5, <2>6
  <2>8. In(b, c[j + 1])
    BY <1>6, <2>2, <2>3, <2>6, <2>7 DEF In, d
  <2> QED BY <1>6, <2>6, <2>8 DEF Holds
<1>12. workers > 1 => k <= workers * 8
  <2> SUFFICES ASSUME workers > 1 PROVE k <= workers * 8
    OBVIOUS
  <2> DEFINE w == workers * 8
             s == CeilDiv(total, w)
  <2>1. w \in Nat \ {0}
    OBVIOUS
  <2>2. s <= size
    BY <1>2
  <2> HIDE DEF w
  <2>3. s \in Nat \ {0} /\ total <= s * w
    BY <1>1, <2>1, CeilDivBounds
  <2> HIDE DEF s
  <2>4. s * w <= size * w /\ size * w = w * size /\ s * w \in Int /\ w * size \in Int
    BY <1>2, <2>1, <2>2, <2>3, TimesMonotone
  <2>5. (k - 1) * size < w * size
    <3>1. (k - 1) * size \in Int
      BY <1>2, <1>4, TimesMonotone
    <3> QED BY <1>1, <1>4, <2>3, <2>4, <3>1
  <2>6. k - 1 < w
    BY <1>2, <1>4, <2>1, <2>5, TimesMonotone
  <2> QED BY <1>4, <2>1, <2>6 DEF w
<1>13. \A i \in 1 .. k : f <= c[i].from /\ c[i].to <= n
  BY <1>5, <1>6
<1>14. IsSplit(c, f, n, workers)
  BY <1>6, <1>7, <1>8, <1>9, <1>10, <1>11, <1>12, <1>13 DEF IsSplit
<1> QED BY <1>14 DEF c

-----------------------------------------------------------------------------
(* Concatenation.                                                          *)

\* The elements of a concatenation, by their index.
LEMMA ConcatAt ==
    ASSUME NEW S, NEW a \in Seq(S), NEW b \in Seq(S)
    PROVE  /\ a \o b \in Seq(S) /\ Len(a \o b) = Len(a) + Len(b)
           /\ \A i \in 1 .. Len(a) : (a \o b)[i] = a[i]
           /\ \A i \in 1 .. Len(b) : (a \o b)[Len(a) + i] = b[i]
  OBVIOUS

\* The elements of a concatenation.
LEMMA ConcatElements ==
    ASSUME NEW S, NEW a \in Seq(S), NEW b \in Seq(S), NEW x
    PROVE  Contains(a \o b, x) <=> Contains(a, x) \/ Contains(b, x)
<1> DEFINE c == a \o b
<1>1. /\ Len(c) = Len(a) + Len(b) /\ Len(a) \in Nat /\ Len(b) \in Nat
      /\ \A i \in 1 .. Len(a) : c[i] = a[i]
      /\ \A i \in 1 .. Len(b) : c[Len(a) + i] = b[i]
  BY ConcatAt
<1> HIDE DEF c
<1>2. \A i \in 1 .. Len(a) : i \in 1 .. Len(c)
  BY <1>1
<1>3. \A i \in 1 .. Len(b) : Len(a) + i \in 1 .. Len(c)
  BY <1>1
<1>4. ASSUME NEW i \in 1 .. Len(c), c[i] = x
      PROVE  \/ \E j \in 1 .. Len(a) : a[j] = x
             \/ \E j \in 1 .. Len(b) : b[j] = x
  <2>1. CASE i <= Len(a)
    <3>1. i \in 1 .. Len(a)
      BY <1>1, <2>1
    <3> QED BY <1>1, <1>4, <3>1
  <2>2. CASE ~(i <= Len(a))
    <3>1. i - Len(a) \in 1 .. Len(b) /\ Len(a) + (i - Len(a)) = i
      BY <1>1, <2>2
    <3> QED BY <1>1, <1>4, <3>1
  <2> QED BY <2>1, <2>2
<1> QED BY <1>1, <1>2, <1>3, <1>4 DEF c, Contains

\* Flattening keeps every element of every sequence, and adds none.
LEMMA FlattenCorrect ==
    ASSUME NEW S, NEW q \in Seq(Seq(S))
    PROVE  /\ FlattenSeq(q) \in Seq(S)
           /\ \A x : Contains(FlattenSeq(q), x) <=>
                        \E k \in 1 .. Len(q) : Contains(q[k], x)
<1> DEFINE N == Len(q)
           V == Seq(S)
           Eq(g) == g = [i \in 1 .. N |->
                           IF i = 1 THEN q[i] ELSE g[i - 1] \o q[i]]
           flatten == CHOOSE g : Eq(g)
           step == [x \in V \X (1 .. N) |-> x[1] \o q[x[2]]]
<1>1. N \in Nat /\ \A i \in 1 .. N : q[i] \in V
  OBVIOUS
<1>2. CASE N = 0
  <2>1. FlattenSeq(q) = q /\ Len(q) = 0
    BY <1>2 DEF FlattenSeq
  <2>2. q \in V
    <3>1. q = <<>>
      BY <1>2
    <3>2. <<>> \in V
      OBVIOUS
    <3> HIDE DEF V
    <3> QED BY <3>1, <3>2
  <2> QED BY <2>1, <2>2 DEF Contains
<1>3. CASE N # 0
  <2>1. FlattenSeq(q) = flatten[N]
    BY <1>3 DEF FlattenSeq
  <2>2. Eq(flatten)
    <3>1. step \in [V \X (1 .. N) -> V]
      <4>1. \A x \in V \X (1 .. N) : x[1] \o q[x[2]] \in V
        BY <1>1
      <4> QED BY <4>1
    <3> DEFINE base == <<>>
    <3>2. base \in V
      OBVIOUS
    <3> HIDE DEF step, V, N, base
    <3>3. PICK g \in [0 .. N -> V] : Loop(g, N, base, step)
      BY <1>1, <3>1, <3>2, LoopExists
    <3>4. \A i \in 1 .. N : g[i] = g[i - 1] \o q[i]
      <4> SUFFICES ASSUME NEW i \in 1 .. N PROVE g[i] = g[i - 1] \o q[i]
        OBVIOUS
      <4>1. i - 1 \in 0 .. N
        BY <1>1
      <4>2. <<g[i - 1], i>> \in V \X (1 .. N)
        BY <4>1
      <4>3. g[i] = step[<<g[i - 1], i>>]
        BY <3>3 DEF Loop
      <4> QED BY <4>2, <4>3 DEF step
    <3> DEFINE h == [i \in 1 .. N |-> g[i]]
    <3>5. \A i \in 1 .. N : g[i] = IF i = 1 THEN q[i] ELSE h[i - 1] \o q[i]
      <4> SUFFICES ASSUME NEW i \in 1 .. N
                   PROVE  g[i] = IF i = 1 THEN q[i] ELSE h[i - 1] \o q[i]
        OBVIOUS
      <4>1. CASE i = 1
        <5>1. q[1] \in Seq(S) /\ 1 - 1 = 0
          BY <1>1, <4>1 DEF V
        <5>2. g[0] = <<>>
          BY <3>3 DEF Loop, base
        <5>3. g[1] = <<>> \o q[1]
          BY <3>4, <4>1, <5>1, <5>2
        <5> QED BY <4>1, <5>1, <5>3
      <4>2. CASE i # 1
        <5>1. i - 1 \in 1 .. N
          BY <1>1, <4>2
        <5> QED BY <3>4, <4>2, <5>1
      <4> QED BY <4>1, <4>2
    <3>6. Eq(h)
      <4>1. h = [i \in 1 .. N |-> IF i = 1 THEN q[i] ELSE h[i - 1] \o q[i]]
        BY <3>5
      <4> QED BY <4>1
    <3> HIDE DEF Eq, h
    <3> QED BY <3>6
  <2> HIDE DEF flatten
  <2>3. \A i \in 1 .. N : flatten[i] = IF i = 1 THEN q[i] ELSE flatten[i - 1] \o q[i]
    BY <2>2
  <2> HIDE DEF Eq
  <2> DEFINE Good(i) ==
                /\ flatten[i] \in V
                /\ \A x : Contains(flatten[i], x) <=>
                             \E k \in 1 .. i : Contains(q[k], x)
             T == {i \in 0 .. N : i > 0 => Good(i)}
  <2>4. 0 \in T
    BY <1>1
  <2>5. ASSUME NEW i \in 1 .. N, i - 1 \in T
        PROVE  i \in T
    <3>1. CASE i = 1
      <4>1. flatten[1] = q[1] /\ 1 \in 1 .. N
        BY <2>3, <3>1
      <4>2. \A k \in 1 .. 1 : k = 1
        OBVIOUS
      <4>3. Good(1)
        BY <1>1, <4>1, <4>2
      <4> HIDE DEF Good
      <4> QED BY <1>1, <3>1, <4>3
    <3>2. CASE i # 1
      <4>1. i - 1 > 0 /\ Good(i - 1)
        <5> HIDE DEF Good
        <5>1. i - 1 > 0
          BY <1>1, <3>2
        <5> QED BY <2>5, <5>1
      <4> DEFINE a == flatten[i - 1]
                 b == q[i]
      <4>2. a \in V /\ b \in V /\ flatten[i] = a \o b
        BY <1>1, <2>3, <3>2, <4>1
      <4>3. \A x : Contains(a, x) <=> \E k \in 1 .. i - 1 : Contains(q[k], x)
        BY <4>1
      <4>4. \A x : (\E k \in 1 .. i : Contains(q[k], x)) <=>
               (\E k \in 1 .. i - 1 : Contains(q[k], x)) \/ Contains(b, x)
        <5>1. \A k \in 1 .. i : k \in 1 .. i - 1 \/ k = i
          BY <1>1
        <5>2. i \in 1 .. i /\ \A k \in 1 .. i - 1 : k \in 1 .. i
          BY <1>1
        <5> QED BY <5>1, <5>2
      <4> HIDE DEF a, b
      <4>5. \A x : Contains(a \o b, x) <=> Contains(a, x) \/ Contains(b, x)
        BY <4>2, ConcatElements
      <4>6. a \o b \in V
        BY <4>2, ConcatAt
      <4>7. Good(i)
        BY <4>2, <4>3, <4>4, <4>5, <4>6
      <4> HIDE DEF Good
      <4> QED BY <1>1, <4>7
    <3> QED BY <3>1, <3>2
  <2>6. N \in T
    <3> HIDE DEF T, N
    <3>1. 0 .. N \subseteq T
      BY <1>1, <2>4, <2>5, UpTo
    <3> QED BY <1>1, <3>1
  <2>7. Good(N)
    <3> HIDE DEF Good
    <3> QED BY <1>1, <1>3, <2>6
  <2> QED BY <2>1, <2>7
<1> QED BY <1>2, <1>3

=============================================================================
