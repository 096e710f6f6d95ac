-------------------------- MODULE ArithmeticProofs --------------------------
(***************************************************************************)
(* The properties of run arithmetic for every value of its bounds: any     *)
(* block numbers, any number of coverage records, chunks of any range over *)
(* any number of workers, any accounts; and the balances for any set of    *)
(* transfers.                                                              *)
(***************************************************************************)
EXTENDS MCArithmetic, RangesProofs

\* A query is one of the four kinds, and its answer is computed.
QueryInv ==
    /\ query \in GapQueries \cup ChunkQueries \cup AmountQueries
                 \cup BalanceQueries
    /\ answer # NoAnswer => answer = Answered

\* Only Answer changes anything, and it answers the query.
LEMMA QueryInvariant == MCSpec => []QueryInv
<1>1. MCInit => QueryInv
  BY DEF MCInit, QueryInv
<1>2. QueryInv /\ [Answer]_mcVars => QueryInv'
  <2> SUFFICES ASSUME QueryInv, [Answer]_mcVars PROVE QueryInv'
    OBVIOUS
  <2>1. query' = query /\ (answer' = Answered \/ answer' = answer)
    BY DEF Answer, mcVars
  <2>2. Answered' = Answered
    BY <2>1 DEF Answered
  <2> QED BY <2>1, <2>2 DEF QueryInv
<1> QED BY <1>1, <1>2, PTL DEF MCSpec

\* The kind of a query tells which set it is from.
LEMMA QueryKinds ==
    ASSUME QueryInv
    PROVE  /\ query.kind = "gaps" => query \in GapQueries
           /\ query.kind = "chunks" => query \in ChunkQueries
           /\ query.kind = "amount" => query \in AmountQueries
           /\ query.kind = "balances" => query \in BalanceQueries
BY DEF QueryInv, GapQueries, ChunkQueries, AmountQueries, BalanceQueries

\* There are finitely many ranges of blocks.
LEMMA RangesFinite == IsFiniteSet(AllRanges) /\ AllRanges \subseteq ValidRange
<1> DEFINE Pairs == Block \X Block
           f == [x \in Pairs |-> [from |-> x[1], to |-> x[2]]]
           All == [from : Block, to : Block]
<1>1. IsFiniteSet(Block)
  BY FS_Interval, Bounds DEF Block
<1>2. IsFiniteSet(Pairs)
  BY <1>1, FS_Product
<1>3. f \in Surjection(Pairs, All)
  <2>1. f \in [Pairs -> All]
    OBVIOUS
  <2>2. ASSUME NEW r \in All
        PROVE  \E x \in Pairs : f[x] = r
    <3>1. <<r.from, r.to>> \in Pairs /\ r = [from |-> r.from, to |-> r.to]
      OBVIOUS
    <3>2. f[<<r.from, r.to>>] = r
      BY <3>1
    <3> QED BY <3>1, <3>2
  <2> HIDE DEF f, Pairs, All
  <2> QED BY <2>1, <2>2 DEF Surjection
<1>4. IsFiniteSet(All)
  BY <1>2, <1>3, FS_Surjection
<1>5. AllRanges \in SUBSET All
  BY DEF AllRanges
<1>6. IsFiniteSet(AllRanges)
  BY <1>4, <1>5, FS_Subset
<1>7. \A r \in AllRanges : r \in ValidRange
  BY DEF AllRanges, Block, ValidRange, IntRange
<1> QED BY <1>6, <1>7

\* The answer to a query for gaps.
LEMMA GapAnswer ==
    ASSUME QueryInv, Gaps
    PROVE  /\ query.f \in Int /\ query.n \in Int
           /\ IsFiniteSet(query.covered) /\ query.covered \subseteq ValidRange
           /\ answer = ComputeGaps(query.f, query.n, query.covered)
<1>1. query \in GapQueries
  BY QueryKinds DEF Gaps
<1>2. query.f \in Int /\ query.n \in Int
  BY <1>1 DEF GapQueries, Block
<1>3. query.covered \in SUBSET AllRanges
  BY <1>1 DEF GapQueries, kSubset
<1>4. IsFiniteSet(query.covered)
  BY <1>3, RangesFinite, FS_Subset
<1>5. answer = ComputeGaps(query.f, query.n, query.covered)
  BY DEF QueryInv, Gaps, Answered
<1> QED BY <1>2, <1>3, <1>4, <1>5, RangesFinite

(***************************************************************************)
(* compute_gaps returns the complement of the coverage, whatever records   *)
(* there are (backfill/core.py, compute_gaps).                             *)
(***************************************************************************)
THEOREM GapsAreComplement == MCSpec => []GapsAreTheComplement
<1>1. QueryInv => GapsAreTheComplement
  <2> SUFFICES ASSUME QueryInv, Gaps
               PROVE  Uncovered = UNION {answer[i].from .. answer[i].to :
                                            i \in DOMAIN answer}
    BY DEF GapsAreTheComplement
  <2>1. /\ query.f \in Int /\ query.n \in Int
        /\ answer \in Seq(ValidRange)
        /\ \A k \in 1 .. Len(answer) :
              query.f <= answer[k].from /\ answer[k].to <= query.n
        /\ \A b \in query.f .. query.n :
              Holds(answer, b) <=> \A r \in query.covered : ~In(b, r)
    BY GapAnswer, GapsCorrect
  <2>2. /\ DOMAIN answer = 1 .. Len(answer)
        /\ \A k \in 1 .. Len(answer) :
              answer[k].from \in Int /\ answer[k].to \in Int
    BY <2>1, ValidRangeType
  <2>3. ASSUME NEW b \in Uncovered
        PROVE  \E i \in DOMAIN answer : b \in answer[i].from .. answer[i].to
    <3>1. /\ b \in query.f .. query.n
          /\ \A r \in query.covered : ~In(b, r)
      BY <2>3 DEF Uncovered
    <3>2. PICK i \in 1 .. Len(answer) : In(b, answer[i])
      BY <2>1, <3>1 DEF Holds
    <3>3. b \in answer[i].from .. answer[i].to
      BY <2>1, <2>2, <3>1, <3>2 DEF In
    <3> QED BY <2>2, <3>3
  <2>4. ASSUME NEW i \in DOMAIN answer, NEW b \in answer[i].from .. answer[i].to
        PROVE  b \in Uncovered
    <3>1. b \in query.f .. query.n
      BY <2>1, <2>2, <2>4
    <3>2. Holds(answer, b)
      BY <2>2, <2>4 DEF Holds, In
    <3> QED BY <2>1, <3>1, <3>2 DEF Uncovered
  <2> QED BY <2>3, <2>4
<1> QED BY <1>1, QueryInvariant, PTL

\* The gaps are in order and as few as can be.
THEOREM GapsMinimal == MCSpec => []GapsAreMinimal
<1>1. QueryInv => GapsAreMinimal
  <2> SUFFICES ASSUME QueryInv, Gaps
               PROVE  /\ \A i \in DOMAIN answer : answer[i].from <= answer[i].to
                      /\ \A i \in 1 .. Len(answer) - 1 :
                            answer[i].to + 1 < answer[i + 1].from
    BY DEF GapsAreMinimal
  <2>1. answer \in Seq(ValidRange) /\ Apart(answer)
    BY GapAnswer, GapsCorrect
  <2>2. Len(answer) \in Nat /\ DOMAIN answer = 1 .. Len(answer)
    BY <2>1
  <2>3. \A i \in DOMAIN answer : answer[i].from <= answer[i].to
    BY <2>1, <2>2, ValidRangeType
  <2>4. ASSUME NEW i \in 1 .. Len(answer) - 1
        PROVE  answer[i].to + 1 < answer[i + 1].from
    <3>1. i \in 1 .. Len(answer) /\ i + 1 \in 1 .. Len(answer) /\ i < i + 1
      BY <2>2
    <3> QED BY <2>1, <3>1 DEF Apart
  <2> QED BY <2>3, <2>4
<1> QED BY <1>1, QueryInvariant, PTL

\* The answer to a query for chunks.
LEMMA ChunkAnswer ==
    ASSUME QueryInv, Split
    PROVE  \E f, n \in Int, workers, batch \in Nat \ {0} :
              /\ f = query.f /\ n = query.f + query.total - 1 /\ f <= n
              /\ workers = query.workers
              /\ answer = Chunks(f, n, workers, batch)
<1>1. query \in ChunkQueries
  BY QueryKinds DEF Split
<1>2. /\ query.f \in Int /\ query.total \in Nat \ {0}
      /\ query.workers \in Nat \ {0} /\ query.batch \in Nat \ {0}
  BY <1>1 DEF ChunkQueries
<1>3. answer = Chunks(query.f, query.f + query.total - 1,
                      query.workers, query.batch)
  BY DEF QueryInv, Split, Answered
<1> DEFINE n == query.f + query.total - 1
<1>4. n \in Int /\ query.f <= n
  BY <1>2
<1> QED BY <1>2, <1>3, <1>4

(***************************************************************************)
(* The chunks partition the range in order, whatever its length, the pool  *)
(* and the batch size (backfill/core.py, _chunks).                         *)
(***************************************************************************)
THEOREM ChunksArePartition == MCSpec => []ChunksPartition
<1>1. QueryInv => ChunksPartition
  <2> SUFFICES ASSUME QueryInv, Split
               PROVE  /\ answer # <<>>
                      /\ answer[1].from = query.f
                      /\ answer[Len(answer)].to = query.f + query.total - 1
                      /\ \A i \in DOMAIN answer : answer[i].from <= answer[i].to
                      /\ \A i \in 1 .. Len(answer) - 1 :
                            answer[i + 1].from = answer[i].to + 1
    BY DEF ChunksPartition
  <2>1. PICK f \in Int, n \in Int, workers \in Nat \ {0}, batch \in Nat \ {0} :
          /\ f = query.f /\ n = query.f + query.total - 1 /\ f <= n
          /\ answer = Chunks(f, n, workers, batch)
    BY ChunkAnswer
  <2>2. /\ answer \in Seq(ValidRange) /\ answer # <<>>
        /\ answer[1].from = f /\ answer[Len(answer)].to = n
        /\ \A i \in 1 .. Len(answer) - 1 : answer[i + 1].from = answer[i].to + 1
    <3>1. IsSplit(answer, f, n, workers)
      BY <2>1, ChunksCorrect
    <3> QED BY <3>1 DEF IsSplit
  <2>3. \A i \in DOMAIN answer : answer[i].from <= answer[i].to
    BY <2>2, ValidRangeType
  <2> QED BY <2>1, <2>2, <2>3
<1> QED BY <1>1, QueryInvariant, PTL

\* One range is cut into at most eight chunks per worker of a pool, however
\* long it is (backfill/core.py, comment in _chunks).
THEOREM RangeChunksAreBounded == MCSpec => []RangeChunksBounded
<1>1. QueryInv => RangeChunksBounded
  <2> SUFFICES ASSUME QueryInv, Split, query.workers > 1
               PROVE  Len(answer) <= query.workers * 8
    BY DEF RangeChunksBounded
  <2>1. PICK f \in Int, n \in Int, workers \in Nat \ {0}, batch \in Nat \ {0} :
          /\ f <= n /\ workers = query.workers
          /\ answer = Chunks(f, n, workers, batch)
    BY ChunkAnswer
  <2>2. IsSplit(answer, f, n, workers)
    BY <2>1, ChunksCorrect
  <2> QED BY <2>1, <2>2 DEF IsSplit
<1> QED BY <1>1, QueryInvariant, PTL

-----------------------------------------------------------------------------
(* Sums over a set, and the balances.                                      *)

\* The element the library's sums take first.
Pick(s) == CHOOSE x \in s : TRUE

\* The steps of a sum: what the sum of s is made of.
SumStep(g, v, s) == IF s = {} THEN 0 ELSE v[Pick(s)] + g[s \ {Pick(s)}]

\* g gives the sum of v over every subset of S.
Sums(g, v, S) ==
    /\ g \in [SUBSET S -> Int]
    /\ \A s \in SUBSET S : g[s] = SumStep(g, v, s)

\* Sets of integers valued by v, summed.
TotalOf(v, S) == (CHOOSE g \in [SUBSET S -> Int] : Sums(g, v, S))[S]

\* A set that is not empty has its first element.
LEMMA PickIn == \A s : s # {} => Pick(s) \in s
  BY DEF Pick

\* What holds of a set when it holds of all smaller ones, holds of every
\* subset of a finite set.
LEMMA UpToSet ==
    ASSUME NEW S, IsFiniteSet(S), NEW T,
           \A s \in SUBSET S : (\A r \in SUBSET s : r # s => r \in T) => s \in T
    PROVE  SUBSET S \subseteq T
<1> DEFINE N == Cardinality(S)
           Small(n) == {s \in SUBSET S : Cardinality(s) <= n}
           Q == {n \in 0 .. N : Small(n) \subseteq T}
<1>1. \A s \in SUBSET S : IsFiniteSet(s) /\ Cardinality(s) \in 0 .. N
  BY FS_Subset, FS_CardinalityType
<1>2. N \in Nat
  BY FS_CardinalityType
<1>3. ASSUME NEW s \in SUBSET S, NEW r \in SUBSET s, r # s
      PROVE  r \in SUBSET S /\ Cardinality(r) \in Nat
             /\ Cardinality(r) < Cardinality(s)
  BY <1>1, <1>3, FS_Subset
<1>4. 0 \in Q
  <2>1. ASSUME NEW s \in Small(0) PROVE s \in T
    <3>1. s \in SUBSET S /\ ~(Cardinality(s) > 0) /\ Cardinality(s) \in Nat
      BY <1>1
    <3>2. \A r \in SUBSET s : r # s => r \in T
      BY <1>3, <3>1
    <3> QED BY <3>1, <3>2
  <2> QED BY <1>2, <2>1
<1>5. ASSUME NEW n \in 1 .. N, n - 1 \in Q PROVE n \in Q
  <2>1. ASSUME NEW s \in Small(n) PROVE s \in T
    <3>1. ASSUME NEW r \in SUBSET s, r # s PROVE r \in T
      <4>1. r \in Small(n - 1)
        BY <1>1, <1>3, <3>1
      <4> QED BY <1>5, <4>1
    <3> QED BY <3>1
  <2> QED BY <2>1
<1>6. N \in Q
  <2> HIDE DEF Q, N
  <2>1. 0 .. N \subseteq Q
    BY <1>2, <1>4, <1>5, UpTo
  <2> QED BY <1>2, <2>1
<1> QED BY <1>1, <1>6

\* One step of a fold that takes element c[s] of s first.
FoldStep(g, base, f, c, s) ==
    IF s = {} THEN base ELSE f[<<g[s \ {c[s]}], c[s]>>]

\* There is a function that folds f over the subsets of S, within V.
Foldable(S, V, base, f, c) ==
    \E g \in [SUBSET S -> V] :
        \A s \in SUBSET S : g[s] = FoldStep(g, base, f, c, s)

(***************************************************************************)
(* The function that folds f over the subsets of a finite set, taking an   *)
(* element c[s] of each first, exists, and its values stay in V.           *)
(***************************************************************************)
LEMMA FoldsExist ==
    ASSUME NEW S, IsFiniteSet(S), NEW V, NEW base \in V,
           NEW f \in [V \X S -> V],
           NEW c, \A s \in SUBSET S : s # {} => c[s] \in s
    PROVE  Foldable(S, V, base, f, c)
<1> DEFINE N == Cardinality(S)
           Step(g, s) == FoldStep(g, base, f, c, s)
           Good(g, n) == \A s \in SUBSET S :
                            Cardinality(s) <= n => g[s] = Step(g, s)
           Q == {n \in 0 .. N : \E g \in [SUBSET S -> V] : Good(g, n)}
<1>1. \A s \in SUBSET S : IsFiniteSet(s) /\ Cardinality(s) \in 0 .. N
  BY FS_Subset, FS_CardinalityType
<1>2. N \in Nat
  BY FS_CardinalityType
<1>3. \A g \in [SUBSET S -> V], s \in SUBSET S : Step(g, s) \in V
  <2> SUFFICES ASSUME NEW g \in [SUBSET S -> V], NEW s \in SUBSET S
               PROVE  Step(g, s) \in V
    OBVIOUS
  <2>1. CASE s = {}
    BY <2>1 DEF FoldStep
  <2>2. CASE s # {}
    <3>1. c[s] \in S /\ s \ {c[s]} \in SUBSET S
      BY <2>2
    <3>2. <<g[s \ {c[s]}], c[s]>> \in V \X S
      BY <3>1
    <3> QED BY <2>2, <3>2 DEF FoldStep
  <2> QED BY <2>1, <2>2
<1>4. 0 \in Q
  <2> DEFINE g == [s \in SUBSET S |-> base]
  <2>1. Good(g, 0)
    <3> SUFFICES ASSUME NEW s \in SUBSET S, Cardinality(s) <= 0
                 PROVE  g[s] = Step(g, s)
      OBVIOUS
    <3>1. s = {}
      BY <1>1, FS_EmptySet
    <3> QED BY <3>1 DEF FoldStep
  <2>2. g \in [SUBSET S -> V]
    OBVIOUS
  <2> HIDE DEF g, Good
  <2> QED BY <1>2, <2>1, <2>2
<1>5. ASSUME NEW n \in 1 .. N, n - 1 \in Q PROVE n \in Q
  <2>1. PICK g \in [SUBSET S -> V] : Good(g, n - 1)
    BY <1>5
  <2> DEFINE h == [s \in SUBSET S |-> Step(g, s)]
  <2>2. h \in [SUBSET S -> V]
    <3> HIDE DEF Step
    <3> QED BY <1>3
  <2>3. \A s \in SUBSET S : Cardinality(s) <= n - 1 => h[s] = g[s]
    BY <2>1
  <2>4. ASSUME NEW s \in SUBSET S, Cardinality(s) <= n
        PROVE  h[s] = Step(h, s)
    <3>1. CASE s = {}
      BY <3>1 DEF FoldStep
    <3>2. CASE s # {}
      <4>1. c[s] \in s /\ IsFiniteSet(s) /\ Cardinality(s) \in Nat
        BY <1>1, <3>2
      <4>2. Cardinality(s \ {c[s]}) = Cardinality(s) - 1
        <5> DEFINE x == c[s]
        <5> HIDE DEF x, h, Good, Step, N
        <5>1. x \in s /\ IsFiniteSet(s)
          BY <4>1 DEF x
        <5>2. Cardinality(s \ {x}) = Cardinality(s) - 1
          BY ONLY <5>1, FS_RemoveElement
        <5> QED BY <5>2 DEF x
      <4>3. s \ {c[s]} \in SUBSET S /\ Cardinality(s \ {c[s]}) <= n - 1
        BY <2>4, <4>1, <4>2
      <4>4. h[s \ {c[s]}] = g[s \ {c[s]}]
        BY <2>3, <4>3
      <4>5. h[s] = Step(g, s)
        OBVIOUS
      <4> HIDE DEF h
      <4> QED BY <3>2, <4>4, <4>5 DEF FoldStep
    <3> QED BY <3>1, <3>2
  <2>5. Good(h, n)
    BY <2>4
  <2> HIDE DEF h, Good
  <2> QED BY <2>2, <2>5
<1>6. N \in Q
  <2> HIDE DEF Q, N
  <2>1. 0 .. N \subseteq Q
    BY <1>2, <1>4, <1>5, UpTo
  <2> QED BY <1>2, <2>1
<1>7. PICK g \in [SUBSET S -> V] : Good(g, N)
  BY <1>6
<1>8. \A s \in SUBSET S : g[s] = Step(g, s)
  <2> HIDE DEF N, Step
  <2> QED BY <1>1, <1>2, <1>7
<1> QED BY <1>8 DEF Foldable

\* The function that sums exists.
LEMMA SumsExist ==
    ASSUME NEW S, IsFiniteSet(S), NEW v \in [S -> Int]
    PROVE  \E g \in [SUBSET S -> Int] : Sums(g, v, S)
<1> DEFINE c == [s \in SUBSET S |-> Pick(s)]
           f == [x \in Int \X S |-> v[x[2]] + x[1]]
<1>1. /\ \A s \in SUBSET S : c[s] = Pick(s) /\ (s # {} => c[s] \in s)
      /\ f \in [Int \X S -> Int]
      /\ \A k \in Int, x \in S : f[<<k, x>>] = v[x] + k
  BY PickIn
<1> HIDE DEF c, f
<1> DEFINE V == Int
           zero == 0
<1>2. PICK g \in [SUBSET S -> V] :
         \A s \in SUBSET S : g[s] = FoldStep(g, zero, f, c, s)
  <2>1. f \in [V \X S -> V] /\ zero \in V
    BY <1>1
  <2> HIDE DEF V, zero
  <2>2. Foldable(S, V, zero, f, c)
    BY <1>1, <2>1, FoldsExist
  <2> QED BY <2>2 DEF Foldable
<1>3. ASSUME NEW s \in SUBSET S PROVE g[s] = SumStep(g, v, s)
  <2>1. CASE s = {}
    BY <1>2, <2>1 DEF FoldStep, SumStep
  <2>2. CASE s # {}
    <3>1. c[s] \in S /\ g[s \ {c[s]}] \in Int /\ c[s] = Pick(s)
      BY <1>1, <2>2
    <3> QED BY <1>1, <1>2, <2>2, <3>1 DEF FoldStep, SumStep
  <2> QED BY <2>1, <2>2
<1> QED BY <1>3 DEF Sums

\* It is the only one.
LEMMA SumsAgree ==
    ASSUME NEW R, IsFiniteSet(R), NEW v, NEW w, NEW g, NEW h,
           \A s \in SUBSET R : /\ g[s] = SumStep(g, v, s)
                               /\ h[s] = SumStep(h, w, s),
           \A x \in R : v[x] = w[x]
    PROVE  g[R] = h[R]
<1> DEFINE T == {s \in SUBSET R : g[s] = h[s]}
<1>1. \A s \in SUBSET R : g[s] = SumStep(g, v, s) /\ h[s] = SumStep(h, w, s)
  OBVIOUS
<1>2. ASSUME NEW s \in SUBSET R, \A r \in SUBSET s : r # s => r \in T
      PROVE  s \in T
  <2>1. CASE s = {}
    BY <1>1, <2>1 DEF SumStep
  <2>2. CASE s # {}
    <3>1. Pick(s) \in s /\ Pick(s) \in R
      BY <2>2, PickIn
    <3>2. s \ {Pick(s)} \in T
      BY <1>2, <3>1
    <3>3. v[Pick(s)] = w[Pick(s)] /\ g[s \ {Pick(s)}] = h[s \ {Pick(s)}]
      BY <3>1, <3>2
    <3>4. g[s] = h[s]
      BY <1>1, <2>2, <3>3 DEF SumStep
    <3> QED BY <3>4
  <2> QED BY <2>1, <2>2
<1>3. SUBSET R \subseteq T
  <2> HIDE DEF T
  <2> QED BY <1>2, UpToSet
<1> QED BY <1>3

\* Sums can be taken of a function on more than the set.
LEMMA TotalOfSums ==
    ASSUME NEW S, IsFiniteSet(S), NEW v, \A x \in S : v[x] \in Int
    PROVE  /\ TotalOf(v, S) \in Int
           /\ \A g : Sums(g, v, S) => TotalOf(v, S) = g[S]
           /\ \E g : Sums(g, v, S)
<1> DEFINE u == [x \in S |-> v[x]]
<1>1. u \in [S -> Int] /\ \A x \in S : u[x] = v[x]
  OBVIOUS
<1> HIDE DEF u
<1>2. PICK g \in [SUBSET S -> Int] : Sums(g, u, S)
  BY <1>1, SumsExist
<1>3. \A s \in SUBSET S : SumStep(g, u, s) = SumStep(g, v, s)
  <2> SUFFICES ASSUME NEW s \in SUBSET S
               PROVE  SumStep(g, u, s) = SumStep(g, v, s)
    OBVIOUS
  <2>1. s # {} => u[Pick(s)] = v[Pick(s)]
    BY <1>1, PickIn
  <2> QED BY <2>1 DEF SumStep
<1>4. Sums(g, v, S)
  BY <1>2, <1>3 DEF Sums
<1> DEFINE k == CHOOSE f \in [SUBSET S -> Int] : Sums(f, v, S)
<1>5. k \in [SUBSET S -> Int] /\ Sums(k, v, S)
  BY <1>4
<1>6. TotalOf(v, S) = k[S]
  BY DEF TotalOf
<1> HIDE DEF k
<1>7. k[S] \in Int
  BY <1>5
<1>8. \A f : Sums(f, v, S) => k[S] = f[S]
  BY <1>5, SumsAgree DEF Sums
<1> QED BY <1>4, <1>6, <1>7, <1>8

\* The sum over the empty set, and over a set without one element.
LEMMA TotalOfPick ==
    ASSUME NEW S, IsFiniteSet(S), NEW v, \A x \in S : v[x] \in Int
    PROVE  /\ S = {} => TotalOf(v, S) = 0
           /\ S # {} => TotalOf(v, S) = v[Pick(S)] + TotalOf(v, S \ {Pick(S)})
<1>1. PICK g : Sums(g, v, S)
  BY TotalOfSums
<1>2. TotalOf(v, S) = g[S] /\ g[S] = SumStep(g, v, S)
  <2>1. TotalOf(v, S) = g[S]
    BY <1>1, TotalOfSums
  <2>2. S \in SUBSET S
    OBVIOUS
  <2>3. g[S] = SumStep(g, v, S)
    BY <1>1, <2>2 DEF Sums
  <2> QED BY <2>1, <2>3
<1>3. CASE S = {}
  BY <1>2, <1>3 DEF SumStep
<1>4. CASE S # {}
  <2> DEFINE R == S \ {Pick(S)}
  <2>1. IsFiniteSet(R) /\ R \subseteq S
    BY FS_Subset
  <2> HIDE DEF R
  <2>2. \A x \in R : v[x] \in Int
    BY <2>1
  <2>3. PICK h : Sums(h, v, R)
    BY <2>1, <2>2, TotalOfSums
  <2>4. TotalOf(v, R) = h[R]
    BY <2>1, <2>2, <2>3, TotalOfSums
  <2>5. g[R] = h[R]
    <3>1. \A s \in SUBSET R : /\ g[s] = SumStep(g, v, s)
                               /\ h[s] = SumStep(h, v, s)
      BY <1>1, <2>1, <2>3 DEF Sums
    <3> QED BY <2>1, <3>1, SumsAgree
  <2> QED BY <1>2, <1>4, <2>4, <2>5 DEF SumStep, R
<1> QED BY <1>3, <1>4

\* The library's sum of the values of a function.
LEMMA SumOfFunction ==
    ASSUME NEW S, IsFiniteSet(S), NEW v, \A x \in S : v[x] \in Int
    PROVE  MapThenSumSet(LAMBDA x : v[x], S) = TotalOf(v, S)
<1> DEFINE Eq(g) == g = [s \in SUBSET S |->
                           IF s = {} THEN 0
                           ELSE v[CHOOSE x \in s : TRUE]
                                + g[s \ {CHOOSE x \in s : TRUE}]]
           sum == CHOOSE g : Eq(g)
<1>1. MapThenSumSet(LAMBDA x : v[x], S) = sum[S]
  BY DEF MapThenSumSet, MapThenFoldSet
<1>2. PICK g : Sums(g, v, S)
  BY TotalOfSums
<1>3. Eq(g)
  BY <1>2 DEF Sums, SumStep, Pick
<1>4. Eq(sum)
  <2> HIDE DEF Eq
  <2> QED BY <1>3
<1>5. \A s \in SUBSET S : sum[s] = SumStep(sum, v, s)
  <2> HIDE DEF sum
  <2> QED BY <1>4 DEF SumStep, Pick
<1> HIDE DEF sum
<1>6. sum[S] = g[S]
  <2>1. \A s \in SUBSET S : g[s] = SumStep(g, v, s)
    BY <1>2 DEF Sums
  <2> QED BY <1>5, <2>1, SumsAgree
<1>7. TotalOf(v, S) = g[S]
  BY <1>2, TotalOfSums
<1> QED BY <1>1, <1>6, <1>7

\* The sum of balance_delta, over any set of rows.
LEMMA SumOfFlows ==
    ASSUME NEW S, IsFiniteSet(S), NEW a, NEW v,
           \A x \in S : v[x] = NetFlow(a, x) /\ v[x] \in Int
    PROVE  MapThenSumSet(LAMBDA x : NetFlow(a, x), S) = TotalOf(v, S)
<1> DEFINE Eq(g) == g = [s \in SUBSET S |->
                           IF s = {} THEN 0
                           ELSE NetFlow(a, CHOOSE x \in s : TRUE)
                                + g[s \ {CHOOSE x \in s : TRUE}]]
           sum == CHOOSE g : Eq(g)
<1>1. MapThenSumSet(LAMBDA x : NetFlow(a, x), S) = sum[S]
  BY DEF MapThenSumSet, MapThenFoldSet
<1>2. PICK g : Sums(g, v, S)
  BY TotalOfSums
<1>3. \A s \in SUBSET S : s # {} =>
        v[Pick(s)] = NetFlow(a, CHOOSE x \in s : TRUE)
  BY PickIn DEF Pick
<1>4. Eq(g)
  BY <1>2, <1>3 DEF Sums, SumStep, Pick
<1>5. Eq(sum)
  <2> HIDE DEF Eq
  <2> QED BY <1>4
<1>6. \A s \in SUBSET S : sum[s] = SumStep(sum, v, s)
  <2> HIDE DEF sum
  <2> QED BY <1>3, <1>5 DEF SumStep, Pick
<1> HIDE DEF sum
<1>7. sum[S] = g[S]
  <2>1. \A s \in SUBSET S : g[s] = SumStep(g, v, s)
    BY <1>2 DEF Sums
  <2> QED BY <1>6, <2>1, SumsAgree
<1>8. TotalOf(v, S) = g[S]
  BY <1>2, TotalOfSums
<1> QED BY <1>1, <1>7, <1>8

\* Any element of a set can be taken out of its sum.
LEMMA TotalOfRemove ==
    ASSUME NEW S, IsFiniteSet(S), NEW v, \A x \in S : v[x] \in Int,
           NEW x \in S
    PROVE  /\ TotalOf(v, S) = v[x] + TotalOf(v, S \ {x})
           /\ TotalOf(v, S \ {x}) \in Int
<1> DEFINE T == {s \in SUBSET S :
                   \A y \in s : TotalOf(v, s) = v[y] + TotalOf(v, s \ {y})}
<1>1. \A s \in SUBSET S : /\ IsFiniteSet(s) /\ (\A y \in s : v[y] \in Int)
                         /\ TotalOf(v, s) \in Int
  BY FS_Subset, TotalOfSums
<1>2. ASSUME NEW s \in SUBSET S, \A r \in SUBSET s : r # s => r \in T
      PROVE  s \in T
  <2>1. ASSUME NEW y \in s
        PROVE  TotalOf(v, s) = v[y] + TotalOf(v, s \ {y})
    <3> DEFINE c == Pick(s)
    <3>1. c \in s /\ TotalOf(v, s) = v[c] + TotalOf(v, s \ {c})
      BY <1>1, <2>1, PickIn, TotalOfPick
    <3> HIDE DEF c
    <3>2. CASE y = c
      BY <3>1, <3>2
    <3>3. CASE y # c
      <4>1. s \ {c} \in T /\ s \ {y} \in T
        BY <1>2, <2>1, <3>1
      <4>2. /\ TotalOf(v, s \ {c}) = v[y] + TotalOf(v, (s \ {c}) \ {y})
            /\ TotalOf(v, s \ {y}) = v[c] + TotalOf(v, (s \ {y}) \ {c})
        BY <2>1, <3>1, <3>3, <4>1
      <4>3. (s \ {c}) \ {y} = (s \ {y}) \ {c}
        OBVIOUS
      <4>4. (s \ {y}) \ {c} \in SUBSET S
        OBVIOUS
      <4> DEFINE k == TotalOf(v, (s \ {y}) \ {c})
      <4>5. k \in Int /\ v[y] \in Int /\ v[c] \in Int
        BY <1>1, <2>1, <3>1, <4>4
      <4>6. /\ TotalOf(v, s \ {c}) = v[y] + k
            /\ TotalOf(v, s \ {y}) = v[c] + k
        BY <4>2, <4>3
      <4> HIDE DEF k
      <4> QED BY <3>1, <4>5, <4>6
    <3> QED BY <3>2, <3>3
  <2> QED BY <2>1
<1>3. S \in T
  <2> HIDE DEF T
  <2>1. SUBSET S \subseteq T
    BY <1>2, UpToSet
  <2> QED BY <2>1
<1> QED BY <1>1, <1>3

\* A sum of zeros, and a sum of sums.
LEMMA TotalOfZeros ==
    ASSUME NEW S, IsFiniteSet(S), NEW v, \A x \in S : v[x] = 0
    PROVE  TotalOf(v, S) = 0
<1> DEFINE T == {s \in SUBSET S : TotalOf(v, s) = 0}
<1>1. ASSUME NEW s \in SUBSET S, \A r \in SUBSET s : r # s => r \in T
      PROVE  s \in T
  <2>1. IsFiniteSet(s) /\ \A x \in s : v[x] \in Int
    BY FS_Subset
  <2>2. CASE s = {}
    BY <2>1, <2>2, TotalOfPick
  <2>3. CASE s # {}
    <3>1. Pick(s) \in s /\ v[Pick(s)] = 0
      BY <2>3, PickIn
    <3>2. TotalOf(v, s \ {Pick(s)}) = 0
      BY <1>1, <3>1
    <3>3. TotalOf(v, s) = v[Pick(s)] + TotalOf(v, s \ {Pick(s)})
      BY <2>1, <2>3, TotalOfPick
    <3> QED BY <3>1, <3>2, <3>3
  <2> QED BY <2>2, <2>3
<1>2. S \in T
  <2> HIDE DEF T
  <2>1. SUBSET S \subseteq T
    BY <1>1, UpToSet
  <2> QED BY <2>1
<1> QED BY <1>2

\* A sum of sums.
LEMMA TotalOfPlus ==
    ASSUME NEW S, IsFiniteSet(S), NEW u, NEW v, NEW w,
           \A x \in S : /\ v[x] \in Int /\ w[x] \in Int
                        /\ u[x] = v[x] + w[x]
    PROVE  TotalOf(u, S) = TotalOf(v, S) + TotalOf(w, S)
<1> DEFINE T == {s \in SUBSET S : TotalOf(u, s) = TotalOf(v, s) + TotalOf(w, s)}
<1>1. \A s \in SUBSET S :
         /\ IsFiniteSet(s)
         /\ \A x \in s : v[x] \in Int /\ w[x] \in Int /\ u[x] \in Int
         /\ TotalOf(v, s) \in Int /\ TotalOf(w, s) \in Int
  <2> SUFFICES ASSUME NEW s \in SUBSET S
               PROVE  /\ IsFiniteSet(s)
                      /\ \A x \in s : /\ v[x] \in Int /\ w[x] \in Int
                                       /\ u[x] \in Int
                      /\ TotalOf(v, s) \in Int /\ TotalOf(w, s) \in Int
    OBVIOUS
  <2>1. IsFiniteSet(s)
    BY FS_Subset
  <2>2. \A x \in s : v[x] \in Int /\ w[x] \in Int /\ u[x] \in Int
    OBVIOUS
  <2> QED BY <2>1, <2>2, TotalOfSums
<1>2. ASSUME NEW s \in SUBSET S, \A r \in SUBSET s : r # s => r \in T
      PROVE  s \in T
  <2>1. CASE s = {}
    <3>1. TotalOf(u, s) = 0 /\ TotalOf(v, s) = 0 /\ TotalOf(w, s) = 0
      BY <1>1, <2>1, TotalOfPick
    <3> QED BY <3>1
  <2>2. CASE s # {}
    <3> DEFINE c == Pick(s)
    <3>1. c \in s
      BY <2>2, PickIn
    <3>2. /\ TotalOf(u, s) = u[c] + TotalOf(u, s \ {c})
          /\ TotalOf(v, s) = v[c] + TotalOf(v, s \ {c})
          /\ TotalOf(w, s) = w[c] + TotalOf(w, s \ {c})
      BY <1>1, <2>2, TotalOfPick
    <3> HIDE DEF c
    <3>3. s \ {c} \in T
      BY <1>2, <3>1
    <3>4. /\ TotalOf(u, s \ {c}) = TotalOf(v, s \ {c}) + TotalOf(w, s \ {c})
          /\ TotalOf(v, s \ {c}) \in Int /\ TotalOf(w, s \ {c}) \in Int
          /\ u[c] = v[c] + w[c] /\ v[c] \in Int /\ w[c] \in Int
      BY <1>1, <3>1, <3>3
    <3> QED BY <3>2, <3>4
  <2> QED BY <2>1, <2>2
<1>3. S \in T
  <2> HIDE DEF T
  <2>1. SUBSET S \subseteq T
    BY <1>2, UpToSet
  <2> QED BY <2>1
<1> QED BY <1>3

-----------------------------------------------------------------------------
(* The balances.                                                           *)

\* What one transfer does to the accounts adds up to nothing.
LEMMA FlowNetsToZero ==
    ASSUME NEW A, IsFiniteSet(A), NEW x, x.from \in A, x.to \in A,
           x.value \in Int
    PROVE  TotalOf([a \in A |-> NetFlow(a, x)], A) = 0
<1> DEFINE v == [a \in A |-> NetFlow(a, x)]
<1>1. \A a \in A : v[a] \in Int
  BY DEF NetFlow
<1>2. CASE x.from = x.to
  <2>1. \A a \in A : v[a] = 0
    BY <1>2 DEF NetFlow
  <2> HIDE DEF v
  <2>2. TotalOf(v, A) = 0
    BY <2>1, TotalOfZeros
  <2> QED BY <2>2 DEF v
<1>3. CASE x.from # x.to
  <2> DEFINE B == A \ {x.to}
             C == B \ {x.from}
  <2>1. v[x.to] = x.value /\ v[x.from] = -x.value /\ \A a \in C : v[a] = 0
    BY <1>3 DEF NetFlow
  <2>2. IsFiniteSet(B) /\ B \subseteq A /\ IsFiniteSet(C) /\ x.from \in B
    BY <1>3, FS_Subset
  <2> HIDE DEF v
  <2>3. TotalOf(v, A) = v[x.to] + TotalOf(v, B)
    BY <1>1, TotalOfRemove
  <2>4. TotalOf(v, B) = v[x.from] + TotalOf(v, C)
    <3> HIDE DEF B
    <3> QED BY <1>1, <2>2, TotalOfRemove
  <2>5. TotalOf(v, C) = 0
    <3> HIDE DEF C
    <3> QED BY <2>1, <2>2, TotalOfZeros
  <2>6. TotalOf(v, A) = 0
    BY <2>1, <2>3, <2>4, <2>5
  <2> QED BY <2>6 DEF v
<1> QED BY <1>2, <1>3

\* One row more or less.
LEMMA BalanceOfRow ==
    ASSUME NEW rows, IsFiniteSet(rows), NEW a,
           \A x \in rows : x.value \in Int,
           NEW y \in rows
    PROVE  /\ BalanceDelta(a, rows) = NetFlow(a, y) + BalanceDelta(a, rows \ {y})
           /\ BalanceDelta(a, rows \ {y}) \in Int
           /\ NetFlow(a, y) \in Int
<1> DEFINE Of(r) == {x \in r : x.from = a \/ x.to = a}
           v == [x \in rows |-> NetFlow(a, x)]
<1>1. \A x \in rows : v[x] = NetFlow(a, x) /\ v[x] \in Int
  BY DEF NetFlow
<1>2. ASSUME NEW r \in SUBSET rows
      PROVE  /\ IsFiniteSet(Of(r)) /\ Of(r) \subseteq rows
             /\ BalanceDelta(a, r) = TotalOf(v, Of(r))
             /\ TotalOf(v, Of(r)) \in Int
  <2>1. IsFiniteSet(Of(r)) /\ Of(r) \subseteq rows
    BY FS_Subset
  <2>2. BalanceDelta(a, r) = MapThenSumSet(LAMBDA x : NetFlow(a, x), Of(r))
    BY DEF BalanceDelta
  <2> HIDE DEF v, Of
  <2>3. MapThenSumSet(LAMBDA x : NetFlow(a, x), Of(r)) = TotalOf(v, Of(r))
    BY <1>1, <2>1, SumOfFlows
  <2>4. TotalOf(v, Of(r)) \in Int
    BY <1>1, <2>1, TotalOfSums
  <2> QED BY <2>1, <2>2, <2>3, <2>4
<1>3. CASE y \in Of(rows)
  <2>1. Of(rows \ {y}) = Of(rows) \ {y}
    OBVIOUS
  <2> HIDE DEF v, Of
  <2>2. TotalOf(v, Of(rows)) = v[y] + TotalOf(v, Of(rows) \ {y})
    BY <1>1, <1>2, <1>3, TotalOfRemove
  <2> QED BY <1>1, <1>2, <2>1, <2>2
<1>4. CASE y \notin Of(rows)
  <2>1. Of(rows \ {y}) = Of(rows) /\ NetFlow(a, y) = 0
    BY <1>4 DEF NetFlow
  <2> HIDE DEF v, Of
  <2> QED BY <1>1, <1>2, <2>1
<1> QED BY <1>3, <1>4

\* The balance of an account without rows.
LEMMA BalanceOfNone == \A a : BalanceDelta(a, {}) = 0
<1> SUFFICES ASSUME NEW a PROVE BalanceDelta(a, {}) = 0
  OBVIOUS
<1> DEFINE none == {}
<1>1. BalanceDelta(a, {}) = MapThenSumSet(LAMBDA x : NetFlow(a, x), none)
  <2>1. {x \in {} : x.from = a \/ x.to = a} = none
    OBVIOUS
  <2> QED BY <2>1 DEF BalanceDelta
<1>2. IsFiniteSet(none)
  BY FS_EmptySet
<1> DEFINE v == [x \in none |-> 0]
<1>3. MapThenSumSet(LAMBDA x : NetFlow(a, x), none) = TotalOf(v, none)
  <2>1. \A x \in none : v[x] = NetFlow(a, x) /\ v[x] \in Int
    OBVIOUS
  <2> HIDE DEF none, v
  <2> QED BY <1>2, <2>1, SumOfFlows
<1>4. TotalOf(v, none) = 0
  BY <1>2, TotalOfPick
<1> QED BY <1>1, <1>3, <1>4

\* A balance is an integer.
LEMMA BalanceIsInt ==
    ASSUME NEW rows, IsFiniteSet(rows), \A x \in rows : x.value \in Int, NEW a
    PROVE  BalanceDelta(a, rows) \in Int
<1>1. CASE rows = {}
  BY <1>1, BalanceOfNone
<1>2. CASE rows # {}
  <2>1. PICK y \in rows : TRUE
    BY <1>2
  <2>2. /\ BalanceDelta(a, rows) = NetFlow(a, y) + BalanceDelta(a, rows \ {y})
        /\ BalanceDelta(a, rows \ {y}) \in Int /\ NetFlow(a, y) \in Int
    BY BalanceOfRow
  <2> QED BY <2>2
<1> QED BY <1>1, <1>2

(***************************************************************************)
(* Over all accounts the balance deltas of any set of transfers between    *)
(* them add up to zero (routes.py, the two SUMs of balance_delta).         *)
(***************************************************************************)
THEOREM TransfersNetToZero ==
    ASSUME NEW A, IsFiniteSet(A), NEW rows, IsFiniteSet(rows),
           \A x \in rows : x.from \in A /\ x.to \in A /\ x.value \in Int
    PROVE  TotalOf([a \in A |-> BalanceDelta(a, rows)], A) = 0
<1> DEFINE b(r) == [a \in A |-> BalanceDelta(a, r)]
           T == {r \in SUBSET rows : TotalOf(b(r), A) = 0}
<1>1. ASSUME NEW r \in SUBSET rows, \A q \in SUBSET r : q # r => q \in T
      PROVE  r \in T
  <2>1. CASE r = {}
    <3>1. \A a \in A : b(r)[a] = 0
      BY <2>1, BalanceOfNone
    <3> HIDE DEF b
    <3>2. TotalOf(b(r), A) = 0
      BY <3>1, TotalOfZeros
    <3> QED BY <3>2
  <2>2. CASE r # {}
    <3>1. PICK y \in r : TRUE
      BY <2>2
    <3> DEFINE q == r \ {y}
               f == [a \in A |-> NetFlow(a, y)]
    <3>2. IsFiniteSet(r) /\ (\A x \in r : x.value \in Int) /\ q \in T
      BY <1>1, <3>1, FS_Subset
    <3>3. \A a \in A : /\ f[a] \in Int /\ b(q)[a] \in Int
                       /\ b(r)[a] = f[a] + b(q)[a]
      BY <3>1, <3>2, BalanceOfRow
    <3>4. TotalOf(f, A) = 0
      BY <3>1, FlowNetsToZero
    <3>5. TotalOf(b(q), A) = 0
      BY <3>2
    <3> HIDE DEF b, q, f
    <3>6. TotalOf(b(r), A) = TotalOf(f, A) + TotalOf(b(q), A)
      BY <3>3, TotalOfPlus
    <3> QED BY <3>4, <3>5, <3>6
  <2> QED BY <2>1, <2>2
<1>2. rows \in T
  <2> HIDE DEF T
  <2>1. SUBSET rows \subseteq T
    BY <1>1, UpToSet
  <2> QED BY <2>1
<1> QED BY <1>2

\* The answer to a query for balances.
LEMMA BalanceAnswer ==
    ASSUME QueryInv, Balanced
    PROVE  /\ IsFiniteSet(query.rows)
           /\ \A x \in query.rows :
                 x.from \in Accounts /\ x.to \in Accounts /\ x.value \in Int
           /\ answer = <<[a \in Accounts |-> BalanceDelta(a, query.rows)]>>
<1>1. query \in BalanceQueries
  BY QueryKinds DEF Balanced
<1>2. PICK x \in Payments, y \in Payments : query.rows = {x, y}
  BY <1>1 DEF BalanceQueries
<1>3. IsFiniteSet({x, y})
  <2>1. IsFiniteSet({x}) /\ {x} \cup {y} = {x, y}
    BY FS_Singleton
  <2>2. IsFiniteSet({x} \cup {y})
    BY <2>1, FS_AddElement
  <2> QED BY <2>1, <2>2
<1>4. \A z \in Payments :
         z.from \in Accounts /\ z.to \in Accounts /\ z.value \in Int
  BY DEF Payments
<1>5. answer = <<[a \in Accounts |-> BalanceDelta(a, query.rows)]>>
  BY DEF QueryInv, Balanced, Answered
<1> QED BY <1>2, <1>3, <1>4, <1>5

(***************************************************************************)
(* A transfer only moves value: whatever the accounts, the balance deltas  *)
(* over all of them add up to zero (routes.py, balance_delta).             *)
(***************************************************************************)
THEOREM BalancesNet == MCSpec => []BalancesNetToZero
<1>1. QueryInv => BalancesNetToZero
  <2> SUFFICES ASSUME QueryInv, Balanced
               PROVE  MapThenSumSet(LAMBDA a : answer[1][a], Accounts) = 0
    BY DEF BalancesNetToZero
  <2> DEFINE v == [a \in Accounts |-> BalanceDelta(a, query.rows)]
  <2>1. answer[1] = v
    BY BalanceAnswer
  <2>2. IsFiniteSet(Accounts)
    BY Bounds
  <2>3. TotalOf(v, Accounts) = 0
    BY <2>2, BalanceAnswer, TransfersNetToZero
  <2>4. \A a \in Accounts : v[a] \in Int
    BY BalanceAnswer, BalanceIsInt
  <2> HIDE DEF v
  <2>5. MapThenSumSet(LAMBDA a : answer[1][a], Accounts) =
          TotalOf(answer[1], Accounts)
    BY <2>1, <2>2, <2>4, SumOfFunction
  <2> QED BY <2>1, <2>3, <2>5
<1> QED BY <1>1, QueryInvariant, PTL

-----------------------------------------------------------------------------
(* Powers of ten, digits, and amounts.                                     *)

\* g holds the powers of ten up to N.
Powers(g, N) ==
    /\ g \in [0 .. N -> Nat \ {0}]
    /\ g[0] = 1 /\ \A i \in 1 .. N : g[i] = 10 * g[i - 1]

\* The powers of ten up to N exist.
LEMMA PowersExist == \A N \in Nat : \E g : Powers(g, N)
<1> SUFFICES ASSUME NEW N \in Nat PROVE \E g : Powers(g, N)
  OBVIOUS
<1> DEFINE V == Nat \ {0}
           step == [x \in V \X (1 .. N) |-> 10 * x[1]]
<1>1. step \in [V \X (1 .. N) -> V] /\ 1 \in V
  OBVIOUS
<1>2. \A x \in V, i \in 1 .. N : step[<<x, i>>] = 10 * x
  OBVIOUS
<1> HIDE DEF step
<1>3. PICK g \in [0 .. N -> V] : Loop(g, N, 1, step)
  <2> HIDE DEF V
  <2> QED BY <1>1, LoopExists
<1>4. ASSUME NEW i \in 1 .. N PROVE g[i] = 10 * g[i - 1]
  <2>1. i - 1 \in 0 .. N
    OBVIOUS
  <2>2. g[i - 1] \in V
    BY <2>1
  <2> QED BY <1>2, <1>3, <2>2 DEF Loop
<1>5. Powers(g, N)
  BY <1>3, <1>4 DEF Powers, Loop
<1> QED BY <1>5

\* They do not depend on where one stops.
LEMMA PowersAgree ==
    ASSUME NEW N \in Nat, NEW g, NEW h, Powers(g, N), Powers(h, N + 1)
    PROVE  \A i \in 0 .. N : g[i] = h[i]
<1> DEFINE T == {i \in 0 .. N : g[i] = h[i]}
<1>1. 0 \in T
  BY DEF Powers
<1>2. ASSUME NEW i \in 1 .. N, i - 1 \in T PROVE i \in T
  <2>1. i \in 1 .. N + 1 /\ i \in 0 .. N
    OBVIOUS
  <2>2. g[i] = 10 * g[i - 1] /\ h[i] = 10 * h[i - 1]
    BY <2>1 DEF Powers
  <2> QED BY <1>2, <2>1, <2>2
<1>3. 0 .. N \subseteq T
  <2> HIDE DEF T
  <2> QED BY <1>1, <1>2, UpTo
<1> QED BY <1>3

(***************************************************************************)
(* Pow10 is what its definition says: the recursive function exists, and   *)
(* its values are the powers of ten.                                       *)
(***************************************************************************)
LEMMA Pow10Steps ==
    /\ Pow10[0] = 1
    /\ \A n \in Nat : /\ Pow10[n] \in Nat \ {0}
                      /\ Pow10[n + 1] = 10 * Pow10[n]
<1> DEFINE Eq(g) == g = [n \in Nat |-> IF n = 0 THEN 1 ELSE 10 * g[n - 1]]
           upTo == [n \in Nat |-> CHOOSE g : Powers(g, n)]
           h == [n \in Nat |-> upTo[n][n]]
<1>1. \A n \in Nat : Powers(upTo[n], n)
  BY PowersExist
<1> HIDE DEF upTo
<1>2. \A n \in Nat : h[n] \in Nat \ {0}
  BY <1>1 DEF Powers
<1>3. h[0] = 1
  BY <1>1 DEF Powers
<1>4. ASSUME NEW n \in Nat PROVE h[n + 1] = 10 * h[n]
  <2>1. Powers(upTo[n], n) /\ Powers(upTo[n + 1], n + 1)
    BY <1>1
  <2>2. \A i \in 0 .. n : upTo[n][i] = upTo[n + 1][i]
    BY <2>1, PowersAgree
  <2>3. n \in 0 .. n /\ n + 1 \in 1 .. n + 1 /\ (n + 1) - 1 = n
    OBVIOUS
  <2>4. upTo[n + 1][n + 1] = 10 * upTo[n + 1][n]
    BY <2>1, <2>3 DEF Powers
  <2> QED BY <2>2, <2>3, <2>4
<1>5. Eq(h)
  <2>1. ASSUME NEW n \in Nat
        PROVE  h[n] = IF n = 0 THEN 1 ELSE 10 * h[n - 1]
    <3>1. CASE n = 0
      BY <1>3, <3>1
    <3>2. CASE n # 0
      <4>1. n - 1 \in Nat /\ (n - 1) + 1 = n
        BY <3>2
      <4>2. h[(n - 1) + 1] = 10 * h[n - 1]
        BY <1>4, <4>1
      <4> HIDE DEF h
      <4> QED BY <3>2, <4>1, <4>2
    <3> HIDE DEF h
    <3> QED BY <3>1, <3>2
  <2>2. h = [n \in Nat |-> h[n]]
    OBVIOUS
  <2> HIDE DEF h
  <2>3. [n \in Nat |-> h[n]]
          = [n \in Nat |-> IF n = 0 THEN 1 ELSE 10 * h[n - 1]]
    BY <2>1
  <2> QED BY <2>2, <2>3
<1>6. Eq(Pow10)
  <2>1. Pow10 = CHOOSE g : Eq(g)
    BY DEF Pow10
  <2> HIDE DEF Eq, h
  <2> QED BY <1>5, <2>1
<1>7. \A n \in Nat : Pow10[n] = IF n = 0 THEN 1 ELSE 10 * Pow10[n - 1]
  BY <1>6
<1>8. Pow10[0] = 1 /\ \A n \in Nat : Pow10[n + 1] = 10 * Pow10[n]
  <2>1. Pow10[0] = 1
    BY <1>7
  <2>2. ASSUME NEW n \in Nat PROVE Pow10[n + 1] = 10 * Pow10[n]
    <3>1. n + 1 \in Nat /\ n + 1 # 0 /\ (n + 1) - 1 = n
      OBVIOUS
    <3> QED BY <1>7, <3>1
  <2> QED BY <2>1, <2>2
<1>9. ASSUME NEW n \in Nat PROVE Pow10[n] \in Nat \ {0}
  <2> DEFINE T == {i \in 0 .. n : Pow10[i] \in Nat \ {0}}
  <2>1. 0 \in T
    BY <1>8
  <2>2. ASSUME NEW i \in 1 .. n, i - 1 \in T PROVE i \in T
    <3>1. i - 1 \in Nat /\ (i - 1) + 1 = i
      OBVIOUS
    <3>2. Pow10[i] = 10 * Pow10[i - 1]
      BY <1>8, <3>1
    <3> QED BY <2>2, <3>2
  <2>3. 0 .. n \subseteq T
    <3> HIDE DEF T
    <3> QED BY <2>1, <2>2, UpTo
  <2> QED BY <2>3
<1> QED BY <1>8, <1>9

\* Only one multiple of p is at most n and less than p away from it.
LEMMA QuotientUnique ==
    ASSUME NEW n \in Nat, NEW p \in Nat \ {0}, NEW q \in Int,
           q * p <= n, n < q * p + p
    PROVE  n \div p = q
<1> DEFINE k == n \div p
<1>1. k \in Int /\ k * p <= n /\ n < k * p + p
  BY DivBounds
<1> HIDE DEF k
<1>2. (k + 1) * p = k * p + p /\ (q + 1) * p = q * p + p
  BY <1>1, TimesMonotone
<1>3. k * p < (q + 1) * p /\ q * p < (k + 1) * p
  <2>1. k * p \in Int /\ q * p \in Int
    BY <1>1
  <2> QED BY <1>1, <1>2, <2>1
<1>4. k < q + 1 /\ q < k + 1
  BY <1>1, <1>3, TimesMonotone
<1>5. k = q
  BY <1>1, <1>4
<1> QED BY <1>5 DEF k

\* One more digit: dividing by p is ten times dividing by 10 p, and a digit.
LEMMA OneMoreDigit ==
    ASSUME NEW n \in Nat, NEW p \in Nat \ {0}
    PROVE  n \div p = 10 * (n \div (10 * p)) + ((n \div p) % 10)
<1> DEFINE m == n \div p
           q == m \div 10
<1>1. m \in Int /\ m * p <= n /\ n < m * p + p
  BY DivBounds
<1>2. m \in Nat
  <2>1. 0 < (m + 1) * p /\ 0 * p = 0
    <3>1. (m + 1) * p = m * p + p /\ m * p \in Int
      BY <1>1, TimesMonotone
    <3> HIDE DEF m
    <3> QED BY <1>1, <3>1
  <2> HIDE DEF m
  <2>2. 0 < m + 1
    BY <1>1, <2>1, TimesMonotone
  <2> QED BY <1>1, <2>2
<1>3. m = 10 * q + (m % 10) /\ m % 10 \in 0 .. 9 /\ q \in Int
  <2> HIDE DEF m
  <2> QED BY <1>2
<1> HIDE DEF m, q
<1>4. n \div (10 * p) = q
  <2>1. 10 * q <= m /\ m + 1 <= 10 * q + 10
    BY <1>2, <1>3
  <2>2. (10 * q) * p <= m * p /\ (m + 1) * p <= (10 * q + 10) * p
    BY <1>2, <1>3, <2>1, TimesMonotone
  <2>3. /\ (10 * q) * p = q * (10 * p)
        /\ (10 * q + 10) * p = q * (10 * p) + 10 * p
        /\ (m + 1) * p = m * p + p
        /\ q * (10 * p) \in Int /\ m * p \in Int
    BY <1>2, <1>3, SMTT(30)
  <2>4. 10 * p \in Nat \ {0}
    OBVIOUS
  <2> DEFINE r == 10 * p
  <2>5. q * r <= n /\ n < q * r + r
    BY <1>1, <2>2, <2>3
  <2> HIDE DEF r
  <2>6. n \div r = q
    BY <1>3, <2>4, <2>5, QuotientUnique DEF r
  <2> QED BY <2>6 DEF r
<1>5. n \div p = 10 * q + ((n \div p) % 10)
  BY <1>3 DEF m
<1> QED BY <1>4, <1>5

\* The largest index of a prefix is its last.
LEMMA LastIndex ==
    ASSUME NEW i \in Nat \ {0}
    PROVE  Max(1 .. i) = i /\ (1 .. i) \ {i} = 1 .. i - 1
<1>1. \A x \in 1 .. i : (\A y \in 1 .. i : x >= y) => x = i
  OBVIOUS
<1>2. i \in 1 .. i /\ \A y \in 1 .. i : i >= y
  OBVIOUS
<1>3. Max(1 .. i) = i
  <2> DEFINE S == 1 .. i
  <2>1. \A x \in S : (\A y \in S : x >= y) => x = i
    BY <1>1
  <2>2. \E x \in S : \A y \in S : x >= y
    BY <1>2
  <2>3. Max(S) \in S /\ \A y \in S : Max(S) >= y
    <3> HIDE DEF S
    <3> QED BY <2>2 DEF Max
  <2> HIDE DEF S
  <2> QED BY <2>1, <2>3 DEF S
<1> QED BY <1>3

\* A set of indices has a largest one.
LEMMA MaxOfBounded ==
    ASSUME NEW n \in Nat, NEW s \in SUBSET (1 .. n), s # {}
    PROVE  Max(s) \in s
<1> DEFINE T == {i \in 0 .. n : \A r \in SUBSET (1 .. i) : r # {} =>
                    \E x \in r : \A y \in r : x >= y}
<1>1. 0 \in T
  <2>1. 1 .. 0 = {}
    OBVIOUS
  <2>2. \A r \in SUBSET (1 .. 0) :
           r # {} => \E x \in r : \A y \in r : x >= y
    BY <2>1
  <2>3. 0 \in 0 .. n
    OBVIOUS
  <2> QED BY <2>2, <2>3
<1>2. ASSUME NEW i \in 1 .. n, i - 1 \in T PROVE i \in T
  <2> SUFFICES ASSUME NEW r \in SUBSET (1 .. i), r # {}
               PROVE  \E x \in r : \A y \in r : x >= y
    OBVIOUS
  <2>1. CASE i \in r
    BY <2>1
  <2>2. CASE i \notin r
    <3>1. r \in SUBSET (1 .. i - 1)
      BY <2>2
    <3> QED BY <1>2, <3>1
  <2> QED BY <2>1, <2>2
<1>3. 0 .. n \subseteq T
  <2> HIDE DEF T
  <2> QED BY <1>1, <1>2, UpTo
<1>4. n \in T
  <2> HIDE DEF T
  <2> QED BY <1>3
<1>5. \E x \in s : \A y \in s : x >= y
  BY <1>4
<1> QED BY <1>5 DEF Max

(***************************************************************************)
(* Folding the digits of n together gives n back: digits that are as many  *)
(* as the number needs lose nothing (schemas.py, format 0{decimals}d).     *)
(***************************************************************************)
LEMMA DigitsFoldBack ==
    ASSUME NEW width \in Nat, NEW n \in Nat, n < Pow10[width]
    PROVE  /\ Padded(n, width) \in Seq(0 .. 9) /\ Len(Padded(n, width)) = width
           /\ FoldLeft(LAMBDA k, d : 10 * k + d, 0, Padded(n, width)) = n
<1> DEFINE digits == Padded(n, width)
           D == 1 .. width
           Step(g, s) == IF s = {} THEN 0
                         ELSE 10 * g[s \ {Max(s)}] + digits[Max(s)]
           Eq(g) == g = [s \in SUBSET D |-> Step(g, s)]
           fold == CHOOSE g : Eq(g)
           Left(i) == n \div Pow10[width - i]
<1>1. /\ \A i \in D : digits[i] = Left(i) % 10
      /\ \A i \in 0 .. width : Pow10[width - i] \in Nat \ {0}
  BY Pow10Steps DEF Padded
<1>2. \A i \in 0 .. width : Left(i) \in Nat
  <2> SUFFICES ASSUME NEW i \in 0 .. width PROVE Left(i) \in Nat
    OBVIOUS
  <2>1. PICK p \in Nat \ {0} : p = Pow10[width - i]
    BY <1>1
  <2>2. n \div p \in Nat
    OBVIOUS
  <2> QED BY <2>1, <2>2
<1>3. Left(0) = 0 /\ Left(width) = n
  <2>1. PICK p \in Nat \ {0} : p = Pow10[width]
    BY Pow10Steps
  <2>2. 0 * p <= n /\ n < 0 * p + p
    BY <2>1
  <2>3. n \div p = 0
    BY <2>2, QuotientUnique
  <2>4. n \div 1 = n
    BY QuotientUnique
  <2>5. width - 0 = width /\ width - width = 0
    OBVIOUS
  <2> QED BY <2>1, <2>3, <2>4, <2>5, Pow10Steps
<1>4. \A i \in D : Left(i) = 10 * Left(i - 1) + digits[i]
  <2> SUFFICES ASSUME NEW i \in D
               PROVE  Left(i) = 10 * Left(i - 1) + digits[i]
    OBVIOUS
  <2>1. PICK p \in Nat \ {0} : p = Pow10[width - i]
    BY <1>1
  <2>2. width - i \in Nat /\ (width - i) + 1 = width - (i - 1)
    OBVIOUS
  <2>3. Pow10[width - (i - 1)] = 10 * p
    BY <2>1, <2>2, Pow10Steps
  <2>4. n \div p = 10 * (n \div (10 * p)) + ((n \div p) % 10)
    BY OneMoreDigit
  <2> HIDE DEF digits
  <2> QED BY <1>1, <2>1, <2>3, <2>4
<1>5. digits \in Seq(0 .. 9) /\ Len(digits) = width /\ DOMAIN digits = D
  <2>1. \A i \in D : digits[i] \in 0 .. 9
    <3> SUFFICES ASSUME NEW i \in D PROVE digits[i] \in 0 .. 9
      OBVIOUS
    <3>1. PICK m \in Nat : m = Left(i)
      BY <1>2
    <3>2. m % 10 \in 0 .. 9
      OBVIOUS
    <3> HIDE DEF digits, Left
    <3> QED BY <1>1, <3>1, <3>2
  <2>2. digits = [i \in D |-> digits[i]]
    BY DEF Padded
  <2> HIDE DEF digits
  <2>3. digits \in [1 .. width -> 0 .. 9]
    BY <2>1, <2>2
  <2> QED BY <2>3
<1> HIDE DEF digits
<1>6. FoldLeft(LAMBDA k, d : 10 * k + d, 0, digits) = fold[D]
  BY <1>5 DEF FoldLeft, MapThenFoldSet
<1>7. \A s \in SUBSET D : s # {} => Max(s) \in s
  BY MaxOfBounded
<1>8. Eq(fold)
  <2> DEFINE c == [s \in SUBSET D |-> Max(s)]
             f == [x \in Int \X D |-> 10 * x[1] + digits[x[2]]]
  <2>1. /\ \A s \in SUBSET D : c[s] = Max(s) /\ (s # {} => c[s] \in s)
        /\ f \in [Int \X D -> Int]
        /\ \A k \in Int, x \in D : f[<<k, x>>] = 10 * k + digits[x]
    <3>1. \A x \in D : digits[x] \in Int
      BY <1>5
    <3> QED BY <1>7, <3>1
  <2>2. IsFiniteSet(D)
    BY FS_Interval
  <2> HIDE DEF c, f
  <2> DEFINE V == Int
             zero == 0
  <2>3. PICK g \in [SUBSET D -> V] :
           \A s \in SUBSET D : g[s] = FoldStep(g, zero, f, c, s)
    <3>1. f \in [V \X D -> V] /\ zero \in V
      BY <2>1
    <3> HIDE DEF V, zero, D
    <3>2. Foldable(D, V, zero, f, c)
      BY <2>1, <2>2, <3>1, FoldsExist
    <3> QED BY <3>2 DEF Foldable
  <2> HIDE DEF D
  <2>4. ASSUME NEW s \in SUBSET D PROVE g[s] = Step(g, s)
    <3>1. CASE s = {}
      BY <2>3, <3>1 DEF FoldStep
    <3>2. CASE s # {}
      <4>1. c[s] \in D /\ g[s \ {c[s]}] \in Int /\ c[s] = Max(s)
        BY <2>1, <3>2
      <4>2. g[s] = f[<<g[s \ {c[s]}], c[s]>>]
        BY <2>3, <3>2 DEF FoldStep
      <4>3. f[<<g[s \ {c[s]}], c[s]>>] = 10 * g[s \ {c[s]}] + digits[c[s]]
        BY <2>1, <4>1
      <4> QED BY <3>2, <4>1, <4>2, <4>3
    <3> QED BY <3>1, <3>2
  <2>5. g = [s \in SUBSET D |-> g[s]]
    BY <2>3
  <2>6. Eq(g)
    <3> HIDE DEF Step
    <3>1. [s \in SUBSET D |-> g[s]] = [s \in SUBSET D |-> Step(g, s)]
      BY <2>4
    <3> QED BY <2>5, <3>1
  <2> HIDE DEF Eq
  <2> QED BY <2>6
<1>9. \A s \in SUBSET D : fold[s] = Step(fold, s)
  <2> HIDE DEF fold, Step
  <2> QED BY <1>8
<1> DEFINE T == {i \in 0 .. width : fold[1 .. i] = Left(i)}
<1> HIDE DEF fold, Left
<1>10. 0 \in T
  <2> DEFINE none == 1 .. 0
  <2>1. none = {} /\ none \in SUBSET D
    OBVIOUS
  <2>2. fold[none] = 0
    <3> HIDE DEF none, D
    <3> QED BY <1>9, <2>1
  <2> QED BY <1>3, <2>2
<1>11. ASSUME NEW i \in 1 .. width, i - 1 \in T PROVE i \in T
  <2>1. 1 .. i \in SUBSET D /\ 1 .. i # {} /\ i \in D
    OBVIOUS
  <2>2. Max(1 .. i) = i /\ (1 .. i) \ {i} = 1 .. i - 1
    BY LastIndex
  <2>3. fold[1 .. i] = 10 * fold[1 .. i - 1] + digits[i]
    BY <1>9, <2>1, <2>2
  <2>4. fold[1 .. i - 1] = Left(i - 1)
    BY <1>11
  <2> QED BY <1>4, <2>1, <2>3, <2>4
<1>12. fold[D] = n
  <2>1. 0 .. width \subseteq T
    <3> HIDE DEF T
    <3> QED BY <1>10, <1>11, UpTo
  <2>2. width \in T
    BY <2>1
  <2> QED BY <1>3, <2>2
<1> QED BY <1>5, <1>6, <1>12 DEF digits

\* What divmod of the size of an amount gives.
LEMMA DivmodParts ==
    ASSUME NEW raw \in Int, NEW p \in Nat \ {0}
    PROVE  \E whole, frac \in Nat :
              /\ Divmod(raw, p) = [neg |-> raw < 0, whole |-> whole,
                                   frac |-> frac]
              /\ frac < p
              /\ raw = IF raw < 0 THEN -(whole * p + frac)
                       ELSE whole * p + frac
<1> DEFINE abs == IF raw < 0 THEN -raw ELSE raw
           w == abs \div p
           r == abs % p
<1>1. abs \in Nat
  OBVIOUS
<1>2. w \in Int /\ w * p <= abs /\ abs < w * p + p
  BY <1>1, DivBounds
<1>3. Divmod(raw, p) = [neg |-> raw < 0, whole |-> w, frac |-> r]
  BY DEF Divmod
<1>4. r \in Nat /\ r < p /\ abs = w * p + r
  <2> HIDE DEF abs
  <2>1. abs % p \in 0 .. p - 1
    BY <1>1
  <2>2. abs = p * (abs \div p) + (abs % p)
    BY <1>1, SMTT(30)
  <2>3. p * (abs \div p) = (abs \div p) * p
    BY <1>2
  <2> QED BY <2>1, <2>2, <2>3
<1>5. w \in Nat
  <2> HIDE DEF abs, w, r
  <2>1. (w + 1) * p = w * p + p /\ 0 * p = 0
    BY <1>2, TimesMonotone
  <2>2. 0 * p < (w + 1) * p
    BY <1>1, <1>2, <2>1
  <2>3. 0 < w + 1
    BY <1>2, <2>2, TimesMonotone
  <2> QED BY <1>2, <2>3
<1>6. raw = IF raw < 0 THEN -abs ELSE abs
  OBVIOUS
<1> HIDE DEF abs, w, r
<1> QED BY <1>3, <1>4, <1>5, <1>6

(***************************************************************************)
(* The amounts of the API lose nothing, whatever the amount and however    *)
(* many decimals the token has (schemas.py, format_value_decimal).         *)
(***************************************************************************)
THEOREM AmountsAreExact == MCSpec => []AmountExact
<1>1. QueryInv => AmountExact
  <2> SUFFICES ASSUME QueryInv, Formatted PROVE AmountExact
    BY DEF AmountExact
  <2> DEFINE raw == query.raw
             decimals == query.decimals
             v == answer[1]
             frac == FoldLeft(LAMBDA n, d : 10 * n + d, 0, v.digits)
  <2>1. raw \in Int /\ decimals \in Nat
    <3>1. query \in AmountQueries
      BY QueryKinds DEF Formatted
    <3> QED BY <3>1, Bounds DEF AmountQueries
  <2>2. v = FormatValue(raw, decimals)
    BY DEF QueryInv, Formatted, Answered
  <2>3. PICK p \in Nat \ {0} : p = Pow10[decimals]
    BY <2>1, Pow10Steps
  <2>4. PICK whole \in Nat, rest \in Nat :
          /\ Divmod(raw, p) = [neg |-> raw < 0, whole |-> whole,
                               frac |-> rest]
          /\ rest < p
          /\ raw = IF raw < 0 THEN -(whole * p + rest) ELSE whole * p + rest
    <3> HIDE DEF raw
    <3> QED BY <2>1, DivmodParts
  <2>5. /\ v.neg = (raw < 0) /\ v.whole = whole
        /\ v.digits = Padded(rest, decimals)
    BY <2>2, <2>3, <2>4 DEF FormatValue
  <2> HIDE DEF raw, decimals, v
  <2>6. Len(v.digits) = decimals /\ frac = rest
    <3>1. rest < Pow10[decimals]
      BY <2>3, <2>4
    <3>2. /\ Len(Padded(rest, decimals)) = decimals
          /\ FoldLeft(LAMBDA n, d : 10 * n + d, 0, Padded(rest, decimals)) = rest
      BY <2>1, <3>1, DigitsFoldBack
    <3> QED BY <2>5, <3>2
  <2> HIDE DEF frac
  <2>7. /\ raw = IF v.neg THEN -(v.whole * p + frac) ELSE v.whole * p + frac
        /\ v.whole >= 0
    <3>1. raw = IF v.neg THEN -(whole * p + rest) ELSE whole * p + rest
      <4>1. CASE raw < 0
        BY <2>4, <2>5, <4>1
      <4>2. CASE ~(raw < 0)
        BY <2>4, <2>5, <4>2
      <4> QED BY <4>1, <4>2
    <3>2. whole >= 0
      OBVIOUS
    <3> QED BY <2>5, <2>6, <3>1, <3>2, Zenon
  <2>8. /\ raw = IF v.neg THEN -(v.whole * Pow10[decimals] + frac)
                 ELSE v.whole * Pow10[decimals] + frac
        /\ v.whole >= 0
    BY <2>3, <2>7
  <2> QED BY <2>6, <2>8 DEF AmountExact, frac, raw, decimals, v
<1> QED BY <1>1, QueryInvariant, PTL

=============================================================================
