--------------------------- MODULE ServiceProofs ---------------------------
(***************************************************************************)
(* Proofs about two methods of IndexerService that are models of their     *)
(* own: the requests of one fetch_range (Requests) and the calls of        *)
(* ensure_token (TokenRegistry).                                           *)
(***************************************************************************)
EXTENDS Requests, TokenRegistry, FiniteSetTheorems, TLAPS

-----------------------------------------------------------------------------
(* fetch_range.                                                            *)

BlockRange == {r \in [from : 1 .. Size, to : 1 .. Size] : r.from <= r.to}

\* The open ranges share no block.
TodoInv ==
    /\ IsFiniteSet(todo) /\ todo \subseteq BlockRange
    /\ \A r, s \in todo : r = s \/ r.to < s.from \/ s.to < r.from

\* No refused range lies within one that is still to be requested.
RefusedInv ==
    /\ refused \subseteq BlockRange
    /\ \A q \in refused, r \in todo : ~(r.from <= q.from /\ q.to <= r.to)

\* What the blocks from p on may cost, when they are divided among the open
\* ranges: a range of n blocks has at most 2n - 1 nodes.
Nodes(p) == 2 * (Size - p + 1) - Cardinality(todo)

(***************************************************************************)
(* The recursion goes from left to right: the blocks below p have arrived, *)
(* the open ranges are the blocks from p on, and the attempts those may    *)
(* still cost are within the bound.                                        *)
(***************************************************************************)
At(p) ==
    /\ received = 1 .. p - 1
    /\ \A b \in p .. Size : \E r \in todo : r.from <= b /\ b <= r.to
    /\ \A r \in todo : p <= r.from
    /\ p <= Size
    /\ sent + MaxAttempts * Nodes(p) <= SentBound + attempts

FetchInv ==
    /\ state \in {"running", "returned", "raised"}
    /\ attempts \in 0 .. MaxAttempts - 1
    /\ sent \in Nat
    /\ TodoInv
    /\ RefusedInv
    /\ state = "running" => \E p \in 1 .. Size : At(p)
    /\ ReturnsComplete
    /\ RequestsBounded
    /\ state # "running" => todo = {}

\* The initial state satisfies the invariant.
LEMMA FetchBegins == RequestsInit => FetchInv
<1> SUFFICES ASSUME RequestsInit PROVE FetchInv
  OBVIOUS
<1> USE RequestConstants DEF RequestsInit
<1>1. Whole \in BlockRange /\ Whole.from = 1 /\ Whole.to = Size
  BY DEF Whole, BlockRange
<1>2. IsFiniteSet(todo) /\ Cardinality(todo) = 1
  BY FS_Singleton
<1>3. TodoInv
  BY <1>1, <1>2 DEF TodoInv
<1>4. RefusedInv
  BY DEF RefusedInv
<1>5. At(1)
  <2>1. Nodes(1) = 2 * Size - 1
    BY <1>2 DEF Nodes
  <2> QED BY <1>1, <2>1 DEF At, SentBound
<1>6. RequestsBounded
  <2>1. 2 * Size - 1 \in Nat /\ MaxAttempts \in Nat
    OBVIOUS
  <2>2. \A x, y \in Nat : 0 <= x * y
    OBVIOUS
  <2> QED BY <2>1, <2>2 DEF RequestsBounded, SentBound
<1> QED BY <1>3, <1>4, <1>5, <1>6 DEF FetchInv, ReturnsComplete

\* Both halves of a range of two or more blocks.
LEMMA SplitRangeHalves ==
    ASSUME NEW r \in BlockRange, r.from < r.to
    PROVE  \E lo, hi \in BlockRange :
              /\ SplitRange(r) = {lo, hi}
              /\ lo.from = r.from /\ lo.to + 1 = hi.from /\ hi.to = r.to
<1> DEFINE mid == (r.from + r.to) \div 2
           lo == [from |-> r.from, to |-> mid]
           hi == [from |-> mid + 1, to |-> r.to]
<1>1. r.from \in 1 .. Size /\ r.to \in 1 .. Size
  BY DEF BlockRange
<1>2. mid \in Int /\ r.from <= mid /\ mid < r.to
  BY <1>1
<1>3. SplitRange(r) = {lo, hi}
  BY DEF SplitRange
<1> HIDE DEF mid
<1>4. lo \in BlockRange /\ hi \in BlockRange
  BY <1>1, <1>2, RequestConstants DEF BlockRange
<1> QED BY <1>2, <1>3, <1>4

\* Ranges that share no block are no more than the blocks there are.
LEMMA OpenAtMost ==
    ASSUME TodoInv, NEW p \in 1 .. Size, \A r \in todo : p <= r.from
    PROVE  Cardinality(todo) <= Size - p + 1
<1> DEFINE f == [r \in todo |-> r.from]
<1>1. p \in Int /\ Size \in Int
  BY RequestConstants
<1>2. \A r \in todo : r.from \in p .. Size /\ r.from <= r.to
                      /\ r.to \in Int
  BY <1>1 DEF TodoInv, BlockRange
<1>3. \A r, s \in todo : r.from = s.from => r = s
  BY <1>2 DEF TodoInv
<1>4. f \in Injection(todo, p .. Size)
  BY <1>2, <1>3 DEF Injection, IsInjective
<1>5. /\ IsFiniteSet(p .. Size)
      /\ Cardinality(p .. Size) = IF p > Size THEN 0 ELSE Size - p + 1
  BY <1>1, FS_Interval
<1>6. Cardinality(todo) <= Cardinality(p .. Size)
  BY <1>4, <1>5, FS_Injection
<1> QED BY <1>1, <1>5, <1>6

\* Multiples of the number of attempts.
LEMMA TimesAttempts ==
    ASSUME NEW x \in Int, NEW y \in Int
    PROVE  /\ MaxAttempts * x \in Int
           /\ x < y => MaxAttempts * x <= MaxAttempts * y - MaxAttempts
           /\ 1 <= x => MaxAttempts <= MaxAttempts * x
<1>1. MaxAttempts \in Nat \ {0}
  BY RequestConstants
<1>2. x < y => MaxAttempts * x <= MaxAttempts * (y - 1)
  BY <1>1
<1>3. MaxAttempts * (y - 1) = MaxAttempts * y - MaxAttempts
  BY <1>1
<1>4. 1 <= x => MaxAttempts * 1 <= MaxAttempts * x
  BY <1>1
<1> QED BY <1>1, <1>2, <1>3, <1>4

\* While a range is open there is an attempt left, and the request counts.
LEMMA OneMoreRequest ==
    ASSUME FetchInv, state = "running", NEW p \in 1 .. Size, At(p)
    PROVE  /\ Cardinality(todo) \in Nat /\ Nodes(p) \in Int
           /\ Nodes(p) >= 1 /\ SentBound \in Int
           /\ sent + 1 <= SentBound
           /\ Count => sent' = sent + 1
<1>1. /\ MaxAttempts \in Nat \ {0} /\ Size \in Nat \ {0}
      /\ sent \in Nat /\ attempts \in Nat /\ attempts <= MaxAttempts - 1
      /\ TodoInv /\ p \in Int /\ p <= Size
  BY RequestConstants DEF FetchInv
<1>2. Cardinality(todo) \in Nat
  BY <1>1, FS_CardinalityType DEF TodoInv
<1>3. Cardinality(todo) <= Size - p + 1
  BY <1>1, OpenAtMost DEF At
<1>4. Nodes(p) \in Int /\ Nodes(p) >= 1
  BY <1>1, <1>2, <1>3 DEF Nodes
<1>5. SentBound \in Int
  <2>1. 2 * Size - 1 \in Int
    BY <1>1
  <2> QED BY <2>1, TimesAttempts DEF SentBound
<1>6. MaxAttempts * Nodes(p) \in Int /\ MaxAttempts <= MaxAttempts * Nodes(p)
  BY <1>4, TimesAttempts
<1>7. sent + MaxAttempts * Nodes(p) <= SentBound + attempts
  BY DEF At
<1>8. sent + 1 <= SentBound
  BY <1>1, <1>5, <1>6, <1>7
<1> QED BY <1>1, <1>2, <1>4, <1>5, <1>8 DEF Count

\* A step that spends a node of the tree pays for its attempts.
LEMMA NodeSpent ==
    ASSUME FetchInv, state = "running", NEW p \in 1 .. Size, At(p),
           NEW x \in Int, x < Nodes(p)
    PROVE  sent + 1 + MaxAttempts * x <= SentBound
<1>1. /\ sent \in Int /\ attempts \in Int /\ attempts <= MaxAttempts - 1
      /\ MaxAttempts \in Int
  BY RequestConstants DEF FetchInv
<1>2. /\ Nodes(p) \in Int /\ SentBound \in Int
  BY OneMoreRequest
<1>3. /\ MaxAttempts * x \in Int /\ MaxAttempts * Nodes(p) \in Int
      /\ MaxAttempts * x <= MaxAttempts * Nodes(p) - MaxAttempts
  BY <1>2, TimesAttempts
<1>4. sent + MaxAttempts * Nodes(p) <= SentBound + attempts
  BY DEF At
<1> QED BY <1>1, <1>2, <1>3, <1>4

\* The range that is requested starts at the first block not yet received.
LEMMA CurrentIsNext ==
    ASSUME FetchInv, NEW p \in 1 .. Size, At(p), NEW r, Current(r)
    PROVE  /\ r \in todo /\ r \in BlockRange /\ r.from = p
           /\ r.from \in Int /\ r.to \in Int /\ r.from <= r.to /\ r.to <= Size
           /\ \A s \in todo : /\ s \in BlockRange /\ s.from \in Int /\ s.to \in Int
                              /\ s.from <= s.to /\ s.to <= Size
                              /\ s = r \/ r.to < s.from
<1>1. /\ r \in todo /\ \A s \in todo : r.from <= s.from
      /\ TodoInv /\ Size \in Nat
  BY RequestConstants DEF Current, FetchInv
<1>2. \A s \in todo : /\ s \in BlockRange /\ s.from \in Int /\ s.to \in Int
                      /\ s.from <= s.to /\ s.to <= Size
  BY <1>1 DEF TodoInv, BlockRange
<1>3. PICK s \in todo : s.from <= p
  BY DEF At
<1>4. r.from = p
  BY <1>1, <1>2, <1>3 DEF At
<1> QED BY <1>1, <1>2, <1>4 DEF TodoInv

\* What an answered request leaves open.
LEMMA SucceedKeeps ==
    ASSUME FetchInv, state = "running", NEW r, Current(r), Succeed(r), Count
    PROVE  FetchInv'
<1>1. PICK p \in 1 .. Size : At(p)
  BY DEF FetchInv
<1>2. /\ r \in todo /\ r \in BlockRange /\ r.from = p
      /\ r.from \in Int /\ r.to \in Int /\ r.from <= r.to /\ r.to <= Size
      /\ \A s \in todo : /\ s \in BlockRange /\ s.from \in Int /\ s.to \in Int
                         /\ s.from <= s.to /\ s.to <= Size
                         /\ s = r \/ r.to < s.from
  BY <1>1, CurrentIsNext
<1>3. /\ Cardinality(todo) \in Nat /\ Nodes(p) \in Int /\ SentBound \in Int
      /\ sent + 1 <= SentBound /\ sent' = sent + 1
  BY <1>1, OneMoreRequest
<1>4. /\ todo' = todo \ {r} /\ attempts' = 0 /\ refused' = refused
      /\ received' = received \cup (r.from .. r.to)
      /\ state' = IF todo' = {} THEN "returned" ELSE "running"
      /\ sent \in Nat /\ TodoInv /\ RefusedInv /\ Size \in Nat \ {0}
      /\ MaxAttempts \in Nat \ {0}
  BY RequestConstants DEF Succeed, NewRequest, FetchInv
<1>5. /\ received = 1 .. p - 1
      /\ \A b \in p .. Size : \E s \in todo : s.from <= b /\ b <= s.to
  BY <1>1 DEF At
<1>6. received' = 1 .. r.to
  BY <1>2, <1>4, <1>5
<1>7. \A b \in r.to + 1 .. Size : \E s \in todo' : s.from <= b /\ b <= s.to
  <2> SUFFICES ASSUME NEW b \in r.to + 1 .. Size
               PROVE  \E s \in todo' : s.from <= b /\ b <= s.to
    OBVIOUS
  <2>1. b \in p .. Size
    BY <1>2
  <2>2. PICK s \in todo : s.from <= b /\ b <= s.to
    BY <1>5, <2>1
  <2>3. s # r
    BY <1>2, <2>2
  <2> QED BY <1>4, <2>2, <2>3
<1>8. TodoInv'
  <2>1. IsFiniteSet(todo')
    BY <1>4, FS_RemoveElement DEF TodoInv
  <2> QED BY <1>4, <2>1 DEF TodoInv, BlockRange
<1>9. RefusedInv'
  BY <1>4 DEF RefusedInv, BlockRange
<1>10. RequestsBounded'
  BY <1>3 DEF RequestsBounded, SentBound
<1>11. CASE todo' = {}
  <2>1. r.to = Size
    BY <1>2, <1>4, <1>7, <1>11
  <2>2. state' = "returned" /\ ReturnsComplete'
    BY <1>4, <1>6, <1>11, <2>1 DEF ReturnsComplete
  <2> QED BY <1>3, <1>4, <1>8, <1>9, <1>10, <1>11, <2>2 DEF FetchInv
<1>12. CASE todo' # {}
  <2> DEFINE q == r.to + 1
  <2>1. PICK s \in todo' : TRUE
    BY <1>12
  <2>2. q \in 1 .. Size
    BY <1>2, <1>4, <2>1
  <2>3. Cardinality(todo') = Cardinality(todo) - 1
    BY <1>2, <1>4, FS_RemoveElement DEF TodoInv
  <2> DEFINE x == 2 * (Size - q + 1) - (Cardinality(todo) - 1)
  <2>4. x \in Int /\ x < Nodes(p)
    BY <1>2, <1>3, <1>4 DEF Nodes
  <2>5. sent + 1 + MaxAttempts * x <= SentBound
    <3> HIDE DEF x
    <3> QED BY <1>1, <2>4, NodeSpent
  <2>6. At(q)'
    <3>1. Nodes(q)' = x
      BY <2>3 DEF Nodes
    <3>2. sent' + MaxAttempts * Nodes(q)' <= SentBound + attempts'
      <4> HIDE DEF x, q
      <4> QED BY <1>3, <1>4, <2>5, <3>1
    <3>3. \A t \in todo' : q <= t.from
      BY <1>2, <1>4
    <3>4. received' = 1 .. q - 1
      BY <1>2, <1>6
    <3>5. q <= Size
      BY <1>4, <2>2
    <3> QED BY <1>7, <3>2, <3>3, <3>4, <3>5 DEF At, SentBound
  <2>7. state' = "running" /\ ReturnsComplete'
    BY <1>4, <1>12 DEF ReturnsComplete
  <2> QED BY <1>3, <1>4, <1>8, <1>9, <1>10, <2>2, <2>6, <2>7 DEF FetchInv
<1> QED BY <1>11, <1>12

\* An attempt at the same range spends one attempt of its node.
LEMMA RetryKeeps ==
    ASSUME FetchInv, state = "running", AttemptsLeft, attempts' = attempts + 1,
           UNCHANGED <<state, todo, received, refused>>, Count
    PROVE  FetchInv'
<1>1. PICK p \in 1 .. Size : At(p)
  BY DEF FetchInv
<1>2. /\ Nodes(p) \in Int /\ SentBound \in Int
      /\ sent + 1 <= SentBound /\ sent' = sent + 1
  BY <1>1, OneMoreRequest
<1>3. /\ sent \in Nat /\ attempts \in Nat /\ attempts < MaxAttempts - 1
      /\ MaxAttempts \in Nat \ {0}
  BY RequestConstants DEF FetchInv, AttemptsLeft
<1>4. At(p)'
  <2>1. Nodes(p)' = Nodes(p) /\ MaxAttempts * Nodes(p) \in Int
    BY <1>2, TimesAttempts DEF Nodes
  <2>2. sent' + MaxAttempts * Nodes(p)' <= SentBound + attempts'
    BY <1>1, <1>2, <1>3, <2>1 DEF At
  <2> QED BY <1>1, <2>2 DEF At, SentBound
<1>5. RequestsBounded'
  BY <1>2 DEF RequestsBounded, SentBound
<1>6. TodoInv' /\ RefusedInv' /\ ReturnsComplete'
  BY DEF FetchInv, TodoInv, RefusedInv, ReturnsComplete, BlockRange
<1> QED BY <1>2, <1>3, <1>4, <1>5, <1>6 DEF FetchInv

\* A range that is split is replaced by its halves, and becomes a node.
LEMMA SplitKeeps ==
    ASSUME FetchInv, state = "running", NEW r, Current(r), r.from < r.to,
           todo' = (todo \ {r}) \cup SplitRange(r), attempts' = 0,
           refused' \in {refused, refused \cup {r}},
           UNCHANGED <<state, received>>, Count
    PROVE  FetchInv'
<1>1. PICK p \in 1 .. Size : At(p)
  BY DEF FetchInv
<1>2. /\ r \in todo /\ r \in BlockRange /\ r.from = p
      /\ r.from \in Int /\ r.to \in Int /\ r.from <= r.to /\ r.to <= Size
      /\ \A s \in todo : /\ s \in BlockRange /\ s.from \in Int /\ s.to \in Int
                         /\ s.from <= s.to /\ s.to <= Size
                         /\ s = r \/ r.to < s.from
  BY <1>1, CurrentIsNext
<1>3. PICK lo \in BlockRange, hi \in BlockRange :
        /\ SplitRange(r) = {lo, hi}
        /\ lo.from = r.from /\ lo.to + 1 = hi.from /\ hi.to = r.to
  BY <1>2, SplitRangeHalves
<1>4. /\ lo.from \in Int /\ lo.to \in Int /\ lo.from <= lo.to
      /\ hi.from \in Int /\ hi.to \in Int /\ hi.from <= hi.to
      /\ lo.from = p /\ lo.to + 1 = hi.from /\ hi.to = r.to /\ lo # hi
  BY <1>2, <1>3 DEF BlockRange
<1>5. todo' = (todo \ {r}) \cup {lo, hi}
  BY <1>3
<1>6. /\ Cardinality(todo) \in Nat /\ Nodes(p) \in Int /\ SentBound \in Int
      /\ sent + 1 <= SentBound /\ sent' = sent + 1
  BY <1>1, OneMoreRequest
<1>7. /\ sent \in Nat /\ TodoInv /\ RefusedInv
      /\ Size \in Nat \ {0} /\ MaxAttempts \in Nat \ {0}
  BY RequestConstants DEF FetchInv
<1>8. IsFiniteSet(todo') /\ Cardinality(todo') = Cardinality(todo) + 1
  <2> DEFINE rest == todo \ {r}
             one == rest \cup {lo}
  <2>1. IsFiniteSet(rest) /\ Cardinality(rest) = Cardinality(todo) - 1
    BY <1>2, <1>7, FS_RemoveElement DEF TodoInv
  <2>2. lo \notin rest /\ hi \notin rest
    BY <1>2, <1>4
  <2>3. IsFiniteSet(one) /\ Cardinality(one) = Cardinality(rest) + 1
    BY <2>1, <2>2, FS_AddElement
  <2>4. hi \notin one
    BY <1>4, <2>2
  <2>5. todo' = one \cup {hi}
    BY <1>5
  <2> HIDE DEF one, rest
  <2>6. /\ IsFiniteSet(one \cup {hi})
        /\ Cardinality(one \cup {hi}) = Cardinality(one) + 1
    BY <2>3, <2>4, FS_AddElement
  <2>7. IsFiniteSet(todo') /\ Cardinality(todo') = Cardinality(one) + 1
    BY <2>5, <2>6, Zenon
  <2> QED BY <1>6, <2>1, <2>3, <2>7
<1>9. TodoInv'
  <2>1. todo' \subseteq BlockRange
    BY <1>2, <1>5
  <2>2. \A s, t \in todo' : s = t \/ s.to < t.from \/ t.to < s.from
    <3> SUFFICES ASSUME NEW s \in todo', NEW t \in todo'
                 PROVE  s = t \/ s.to < t.from \/ t.to < s.from
      OBVIOUS
    <3>1. CASE s \in todo \ {r} /\ t \in todo \ {r}
      BY <1>7, <3>1 DEF TodoInv
    <3>2. CASE s \in {lo, hi} /\ t \in todo \ {r}
      BY <1>2, <1>4, <3>2
    <3>3. CASE s \in todo \ {r} /\ t \in {lo, hi}
      BY <1>2, <1>4, <3>3
    <3>4. CASE s \in {lo, hi} /\ t \in {lo, hi}
      BY <1>4, <3>4
    <3> QED BY <1>5, <3>1, <3>2, <3>3, <3>4
  <2> QED BY <1>8, <2>1, <2>2 DEF TodoInv, BlockRange
<1>10. RefusedInv'
  <2>1. refused' \subseteq BlockRange
    BY <1>2, <1>7 DEF RefusedInv
  <2>2. ASSUME NEW q \in refused', NEW t \in todo',
               t.from <= q.from, q.to <= t.to
        PROVE  FALSE
    <3>1. q.from \in Int /\ q.to \in Int /\ q.from <= q.to
      BY <1>7, <2>1 DEF BlockRange
    <3>2. CASE q \in refused
      <4>1. \A s \in todo : ~(s.from <= q.from /\ q.to <= s.to)
        BY <1>7, <3>2 DEF RefusedInv
      <4>2. t \in {lo, hi}
        BY <1>5, <2>2, <4>1
      <4>3. r.from <= q.from /\ q.to <= r.to
        BY <1>2, <1>4, <2>2, <3>1, <4>2
      <4> QED BY <1>2, <4>1, <4>3
    <3>3. CASE q = r
      BY <1>2, <1>4, <1>5, <2>2, <3>3
    <3> QED BY <3>2, <3>3
  <2> QED BY <2>1, <2>2 DEF RefusedInv, BlockRange
<1>11. At(p)'
  <2> DEFINE x == 2 * (Size - p + 1) - (Cardinality(todo) + 1)
  <2>1. x \in Int /\ x < Nodes(p)
    BY <1>2, <1>6, <1>7 DEF Nodes
  <2>2. sent + 1 + MaxAttempts * x <= SentBound
    <3> HIDE DEF x
    <3> QED BY <1>1, <2>1, NodeSpent
  <2>3. sent' + MaxAttempts * Nodes(p)' <= SentBound + attempts'
    <3>1. Nodes(p)' = x
      BY <1>8 DEF Nodes
    <3> HIDE DEF x
    <3> QED BY <1>6, <2>2, <3>1
  <2>4. \A b \in p .. Size : \E s \in todo' : s.from <= b /\ b <= s.to
    <3> SUFFICES ASSUME NEW b \in p .. Size
                 PROVE  \E s \in todo' : s.from <= b /\ b <= s.to
      OBVIOUS
    <3>1. PICK s \in todo : s.from <= b /\ b <= s.to
      BY <1>1 DEF At
    <3>2. CASE s = r
      BY <1>2, <1>4, <1>5, <3>1, <3>2
    <3>3. CASE s # r
      BY <1>5, <3>1, <3>3
    <3> QED BY <3>2, <3>3
  <2>5. \A s \in todo' : p <= s.from
    BY <1>2, <1>4, <1>5
  <2>6. received' = 1 .. p - 1 /\ p <= Size
    BY <1>1 DEF At
  <2> QED BY <2>3, <2>4, <2>5, <2>6 DEF At, SentBound
<1>12. RequestsBounded'
  BY <1>6 DEF RequestsBounded, SentBound
<1> QED BY <1>6, <1>7, <1>9, <1>10, <1>11, <1>12 DEF FetchInv, ReturnsComplete

\* fetch_range is left by an exception.
LEMMA RaiseKeeps ==
    ASSUME FetchInv, state = "running", NEW r, Current(r),
           state' = "raised", todo' = {}, attempts' = 0,
           refused' \in {refused, refused \cup {r}}, Count
    PROVE  FetchInv'
<1>1. PICK p \in 1 .. Size : At(p)
  BY DEF FetchInv
<1>2. r \in BlockRange /\ sent + 1 <= SentBound /\ sent' = sent + 1
  BY <1>1, CurrentIsNext, OneMoreRequest
<1>3. TodoInv'
  BY FS_EmptySet DEF TodoInv
<1>4. RefusedInv'
  BY <1>2 DEF FetchInv, RefusedInv, BlockRange
<1>5. RequestsBounded' /\ ReturnsComplete'
  BY <1>2 DEF RequestsBounded, SentBound, ReturnsComplete
<1> QED BY <1>2, <1>3, <1>4, <1>5, RequestConstants DEF FetchInv

\* Every request keeps the invariant.
LEMMA RequestKeeps == FetchInv /\ [Request]_requestVars => FetchInv'
<1> SUFFICES ASSUME FetchInv, [Request]_requestVars PROVE FetchInv'
  OBVIOUS
<1>1. CASE Request
  <2>1. PICK r \in todo :
          /\ Current(r)
          /\ Succeed(r) \/ \E e \in Failures : FailWith(r, e)
    BY <1>1 DEF Request
  <2>2. state = "running" /\ Count
    BY <1>1 DEF Request
  <2>3. CASE Succeed(r)
    BY <2>1, <2>2, <2>3, SucceedKeeps
  <2>4. ASSUME NEW e \in Failures, FailWith(r, e) PROVE FetchInv'
    <3>1. /\ refused' = IF e = "too large" THEN refused \cup {r} ELSE refused
          /\ received' = received
      BY <2>4 DEF FailWith
    <3>2. CASE Retryable(e) /\ AttemptsLeft
      <4>1. /\ attempts' = attempts + 1 /\ UNCHANGED <<state, todo>>
            /\ refused' = refused
        BY <2>4, <3>1, <3>2 DEF FailWith, Retryable
      <4> QED BY <2>2, <3>1, <3>2, <4>1, RetryKeeps
    <3>3. CASE ~(Retryable(e) /\ AttemptsLeft) /\ Splittable(r, e)
      <4>1. /\ todo' = (todo \ {r}) \cup SplitRange(r) /\ attempts' = 0
            /\ state' = state /\ r.from < r.to
        BY <2>4, <3>3 DEF FailWith, NewRequest, Splittable
      <4> QED BY <2>1, <2>2, <3>1, <4>1, SplitKeeps
    <3>4. CASE ~(Retryable(e) /\ AttemptsLeft) /\ ~Splittable(r, e)
      <4>1. state' = "raised" /\ todo' = {} /\ attempts' = 0
        BY <2>4, <3>4 DEF FailWith, NewRequest
      <4> QED BY <2>1, <2>2, <3>1, <4>1, RaiseKeeps
    <3> QED BY <3>2, <3>3, <3>4
  <2> QED BY <2>1, <2>3, <2>4
<1>2. CASE UNCHANGED requestVars
  BY <1>2 DEF requestVars, FetchInv, TodoInv, RefusedInv, BlockRange, At,
     Nodes, SentBound, ReturnsComplete, RequestsBounded
<1> QED BY <1>1, <1>2

\* The invariant of one fetch_range, for any range and number of attempts.
THEOREM FetchInvariant == RequestsSpec => []FetchInv
BY FetchBegins, RequestKeeps, PTL DEF RequestsSpec

(***************************************************************************)
(* Retries inside the recursion do not multiply: one fetch_range of n      *)
(* blocks makes at most MaxAttempts * (2n - 1) requests, whatever fails    *)
(* (service.py, fetch_range; rpc.py, _with_retry).                         *)
(***************************************************************************)
THEOREM FetchIsBounded == RequestsSpec => []RequestsBounded
<1>1. FetchInv => RequestsBounded
  BY DEF FetchInv
<1> QED BY <1>1, FetchInvariant, PTL

\* A range that was refused as too large is never requested again, nor is
\* one that contains it (rpc.py, comment in is_retryable).
THEOREM FetchNeverRepeats == RequestsSpec => []RefusedIsNotRetried
<1>1. FetchInv => RefusedIsNotRetried
  <2> SUFFICES ASSUME FetchInv, NEW q \in todo \cap refused PROVE FALSE
    BY DEF RefusedIsNotRetried
  <2>1. q.from <= q.from /\ q.to <= q.to
    BY DEF FetchInv, TodoInv, BlockRange
  <2> QED BY <2>1 DEF FetchInv, RefusedInv
<1> QED BY <1>1, FetchInvariant, PTL

\* fetch_range returns only when the logs of every block have arrived.
THEOREM FetchIsComplete == RequestsSpec => []ReturnsComplete
<1>1. FetchInv => ReturnsComplete
  BY DEF FetchInv
<1> QED BY <1>1, FetchInvariant, PTL

-----------------------------------------------------------------------------
(* ensure_token.                                                           *)

\* A merge of columns is a row again.
LEMMA WrittenType ==
    ASSUME NEW old \in Metadata, NEW new \in Metadata, NEW now \in Metadata
    PROVE  Written(old, new, now) \in Metadata
BY DEF Written, Metadata

\* Whatever is stored, a row is there afterwards, and a symbol known before
\* is still the same.
LEMMA StoreKeeps ==
    ASSUME RegistryInv, NEW p \in Procs, Store(p)
    PROVE  /\ row' \in Metadata
           /\ Known(row) => Known(row') /\ row'.symbol = row.symbol
<1>1. /\ loaded[p] \in Metadata \cup {NoRow}
      /\ got[p] \in Metadata
      /\ row \in Metadata \cup {NoRow}
      /\ loaded[p] # NoRow => ~Known(loaded[p]) /\ row # NoRow
  BY DEF RegistryInv, RegistryTypeOK, LoadedUnknown
<1>2. NoRow \notin Metadata
  BY RegistryConstants DEF Metadata
<1>3. CASE loaded[p] = NoRow
  BY <1>1, <1>2, <1>3 DEF Store, Known
<1>4. CASE loaded[p] # NoRow
  <2>1. loaded[p] \in Metadata /\ row \in Metadata
    BY <1>1, <1>4
  <2>2. row' = Written(loaded[p], got[p], row)
    BY <1>4 DEF Store
  <2>3. row' \in Metadata
    BY <1>1, <2>1, <2>2, WrittenType
  <2>4. loaded[p].symbol = Unknown
    BY <1>1, <1>4 DEF Known
  <2>5. ASSUME Known(row) PROVE row'.symbol = row.symbol
    <3>1. row.symbol = Symbol
      BY <2>1, <2>5 DEF Known, Metadata
    <3>2. got[p].symbol \in {Symbol, Unknown}
      BY <1>1 DEF Metadata
    <3> QED
      BY <2>2, <2>4, <3>1, <3>2 DEF Written
  <2> QED
    BY <1>2, <2>3, <2>5 DEF Known
<1> QED
  BY <1>3, <1>4

\* The initial state satisfies the invariant.
LEMMA RegistryBegins == RegistryInit => RegistryInv
<1> SUFFICES ASSUME RegistryInit PROVE RegistryInv
  OBVIOUS
<1>1. Fallback \in Metadata
  BY DEF Fallback, Metadata
<1> QED
  BY <1>1 DEF RegistryInit, RegistryInv, RegistryTypeOK, LoadedUnknown

\* A call that ends forgets what it has read and fetched.
LEMMA ReturnKeeps ==
    ASSUME RegistryInv, NEW p \in Procs, Return(p), UNCHANGED deployed,
           row' \in Metadata \cup {NoRow},
           row # NoRow => row' # NoRow
    PROVE  RegistryInv'
<1>1. Fallback \in Metadata
  BY DEF Fallback, Metadata
<1>2. RegistryTypeOK'
  BY <1>1 DEF RegistryInv, RegistryTypeOK, Return
<1>3. LoadedUnknown'
  BY DEF RegistryInv, RegistryTypeOK, LoadedUnknown, Return, Known
<1> QED
  BY <1>2, <1>3 DEF RegistryInv

\* Every step keeps the invariant.
LEMMA RegistryKeeps == RegistryInv /\ [RegistryNext]_registryVars => RegistryInv'
<1> SUFFICES ASSUME RegistryInv, [RegistryNext]_registryVars PROVE RegistryInv'
  OBVIOUS
<1> USE DEF RegistryInv
<1>1. CASE UNCHANGED registryVars
  BY <1>1 DEF registryVars, RegistryTypeOK, LoadedUnknown, Known
<1>2. CASE Deploy
  BY <1>2 DEF Deploy, RegistryTypeOK, LoadedUnknown, Known
<1>3. ASSUME NEW p \in Procs, Look(p) PROVE RegistryInv'
  BY <1>3 DEF Look, RegistryTypeOK, LoadedUnknown, Known
<1>4. ASSUME NEW p \in Procs, AnswerSymbol(p) PROVE RegistryInv'
  <2>1. [got[p] EXCEPT !.symbol = Symbol] \in Metadata
    BY DEF RegistryTypeOK, Metadata
  <2> QED
    BY <1>4, <2>1 DEF AnswerSymbol, RegistryTypeOK, LoadedUnknown, Known
<1>5. ASSUME NEW p \in Procs, AnswerDecimals(p) PROVE RegistryInv'
  <2>1. [got[p] EXCEPT !.decimals = Decimals] \in Metadata
    BY DEF RegistryTypeOK, Metadata
  <2> QED
    BY <1>5, <2>1 DEF AnswerDecimals, RegistryTypeOK, LoadedUnknown, Known
<1>6. ASSUME NEW p \in Procs, Miss(p) PROVE RegistryInv'
  BY <1>6 DEF Miss, MissSymbol, MissDecimals, RegistryTypeOK, LoadedUnknown, Known
<1>7. ASSUME NEW p \in Procs, Store(p), Return(p), UNCHANGED deployed
      PROVE  RegistryInv'
  <2>1. row' \in Metadata
    BY <1>7, StoreKeeps
  <2>2. row' # NoRow
    BY <2>1, RegistryConstants DEF Metadata
  <2> QED
    BY <1>7, <2>1, <2>2, ReturnKeeps
<1>8. ASSUME NEW p \in Procs, UNCHANGED row, Return(p), UNCHANGED deployed
      PROVE  RegistryInv'
  <2>1. row' \in Metadata \cup {NoRow}
    BY <1>8 DEF RegistryTypeOK
  <2> QED
    BY <1>8, <2>1, ReturnKeeps
<1> QED
  BY <1>1, <1>2, <1>3, <1>4, <1>5, <1>6, <1>7, <1>8
     DEF RegistryNext, RegistryStep, Raise, Write

-----------------------------------------------------------------------------
(***************************************************************************)
(* The invariant holds in every reachable state, for any number of         *)
(* processes that register the token (service.py, ensure_token).           *)
(***************************************************************************)
THEOREM RegistryInvariant == RegistrySpec => []RegistryInv
<1>1. RegistryInit => RegistryInv
  BY RegistryBegins
<1>2. RegistryInv /\ [RegistryNext]_registryVars => RegistryInv'
  BY RegistryKeeps
<1> QED
  BY <1>1, <1>2, PTL DEF RegistrySpec

(***************************************************************************)
(* A known symbol stays, for any number of processes: of two calls that    *)
(* overlap, the one whose symbol() failed takes nothing back (service.py,  *)
(* ensure_token).                                                          *)
(***************************************************************************)
THEOREM SymbolStays == RegistrySpec => KnownStaysKnown
<1> DEFINE Stays == Known(row) => Known(row') /\ row'.symbol = row.symbol
<1>1. ASSUME RegistryInv, [RegistryNext]_registryVars PROVE [Stays]_registryVars
  <2>1. ASSUME NEW p \in Procs, Store(p) PROVE Stays
    BY <1>1, <2>1, StoreKeeps
  <2>2. ASSUME UNCHANGED row PROVE Stays
    BY <2>2 DEF Known
  <2> QED
    BY <1>1, <2>1, <2>2
       DEF RegistryNext, RegistryStep, Deploy, Look, AnswerSymbol,
           AnswerDecimals, Miss, MissSymbol, MissDecimals, Write, Raise,
           registryVars
<1> QED
  BY <1>1, RegistryInvariant, PTL DEF RegistrySpec, KnownStaysKnown

=============================================================================
