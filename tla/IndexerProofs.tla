--------------------------- MODULE IndexerProofs ---------------------------
(***************************************************************************)
(* Lemmas about the store, a fetch and its time cache, shared by everyone  *)
(* who fetches and writes; then: the live indexer keeps IndInv, for every  *)
(* chain, every set of tokens and any number of indexer processes.  Each   *)
(* of its actions is either local to one process, or commits one batch, or *)
(* is a step of the chain.                                                 *)
(***************************************************************************)
EXTENDS Indexer, ChainProofs, FiniteSetTheorems, WellFoundedInduction

USE DEF Blocks

-----------------------------------------------------------------------------
(* The store, a fetch, and the cache.                                      *)

\* What membership in Canonical means.
LEMMA CanonicalRow ==
    ASSUME ChainTypeOK, NEW t \in Tokens, NEW b \in Blocks, NEW r
    PROVE  r \in Canonical(t, b) <=>
              /\ r \in Transfer
              /\ r.block = b /\ b <= head /\ r.time = fork[b]
              /\ r.key \in Logs[b][fork[b]]
              /\ TokenOf[r.key] = t /\ Shape[r.key] = "erc20"
<1>1. fork[b] \in Forks /\ Logs[b][fork[b]] \subseteq Keys
  BY ChainConstants DEF ChainTypeOK
<1>2. ASSUME r \in Canonical(t, b)
      PROVE  /\ r \in Transfer
             /\ r.block = b /\ b <= head /\ r.time = fork[b]
             /\ r.key \in Logs[b][fork[b]]
             /\ TokenOf[r.key] = t /\ Shape[r.key] = "erc20"
  <2>1. b <= head
    BY <1>2, ChainConstants DEF Canonical, ChainTypeOK
  <2>2. PICK k \in Logs[b][fork[b]] :
          /\ TokenOf[k] = t /\ Shape[k] = "erc20"
          /\ r = [key |-> k, block |-> b, time |-> fork[b]]
    BY <1>2, <2>1, ChainConstants DEF Canonical, ChainTypeOK
  <2> QED BY <1>1, <2>1, <2>2 DEF Transfer
<1>3. ASSUME r \in Transfer,
             r.block = b, b <= head, r.time = fork[b],
             r.key \in Logs[b][fork[b]],
             TokenOf[r.key] = t, Shape[r.key] = "erc20"
      PROVE  r \in Canonical(t, b)
  <2>1. r = [key |-> r.key, block |-> b, time |-> fork[b]]
    BY <1>3 DEF Transfer
  <2>2. ~(b > head)
    BY <1>3, ChainConstants DEF ChainTypeOK
  <2> QED BY <1>3, <2>1, <2>2 DEF Canonical
<1> QED BY <1>2, <1>3

-----------------------------------------------------------------------------
(* The store.                                                              *)

(***************************************************************************)
(* ON CONFLICT DO NOTHING loses nothing when the table and the new rows    *)
(* hold canonical rows only: a row with the same key is the same row.      *)
(***************************************************************************)
LEMMA UpsertExact ==
    ASSUME ChainTypeOK, ChainInv, NEW rs,
           \A r \in transfers \cup rs :
               /\ TokenOf[r.key] \in Tokens /\ r.block \in Blocks
               /\ r \in Canonical(TokenOf[r.key], r.block)
    PROVE  transfers \cup Inserted(rs) = transfers \cup rs
<1>1. ASSUME NEW r \in transfers \cup rs, NEW s \in transfers \cup rs,
             r.key = s.key
      PROVE  r = s
  <2>1. /\ r \in Transfer /\ r.block <= head /\ r.block \in Blocks
        /\ r.time = fork[r.block] /\ r.key \in Logs[r.block][fork[r.block]]
    BY CanonicalRow
  <2>2. /\ s \in Transfer /\ s.block <= head /\ s.block \in Blocks
        /\ s.time = fork[s.block] /\ s.key \in Logs[s.block][fork[s.block]]
    BY CanonicalRow
  <2>3. r.block \in 0 .. head /\ s.block \in 0 .. head
    BY <2>1, <2>2, ChainConstants DEF ChainTypeOK
  <2>4. r.block = s.block
    BY <1>1, <2>1, <2>2, <2>3 DEF ChainInv, ValidChain
  <2> QED BY <1>1, <2>1, <2>2, <2>4 DEF Transfer
<1>2. ASSUME NEW r \in rs, r \notin Inserted(rs)
      PROVE  r \in transfers
  <2>1. CASE \E s \in transfers : s.key = r.key
    BY <1>1, <2>1
  <2>2. CASE \E s \in rs : s.key = r.key /\ ~(r.block <= s.block)
    BY <1>1, <2>2, ChainConstants
  <2> QED BY <1>2, <2>1, <2>2 DEF Inserted
<1> QED BY <1>2 DEF Inserted

-----------------------------------------------------------------------------
(* A fetch.                                                                *)

\* A fetch begins with its whole range pending.
LEMMA StartFetchCorrect ==
    ASSUME FetchTypeOK, NEW p \in Procs, NEW t \in Tokens,
           NEW f \in Blocks, NEW n \in Blocks, f <= n,
           StartFetch(p, f, n), logs[p] = {}, UNCHANGED chainVars
    PROVE  FetchTypeOK' /\ FetchInv(p, t, f, n)'
<1>1. /\ todo' = [todo EXCEPT ![p] = {[from |-> f, to |-> n]}]
      /\ logs' = logs /\ rows' = rows /\ cache' = cache
  BY DEF StartFetch
<1>2. FetchTypeOK'
  BY <1>1 DEF FetchTypeOK, BlockRange
<1>3. todo'[p] = {[from |-> f, to |-> n]} /\ logs'[p] = {}
  BY <1>1 DEF FetchTypeOK
<1>4. FetchInv(p, t, f, n)'
  BY <1>3 DEF FetchInv, GetLogs
<1> QED BY <1>2, <1>4

\* A served range is off the pending ones and its logs are received.
LEMMA ServeCorrect ==
    ASSUME FetchTypeOK, NEW p \in Procs, NEW t \in Tokens,
           NEW f \in Blocks, NEW n \in Blocks,
           FetchInv(p, t, f, n), ServeRange(p, t), UNCHANGED chainVars
    PROVE  FetchTypeOK' /\ FetchInv(p, t, f, n)'
<1>1. PICK r \in todo[p] :
        /\ todo' = [todo EXCEPT ![p] = @ \ {r}]
        /\ logs' = [logs EXCEPT ![p] = @ \cup GetLogs(t, r.from, r.to)]
        /\ rows' = rows /\ cache' = cache
  BY DEF ServeRange
<1>2. /\ todo'[p] = todo[p] \ {r}
      /\ logs'[p] = logs[p] \cup GetLogs(t, r.from, r.to)
  BY <1>1 DEF FetchTypeOK
<1>3. GetLogs(t, r.from, r.to) \subseteq RawLog
  BY DEF GetLogs, RawLog
<1>4. FetchTypeOK'
  <2>1. todo' \in [Procs -> SUBSET BlockRange]
    BY <1>1 DEF FetchTypeOK
  <2>2. logs' \in [Procs -> SUBSET RawLog]
    BY <1>1, <1>3 DEF FetchTypeOK
  <2> QED BY <1>1, <2>1, <2>2 DEF FetchTypeOK
<1>5. r \in BlockRange /\ f <= r.from /\ r.to <= n
  BY DEF FetchTypeOK, FetchInv
<1>6. \A f1, n1 \in Int : GetLogs(t, f1, n1)' = GetLogs(t, f1, n1)
  BY DEF GetLogs, chainVars
<1>7. \A l \in GetLogs(t, r.from, r.to) : l \in GetLogs(t, f, n)
  BY <1>5 DEF GetLogs, BlockRange
<1>8. \A l \in GetLogs(t, f, n) :
         r.from <= l.block /\ l.block <= r.to => l \in GetLogs(t, r.from, r.to)
  BY DEF GetLogs
<1>9. FetchInv(p, t, f, n)'
  BY <1>2, <1>6, <1>7, <1>8 DEF FetchInv
<1> QED BY <1>4, <1>9

\* The halves of a refused range are pending instead of it.
LEMMA BisectCorrect ==
    ASSUME FetchTypeOK, NEW p \in Procs, NEW t \in Tokens,
           NEW f \in Blocks, NEW n \in Blocks,
           FetchInv(p, t, f, n), BisectRange(p), UNCHANGED chainVars
    PROVE  FetchTypeOK' /\ FetchInv(p, t, f, n)'
<1>1. PICK r \in todo[p] :
        /\ r.from < r.to
        /\ todo' = [todo EXCEPT ![p] = (@ \ {r}) \cup Halves(r)]
        /\ logs' = logs /\ rows' = rows /\ cache' = cache
  BY DEF BisectRange
<1>2. todo'[p] = (todo[p] \ {r}) \cup Halves(r)
  BY <1>1 DEF FetchTypeOK
<1>3. r \in BlockRange /\ f <= r.from /\ r.to <= n
  BY DEF FetchTypeOK, FetchInv
<1> DEFINE mid == (r.from + r.to) \div 2
<1>4. mid \in Int /\ r.from <= mid /\ mid < r.to
  BY <1>1, <1>3, ChainConstants DEF BlockRange
<1>5. Halves(r) = {[from |-> r.from, to |-> mid], [from |-> mid + 1, to |-> r.to]}
  BY DEF Halves
<1> HIDE DEF mid
<1>6. Halves(r) \subseteq BlockRange
  BY <1>3, <1>4, <1>5, ChainConstants DEF BlockRange
<1>7. FetchTypeOK'
  BY <1>1, <1>6 DEF FetchTypeOK
<1>8. \A h \in Halves(r) : f <= h.from /\ h.from <= h.to /\ h.to <= n
  BY <1>3, <1>4, <1>5, ChainConstants DEF BlockRange
<1>9. \A b \in Blocks : r.from <= b /\ b <= r.to =>
         \E h \in Halves(r) : h.from <= b /\ b <= h.to
  BY <1>3, <1>4, <1>5, ChainConstants DEF BlockRange
<1>10. \A l \in GetLogs(t, f, n) : l.block \in Blocks
  BY DEF GetLogs
<1>11. GetLogs(t, f, n)' = GetLogs(t, f, n)
  BY DEF GetLogs, chainVars
<1>12. FetchInv(p, t, f, n)'
  <2>1. \A q \in todo'[p] : f <= q.from /\ q.from <= q.to /\ q.to <= n
    BY <1>2, <1>8 DEF FetchInv
  <2>2. \A l \in GetLogs(t, f, n) :
           l \in logs[p] \/ \E q \in todo'[p] : q.from <= l.block /\ l.block <= q.to
    BY <1>2, <1>9, <1>10 DEF FetchInv
  <2> QED BY <1>1, <1>11, <2>1, <2>2 DEF FetchInv
<1> QED BY <1>7, <1>12

TimesCache == [Blocks -> Forks \cup {NoTime}]

\* The cache with the missing times filled in.
LEMMA FilledType ==
    ASSUME ChainTypeOK, FetchTypeOK, NEW p \in Procs
    PROVE  Filled(p) \in TimesCache
<1>1. \A b \in Blocks : fork[b] \in Forks /\ cache[p][b] \in Forks \cup {NoTime}
  BY DEF FetchTypeOK, ChainTypeOK
<1> DEFINE F(b) == IF b \in Missing(p) THEN fork[b] ELSE cache[p][b]
<1>2. \A b \in Blocks : F(b) \in Forks \cup {NoTime}
  BY <1>1
<1> HIDE DEF F
<1>3. [b \in Blocks |-> F(b)] \in [Blocks -> Forks \cup {NoTime}]
  BY <1>2
<1> QED BY <1>3 DEF Filled, F, TimesCache

(***************************************************************************)
(* When the recursion is done, the rows built are exactly the canonical    *)
(* transfers of the batch, and the cache still tells the truth.            *)
(***************************************************************************)
LEMMA BuildRowsCorrect ==
    ASSUME ChainTypeOK, ChainInv, FetchTypeOK, NEW p \in Procs, NEW t \in Tokens,
           NEW f \in Blocks, NEW n \in Blocks, Final(n),
           FetchInv(p, t, f, n), CacheInv(p), BuildRows(p), UNCHANGED chainVars
    PROVE  FetchTypeOK' /\ RowsInv(p, t, f, n)' /\ CacheInv(p)'
<1>1. todo[p] = {} /\ todo' = todo
      /\ rows' = [rows EXCEPT ![p] =
                    {[key |-> l.key, block |-> l.block,
                      time |-> Filled(p)[l.block]] : l \in Decoded(p)}]
      /\ logs' = [logs EXCEPT ![p] = {}]
      /\ cache' = [cache EXCEPT ![p] = Pruned(Filled(p))]
  BY DEF BuildRows
<1>2. \A l \in GetLogs(t, f, n) :
        /\ l \in RawLog /\ f <= l.block /\ l.block <= n /\ l.block <= head
        /\ l.key \in Logs[l.block][fork[l.block]] /\ TokenOf[l.key] = t
        /\ Final(l.block)
  BY ChainConstants DEF GetLogs, RawLog, Final, ChainTypeOK
<1>3. \A l : l \in Decoded(p) <=> l \in GetLogs(t, f, n) /\ Shape[l.key] = "erc20"
  BY <1>1 DEF Decoded, FetchInv
<1>4. \A b \in Missing(p) : b \in Blocks /\ Final(b)
  BY <1>2, <1>3 DEF Missing
<1>5. Filled(p) \in [Blocks -> Forks \cup {NoTime}]
  BY FilledType DEF TimesCache
<1>6. \A b \in Blocks : Filled(p)[b] # NoTime =>
         Final(b) /\ Filled(p)[b] = fork[b]
  BY <1>4 DEF Filled, CacheInv
<1>7. \A l \in Decoded(p) : l.block \in Blocks /\ Filled(p)[l.block] = fork[l.block]
  <2> SUFFICES ASSUME NEW l \in Decoded(p)
               PROVE  l.block \in Blocks /\ Filled(p)[l.block] = fork[l.block]
    OBVIOUS
  <2>1. l.block \in Blocks
    BY <1>2, <1>3 DEF RawLog
  <2>2. Filled(p)[l.block] # NoTime
    BY <2>1, FetchConstants DEF Filled, Missing, ChainTypeOK
  <2> QED BY <1>6, <2>1, <2>2
<1>8. Pruned(Filled(p)) \in [Blocks -> Forks \cup {NoTime}]
  BY <1>5 DEF Pruned
<1>9. \A b \in Blocks :
         Pruned(Filled(p))[b] # NoTime => Pruned(Filled(p))[b] = Filled(p)[b]
  BY <1>5 DEF Pruned
<1>10. rows'[p] = {[key |-> l.key, block |-> l.block, time |-> fork[l.block]] :
                     l \in Decoded(p)}
  BY <1>1, <1>7 DEF FetchTypeOK
<1>11. \A r \in rows'[p] : f <= r.block /\ r.block <= n /\ r.block \in Blocks
                           /\ r \in Transfer /\ r \in Canonical(t, r.block)
  <2> SUFFICES ASSUME NEW l \in Decoded(p), NEW r,
                      r = [key |-> l.key, block |-> l.block, time |-> fork[l.block]]
               PROVE  f <= r.block /\ r.block <= n /\ r.block \in Blocks
                      /\ r \in Transfer /\ r \in Canonical(t, r.block)
    BY <1>10
  <2>1. /\ l \in RawLog /\ f <= l.block /\ l.block <= n /\ l.block <= head
        /\ l.key \in Logs[l.block][fork[l.block]] /\ TokenOf[l.key] = t
        /\ Shape[l.key] = "erc20"
    BY <1>2, <1>3
  <2>2. r.key = l.key /\ r.block = l.block /\ r.time = fork[l.block]
        /\ l.block \in Blocks /\ r \in Transfer
    BY <2>1 DEF RawLog, Transfer, ChainTypeOK
  <2> QED BY <2>1, <2>2, CanonicalRow
<1>12. ASSUME NEW b \in f .. n, NEW r \in Canonical(t, b)
       PROVE  r \in rows'[p]
  <2>1. b \in Blocks
    BY ChainConstants
  <2>2. /\ r \in Transfer /\ r.block = b /\ b <= head /\ r.time = fork[b]
        /\ r.key \in Logs[b][fork[b]] /\ TokenOf[r.key] = t
        /\ Shape[r.key] = "erc20"
    BY <2>1, CanonicalRow
  <2> DEFINE l == [key |-> r.key, block |-> b]
  <2>3. l \in GetLogs(t, f, n)
    BY <2>1, <2>2 DEF GetLogs, Transfer
  <2>4. l \in Decoded(p)
    BY <1>3, <2>2, <2>3
  <2>5. r = [key |-> l.key, block |-> l.block, time |-> fork[l.block]]
    BY <2>2 DEF Transfer
  <2> QED BY <1>10, <2>4, <2>5
<1>13. \A b \in Int : Canonical(t, b)' = Canonical(t, b)
  BY DEF Canonical, chainVars
<1>14. RowsInv(p, t, f, n)'
  <2>1. f .. n \subseteq Int /\ (f .. n)' = f .. n
    OBVIOUS
  <2> QED BY <1>11, <1>12, <1>13, <2>1 DEF RowsInv
<1>15. FetchTypeOK'
  <2>1. rows' \in [Procs -> SUBSET Transfer]
    BY <1>1, <1>10, <1>11 DEF FetchTypeOK
  <2>2. logs' \in [Procs -> SUBSET RawLog]
    BY <1>1 DEF FetchTypeOK
  <2>3. cache' \in [Procs -> [Blocks -> Forks \cup {NoTime}]]
    BY <1>1, <1>8 DEF FetchTypeOK
  <2> QED BY <1>1, <2>1, <2>2, <2>3 DEF FetchTypeOK
<1>16. CacheInv(p)'
  <2>1. cache'[p] = Pruned(Filled(p))
    BY <1>1 DEF FetchTypeOK
  <2> QED BY <1>6, <1>9, <2>1 DEF CacheInv, Final, chainVars
<1> QED BY <1>14, <1>15, <1>16

\* What a process knows about its fetch survives the steps of the chain.
LEMMA FetchStable ==
    ASSUME ChainTypeOK, ChainInv, ChainNext, UNCHANGED fetchVars,
           FetchTypeOK, NEW p \in Procs, NEW t \in Tokens,
           NEW f \in Blocks, NEW n \in Blocks, Final(n)
    PROVE  /\ FetchInv(p, t, f, n) => FetchInv(p, t, f, n)'
           /\ RowsInv(p, t, f, n) => RowsInv(p, t, f, n)'
<1>1. GetLogs(t, f, n)' = GetLogs(t, f, n)
  BY GetLogsStable
<1>2. FetchInv(p, t, f, n) => FetchInv(p, t, f, n)'
  BY <1>1 DEF FetchInv, fetchVars
<1>3. \A b \in f .. n : b \in Blocks /\ Canonical(t, b)' = Canonical(t, b)
  <2> SUFFICES ASSUME NEW b \in f .. n
               PROVE  b \in Blocks /\ Canonical(t, b)' = Canonical(t, b)
    OBVIOUS
  <2>1. b \in Blocks /\ Final(b)
    BY ChainConstants DEF Final, ChainTypeOK
  <2> QED BY <2>1, CanonicalStable
<1>4. ASSUME RowsInv(p, t, f, n)
      PROVE  RowsInv(p, t, f, n)'
  <2>1. \A r \in rows[p] : r.block \in f .. n
    BY <1>4 DEF RowsInv, FetchTypeOK, Transfer
  <2>2. \A r \in rows[p] : f <= r.block /\ r.block <= n
                           /\ r \in Canonical(t, r.block)'
    BY <1>3, <1>4, <2>1 DEF RowsInv
  <2>3. \A b \in f .. n : Canonical(t, b)' \subseteq rows[p]
    BY <1>3, <1>4 DEF RowsInv
  <2> QED BY <2>2, <2>3 DEF RowsInv, fetchVars
<1> QED BY <1>2, <1>4

\* The chain moves: only final blocks are cached, and they stay.
LEMMA CacheStable ==
    ASSUME ChainTypeOK, ChainInv, ChainNext, UNCHANGED fetchVars,
           NEW p \in Procs, CacheInv(p)
    PROVE  CacheInv(p)'
<1> SUFFICES ASSUME NEW b \in Blocks, cache[p][b] # NoTime
             PROVE  Final(b)' /\ cache[p][b] = fork'[b]
  BY DEF CacheInv, fetchVars
<1>1. Final(b) /\ cache[p][b] = fork[b]
  BY DEF CacheInv
<1> QED BY <1>1, FinalStable, ChainConstants

-----------------------------------------------------------------------------
(* The cache.                                                              *)

(***************************************************************************)
(* Whatever was filled in, the prune brings the cache under its limit: the *)
(* blocks it keeps are all within half a limit of each other.              *)
(***************************************************************************)
LEMMA PrunedBounded ==
    ASSUME NEW c \in TimesCache
    PROVE  Pruned(c) \in TimesCache /\ Cardinality(Cached(Pruned(c))) <= CacheLimit
<1> DEFINE half == CacheLimit \div 2
           S == Cached(Pruned(c))
<1>1. half \in Nat /\ half + 1 <= CacheLimit /\ CacheLimit \in Nat
  BY FetchConstants
<1> HIDE DEF half
<1>2. CASE Cardinality(Cached(c)) <= CacheLimit
  BY <1>2 DEF Pruned
<1>3. CASE ~(Cardinality(Cached(c)) <= CacheLimit)
  <2>1. Pruned(c) = [b \in Blocks |-> IF \A n \in Cached(c) : b >= n - half
                                      THEN c[b] ELSE NoTime]
    BY <1>3 DEF Pruned, half
  <2>2. Pruned(c) \in TimesCache
    BY <2>1 DEF TimesCache
  <2>3. \A b \in S : /\ b \in Blocks /\ b \in Nat /\ b \in Cached(c)
                     /\ \A n \in Cached(c) : b >= n - half
    BY <2>1, ChainConstants DEF Cached
  <2>4. \A a, b \in S : b <= a + half
    <3> SUFFICES ASSUME NEW a \in S, NEW b \in S PROVE b <= a + half
      OBVIOUS
    <3>1. a \in Nat /\ b \in Nat /\ a >= b - half
      BY <2>3
    <3> QED BY <1>1, <3>1
  <2> HIDE DEF S
  <2>5. CASE S = {}
    BY <1>1, <2>2, <2>5, FS_EmptySet DEF S
  <2>6. CASE S # {}
    <3>1. S \subseteq Nat
      BY <2>3
    <3>2. PICK a \in S : \A b \in S : <<b, a>> \notin OpToRel(<, Nat)
      BY <2>6, <3>1, NatLessThanWellFounded, WFMin, Zenon
    <3>3. \A b \in S : ~(b < a)
      BY <3>1, <3>2 DEF OpToRel
    <3>4. a \in Nat
      BY <3>1
    <3>5. S \subseteq a .. a + half
      <4> SUFFICES ASSUME NEW b \in S PROVE b \in a .. a + half
        OBVIOUS
      <4>1. b \in Nat /\ ~(b < a) /\ b <= a + half
        BY <2>4, <3>1, <3>3
      <4> QED BY <1>1, <3>4, <4>1
    <3> DEFINE I == a .. a + half
    <3>6. IsFiniteSet(I) /\ Cardinality(I) = half + 1
      BY <1>1, <3>4, FS_Interval
    <3> HIDE DEF I
    <3>7. S \in SUBSET I
      BY <3>5 DEF I
    <3>8. IsFiniteSet(S) /\ Cardinality(S) <= Cardinality(I) /\ Cardinality(S) \in Nat
      BY <3>6, <3>7, FS_Subset, FS_CardinalityType
    <3> QED BY <1>1, <2>2, <3>6, <3>8 DEF S
  <2> QED BY <2>5, <2>6
<1> QED BY <1>2, <1>3

\* An empty cache keeps the limit.
LEMMA NoTimesBounded ==
    NoTimes \in TimesCache /\ Cardinality(Cached(NoTimes)) <= CacheLimit
<1>1. Cached(NoTimes) = {}
  BY DEF Cached, NoTimes
<1>2. NoTimes \in TimesCache
  BY DEF NoTimes, TimesCache
<1> QED BY <1>1, <1>2, FS_EmptySet, FetchConstants

\* What a step may do to a cache: leave it, drop it, or fill and prune it.
CacheStep(p) ==
    \/ cache'[p] = cache[p]
    \/ cache'[p] = NoTimes
    \/ Filled(p) \in TimesCache /\ cache'[p] = Pruned(Filled(p))

\* What a step may do keeps the limit of every cache.
LEMMA CacheStepBounded ==
    ASSUME CacheBounded, \A p \in Procs : CacheStep(p)
    PROVE  CacheBounded'
<1> SUFFICES ASSUME NEW p \in Procs
             PROVE  Cardinality(Cached(cache'[p])) <= CacheLimit
  BY DEF CacheBounded, Cached
<1>1. CASE cache'[p] = cache[p]
  BY <1>1 DEF CacheBounded
<1>2. CASE cache'[p] = NoTimes
  BY <1>2, NoTimesBounded
<1>3. CASE Filled(p) \in TimesCache /\ cache'[p] = Pruned(Filled(p))
  BY <1>3, PrunedBounded
<1> QED BY <1>1, <1>2, <1>3 DEF CacheStep

\* The step that builds the rows of p is such a step for every process.
LEMMA BuildRowsCache ==
    ASSUME ChainTypeOK, FetchTypeOK, NEW p \in Procs, BuildRows(p)
    PROVE  \A q \in Procs : CacheStep(q)
<1>1. cache' = [cache EXCEPT ![p] = Pruned(Filled(p))]
  BY DEF BuildRows
<1>2. cache'[p] = Pruned(Filled(p)) /\ \A q \in Procs \ {p} : cache'[q] = cache[q]
  BY <1>1 DEF FetchTypeOK
<1> QED BY <1>2, FilledType DEF CacheStep

\* The caches start empty.
LEMMA CacheBoundedAtStart == FetchInit => CacheBounded
  BY NoTimesBounded DEF FetchInit, CacheBounded

-----------------------------------------------------------------------------
(* The transaction of a batch.                                             *)

(***************************************************************************)
(* Rows and coverage that are true of final blocks stay true when the      *)
(* chain moves.                                                            *)
(***************************************************************************)
LEMMA RecordsStable ==
    ASSUME ChainTypeOK, ChainInv, ChainNext, UNCHANGED storeVars,
           StoreTypeOK, RecordsFinal, CoverageSound, NothingOrphaned
    PROVE  StoreTypeOK' /\ RecordsFinal' /\ CoverageSound' /\ NothingOrphaned'
<1>1. /\ transfers' = transfers /\ ranges' = ranges
      /\ cursors' = cursors /\ tokens' = tokens
  BY DEF storeVars
<1>2. StoreTypeOK'
  BY <1>1 DEF StoreTypeOK
<1>3. \A r \in transfers : TokenOf[r.key] \in Tokens /\ r.block \in Blocks
  BY ChainConstants DEF StoreTypeOK, Transfer
<1>4. \A r \in ranges : r.token \in Tokens /\ r.from \in Blocks /\ r.to \in Blocks
  BY DEF StoreTypeOK, IndexedRange
<1>5. RecordsFinal'
  <2>1. \A r \in transfers : Final(r.block)'
    BY <1>3, FinalStable, ChainConstants DEF RecordsFinal
  <2>2. \A r \in ranges : Final(r.to)'
    BY <1>4, FinalStable, ChainConstants DEF RecordsFinal
  <2> QED BY <1>1, <2>1, <2>2 DEF RecordsFinal
<1>6. NothingOrphaned'
  BY <1>1, <1>3, CanonicalStable DEF RecordsFinal, NothingOrphaned
<1>7. CoverageSound'
  <2> SUFFICES ASSUME NEW r \in ranges, NEW b \in r.from .. r.to
               PROVE  Canonical(r.token, b)' \subseteq transfers
    BY <1>1 DEF CoverageSound
  <2>1. b \in Blocks /\ Final(b) /\ r.token \in Tokens
    BY <1>4, ChainConstants DEF RecordsFinal, Final, ChainTypeOK
  <2> QED BY <2>1, CanonicalStable DEF CoverageSound
<1> QED BY <1>2, <1>5, <1>6, <1>7

\* What the store promises, and the finality that makes it last.
StoreInv ==
    /\ StoreTypeOK /\ StoreFinal
    /\ CoverageSound /\ NothingOrphaned /\ CursorCovered

\* The chain moves: what the tables say of final blocks stays true.
LEMMA StoreStable ==
    ASSUME ChainTypeOK, ChainInv, ChainNext, StoreInv, UNCHANGED storeVars
    PROVE  StoreInv'
<1>1. StoreTypeOK' /\ RecordsFinal' /\ CoverageSound' /\ NothingOrphaned'
  BY RecordsStable DEF StoreInv, StoreFinal
<1>2. StoreFinal' /\ CursorCovered'
  BY <1>1 DEF StoreInv, StoreFinal, CursorCovered, Covered, storeVars
<1> QED BY <1>1, <1>2 DEF StoreInv

(***************************************************************************)
(* Upserting the rows of a completely fetched range of final blocks and    *)
(* recording its coverage keeps the store's promises.                      *)
(***************************************************************************)
LEMMA WriteCorrect ==
    ASSUME ChainTypeOK, ChainInv, StoreTypeOK, RecordsFinal, CoverageSound,
           NothingOrphaned, FetchTypeOK, UNCHANGED chainVars,
           NEW p \in Procs, NEW t \in Tokens,
           NEW f \in Blocks, NEW n \in Blocks, f <= n, Final(n),
           RowsInv(p, t, f, n), UpsertTransfers(rows[p]), RecordCoverage(t, f, n)
    PROVE  /\ transfers' = transfers \cup rows[p]
           /\ transfers' \subseteq Transfer /\ ranges' \subseteq IndexedRange
           /\ \A r \in transfers' : Final(r.block)'
           /\ \A r \in ranges' : Final(r.to)'
           /\ CoverageSound' /\ NothingOrphaned'
<1>1. rows[p] \subseteq Transfer
  BY DEF FetchTypeOK
<1>2. \A r \in rows[p] : /\ r.block \in Blocks /\ r.block <= n
                         /\ r \in Canonical(t, r.block)
                         /\ TokenOf[r.key] = t
  BY <1>1, CanonicalRow DEF RowsInv, Transfer
<1>3. \A r \in transfers \cup rows[p] :
         /\ TokenOf[r.key] \in Tokens /\ r.block \in Blocks
         /\ r \in Canonical(TokenOf[r.key], r.block)
  BY <1>2, ChainConstants DEF NothingOrphaned, StoreTypeOK, Transfer
<1>4. transfers' = transfers \cup rows[p]
  BY <1>3, UpsertExact DEF UpsertTransfers
<1>5. ranges' = ranges \cup {[token |-> t, from |-> f, to |-> n]}
  BY DEF RecordCoverage
<1>6. transfers' \subseteq Transfer /\ ranges' \subseteq IndexedRange
  BY <1>1, <1>4, <1>5 DEF StoreTypeOK, IndexedRange
<1>7. \A b : Final(b)' <=> Final(b)
  BY DEF Final, chainVars
<1>8. \A t1, b1 : Canonical(t1, b1)' = Canonical(t1, b1)
  BY DEF Canonical, chainVars
<1>9. \A r \in rows[p] : Final(r.block)
  BY <1>2, ChainConstants DEF Final, ChainTypeOK
<1>10. \A r \in transfers' : Final(r.block)'
  BY <1>4, <1>7, <1>9 DEF RecordsFinal
<1>11. \A r \in ranges' : Final(r.to)'
  BY <1>5, <1>7 DEF RecordsFinal
<1>12. NothingOrphaned'
  BY <1>3, <1>4, <1>8 DEF NothingOrphaned
<1>13. CoverageSound'
  <2> SUFFICES ASSUME NEW r \in ranges', NEW b \in r.from .. r.to
               PROVE  Canonical(r.token, b) \subseteq transfers'
    BY <1>8 DEF CoverageSound
  <2>1. CASE r \in ranges
    BY <1>4, <2>1 DEF CoverageSound
  <2>2. CASE r = [token |-> t, from |-> f, to |-> n]
    BY <1>4, <2>2 DEF RowsInv
  <2> QED BY <1>5, <2>1, <2>2
<1> QED BY <1>4, <1>6, <1>10, <1>11, <1>12, <1>13

\* Coverage only grows, so what was covered stays covered.
LEMMA CoveredGrows ==
    ASSUME ranges \subseteq ranges', NEW t, NEW b, Covered(t, b)
    PROVE  Covered(t, b)'
  BY DEF Covered

-----------------------------------------------------------------------------
(* The live indexer.                                                       *)

\* A process in a cycle works on a token of the list.
LEMMA TokenType ==
    ASSUME IndexerTypeOK, NEW p \in Indexers, pc[p] \notin {"down", "wait"}
    PROVE  Token(p) \in Tokens
  BY IndexerConstants DEF IndexerTypeOK, Token

\* The numbers a process works with, once it has a batch.
LEMMA BatchBounds ==
    ASSUME ChainTypeOK, IndexerTypeOK, NEW p \in Indexers, ProcInv(p),
           pc[p] \in {"fetch", "commit"}
    PROVE  /\ current[p] \in Int /\ toBlock[p] \in Int
           /\ StartBlock <= current[p] + 1
           /\ current[p] + 1 \in Blocks /\ toBlock[p] \in Blocks
           /\ current[p] + 1 <= toBlock[p]
           /\ Final(toBlock[p])
<1>1. current[p] \in Int /\ toBlock[p] \in Int /\ safeHead[p] \in Int
  BY DEF IndexerTypeOK
<1>2. /\ StartBlock - 1 <= current[p] /\ current[p] < toBlock[p]
      /\ toBlock[p] <= safeHead[p] /\ safeHead[p] <= peak - Confirmations
  BY DEF ProcInv
<1>3. /\ StartBlock \in Nat /\ MaxBlock \in Nat
      /\ peak \in Nat /\ peak <= MaxBlock
      /\ Confirmations \in Nat /\ ReorgDepth \in Nat /\ ReorgDepth <= Confirmations
  BY ChainConstants, StoreConstants, IndexerConstants, ConfirmationsSuffice
  DEF ChainTypeOK
<1> QED BY <1>1, <1>2, <1>3 DEF Final

-----------------------------------------------------------------------------
(* A process is not disturbed by what it cannot see.                       *)

\* Another process moves: q's own variables, and the chain, stay as they are.
Undisturbed(q) ==
    /\ pc'[q] = pc[q] /\ ti'[q] = ti[q] /\ current'[q] = current[q]
    /\ safeHead'[q] = safeHead[q] /\ toBlock'[q] = toBlock[q]
    /\ todo'[q] = todo[q] /\ logs'[q] = logs[q]
    /\ rows'[q] = rows[q] /\ cache'[q] = cache[q]

\* A process whose variables a step leaves alone keeps its invariant, as
\* coverage only grows.
LEMMA OthersKeepInv ==
    ASSUME NEW q \in Indexers, ProcInv(q), Undisturbed(q),
           UNCHANGED chainVars, ranges \subseteq ranges'
    PROVE  ProcInv(q)'
<1>1. Token(q)' = Token(q)
  BY DEF Token, Undisturbed
<1>2. \A t, b : Covered(t, b) => Covered(t, b)'
  BY CoveredGrows
<1>3. \A t, f, n : GetLogs(t, f, n)' = GetLogs(t, f, n)
  BY DEF GetLogs, chainVars
<1>4. \A t, b : Canonical(t, b)' = Canonical(t, b)
  BY DEF Canonical, chainVars
<1>5. \A t, f, n : FetchInv(q, t, f, n) => FetchInv(q, t, f, n)'
  BY <1>3 DEF FetchInv, Undisturbed
<1>6. \A t, f, n : RowsInv(q, t, f, n) => RowsInv(q, t, f, n)'
  BY <1>4 DEF RowsInv, Undisturbed
<1>7. CacheInv(q)'
  BY DEF ProcInv, CacheInv, Undisturbed, Final, chainVars
<1> QED BY <1>1, <1>2, <1>5, <1>6, <1>7 DEF ProcInv, Undisturbed, chainVars

\* The chain moves: ranges being worked on are final.
LEMMA ChainKeepsInv ==
    ASSUME IndInv, ChainNext, UNCHANGED <<storeVars, fetchVars, procVars>>,
           NEW q \in Indexers
    PROVE  ProcInv(q)'
<1> USE DEF IndInv, TypeOK
<1>1. q \in Procs /\ ProcInv(q)
  BY IndexerConstants
<1>2. /\ pc' = pc /\ ti' = ti /\ current' = current /\ safeHead' = safeHead
      /\ toBlock' = toBlock /\ logs' = logs /\ ranges' = ranges
  BY DEF procVars, fetchVars, storeVars
<1>3. Token(q)' = Token(q) /\ \A t, b : Covered(t, b)' = Covered(t, b)
  BY <1>2 DEF Token, Covered
<1>4. peak <= peak' /\ peak \in Int /\ peak' \in Int
  <2>1. peak \in Int /\ peak' \in Int
    BY ChainInductive, ChainConstants DEF ChainTypeOK
  <2>2. head \in Int
    BY ChainConstants DEF ChainTypeOK
  <2> QED BY <2>1, <2>2 DEF ChainNext, Mine, Reorg
<1>5. CacheInv(q)'
  BY <1>1, CacheStable DEF ProcInv
<1>6. ASSUME pc[q] \in {"fetch", "commit"}
      PROVE  /\ FetchInv(q, Token(q), current[q] + 1, toBlock[q])
                => FetchInv(q, Token(q), current[q] + 1, toBlock[q])'
             /\ RowsInv(q, Token(q), current[q] + 1, toBlock[q])
                => RowsInv(q, Token(q), current[q] + 1, toBlock[q])'
  <2>1. Token(q) \in Tokens
    BY <1>6, TokenType
  <2>2. /\ current[q] + 1 \in Blocks /\ toBlock[q] \in Blocks
        /\ Final(toBlock[q])
    BY <1>1, <1>6, BatchBounds
  <2>3. (current[q] + 1)' = current[q] + 1 /\ toBlock'[q] = toBlock[q]
    BY <1>2
  <2> DEFINE t == Token(q)
             f == current[q] + 1
             n == toBlock[q]
  <2>4. t' = t /\ f' = f /\ n' = n
    BY <1>3, <2>3
  <2>5. \A u \in Tokens, g, m \in Blocks : Final(m) =>
           /\ FetchInv(q, u, g, m) => FetchInv(q, u, g, m)'
           /\ RowsInv(q, u, g, m) => RowsInv(q, u, g, m)'
    BY <1>1, FetchStable
  <2> QED BY <2>1, <2>2, <2>4, <2>5
<1>7. safeHead[q] \in Int
  BY DEF IndexerTypeOK
<1>8. pc[q] \in {"batch", "fetch", "commit"} => safeHead[q] <= peak' - Confirmations
  BY <1>1, <1>4, <1>7, IndexerConstants DEF ProcInv
<1> QED BY <1>1, <1>2, <1>3, <1>5, <1>6, <1>8 DEF ProcInv

-----------------------------------------------------------------------------
(* The steps of one process that touch neither the chain nor the store.    *)

\* A step of one process that leaves chain and tables alone.
LEMMA LocalStep ==
    ASSUME IndInv, NEW p \in Indexers, UNCHANGED <<chainVars, storeVars>>,
           FetchTypeOK', IndexerTypeOK', ProcInv(p)',
           \A q \in Indexers \ {p} : Undisturbed(q)
    PROVE  IndInv'
<1>1. /\ ChainTypeOK' /\ ChainInv'
  BY DEF IndInv, TypeOK, ChainTypeOK, ChainInv, ValidChain, chainVars
<1>2. \A t, b : Canonical(t, b)' = Canonical(t, b)
  BY DEF Canonical, chainVars
<1>3. StoreTypeOK' /\ StoreFinal' /\ CursorCovered'
  BY DEF IndInv, TypeOK, StoreTypeOK, StoreFinal, RecordsFinal, CursorCovered,
         Covered, Final, storeVars, chainVars
<1>4. CoverageSound' /\ NothingOrphaned'
  BY <1>2 DEF IndInv, CoverageSound, NothingOrphaned, storeVars
<1>5. ranges \subseteq ranges'
  BY DEF storeVars
<1>6. \A q \in Indexers \ {p} : ProcInv(q)'
  BY <1>5, OthersKeepInv DEF IndInv
<1> QED BY <1>1, <1>3, <1>4, <1>6 DEF IndInv, TypeOK

\* A list of tokens that is not empty has a first one.
LEMMA EmptyOrNot ==
    TokenSeq # <<>> => 1 \in 1 .. Len(TokenSeq)
  BY IndexerConstants

\* A process starts.
LEMMA BootKeepsInv ==
    ASSUME IndInv, NEW p \in Indexers, Boot(p)
    PROVE  IndInv'
<1> USE DEF IndInv, TypeOK
<1>1. pc' = [pc EXCEPT ![p] = IF TokenSeq = <<>> THEN "wait" ELSE "ensure"]
  BY DEF Boot, StartCycle, Goto
<1>2. /\ pc[p] = "down" /\ ti' = ti /\ current' = current
      /\ safeHead' = safeHead /\ toBlock' = toBlock /\ stop' = stop
      /\ todo' = todo /\ logs' = logs /\ rows' = rows /\ cache' = cache
      /\ UNCHANGED <<chainVars, storeVars>>
  BY DEF Boot, fetchVars
<1>3. FetchTypeOK'
  BY <1>2 DEF FetchTypeOK
<1>4. IndexerTypeOK'
  BY <1>1, <1>2, EmptyOrNot DEF IndexerTypeOK, PcValues
<1>5. \A q \in Indexers \ {p} : Undisturbed(q)
  BY <1>1, <1>2 DEF IndexerTypeOK, Undisturbed
<1>6. ProcInv(p)'
  <2>1. pc'[p] \in {"wait", "ensure"}
    BY <1>1 DEF IndexerTypeOK
  <2>2. CacheInv(p)'
    BY <1>2 DEF ProcInv, CacheInv, Final, chainVars
  <2> QED BY <1>2, <2>1, <2>2 DEF ProcInv
<1> QED BY <1>2, <1>3, <1>4, <1>5, <1>6, LocalStep

\* The next cycle begins.
LEMMA NextCycleKeepsInv ==
    ASSUME IndInv, NEW p \in Indexers, NextCycle(p)
    PROVE  IndInv'
<1> USE DEF IndInv, TypeOK
<1>1. pc' = [pc EXCEPT ![p] = IF TokenSeq = <<>> THEN "wait" ELSE "ensure"]
  BY DEF NextCycle, StartCycle, Goto
<1>2. /\ pc[p] = "wait" /\ ti' = ti /\ current' = current
      /\ safeHead' = safeHead /\ toBlock' = toBlock /\ stop' = stop
      /\ todo' = todo /\ logs' = logs /\ rows' = rows /\ cache' = cache
      /\ UNCHANGED <<chainVars, storeVars>>
  BY DEF NextCycle, fetchVars
<1>3. FetchTypeOK'
  BY <1>2 DEF FetchTypeOK
<1>4. IndexerTypeOK'
  BY <1>1, <1>2, EmptyOrNot DEF IndexerTypeOK, PcValues
<1>5. \A q \in Indexers \ {p} : Undisturbed(q)
  BY <1>1, <1>2 DEF IndexerTypeOK, Undisturbed
<1>6. ProcInv(p)'
  <2>1. pc'[p] \in {"wait", "ensure"}
    BY <1>1 DEF IndexerTypeOK
  <2>2. CacheInv(p)'
    BY <1>2 DEF ProcInv, CacheInv, Final, chainVars
  <2> QED BY <1>2, <2>1, <2>2 DEF ProcInv
<1> QED BY <1>2, <1>3, <1>4, <1>5, <1>6, LocalStep

\* The cursor is read: the blocks below the next one are covered.
LEMMA ReadCursorKeepsInv ==
    ASSUME IndInv, NEW p \in Indexers, ReadCursor(p)
    PROVE  IndInv'
<1> USE DEF IndInv, TypeOK
<1> DEFINE c == IF cursors[Token(p)] = NoCursor THEN StartBlock - 1
                ELSE cursors[Token(p)]
<1>1. /\ pc[p] = "cursor" /\ pc' = [pc EXCEPT ![p] = "head"]
      /\ current' = [current EXCEPT ![p] = c]
  BY DEF ReadCursor, Resume, Goto
<1>2. /\ ti' = ti /\ safeHead' = safeHead /\ toBlock' = toBlock /\ stop' = stop
      /\ todo' = todo /\ logs' = logs /\ rows' = rows /\ cache' = cache
      /\ UNCHANGED <<chainVars, storeVars>>
  BY DEF ReadCursor, Resume, fetchVars
<1>3. Token(p) \in Tokens
  BY <1>1, TokenType
<1>4. c \in Int /\ StartBlock - 1 <= c
      /\ \A b \in StartBlock .. c : Covered(Token(p), b)
  <2>1. CASE cursors[Token(p)] = NoCursor
    BY <2>1, StoreConstants, ChainConstants
  <2>2. CASE cursors[Token(p)] # NoCursor
    <3>1. c = cursors[Token(p)] /\ c \in Int /\ StartBlock <= c
      BY <1>3, <2>2 DEF StoreTypeOK, StoreFinal
    <3> QED BY <1>3, <2>2, <3>1, StoreConstants, ChainConstants
            DEF CursorCovered
  <2> QED BY <2>1, <2>2
<1> HIDE DEF c
<1>5. FetchTypeOK'
  BY <1>2 DEF FetchTypeOK
<1>6. IndexerTypeOK'
  BY <1>1, <1>2, <1>4 DEF IndexerTypeOK, PcValues
<1>7. \A q \in Indexers \ {p} : Undisturbed(q)
  BY <1>1, <1>2 DEF IndexerTypeOK, Undisturbed
<1>8. ProcInv(p)'
  <2>1. pc'[p] = "head" /\ current'[p] = c /\ Token(p)' = Token(p)
    BY <1>1, <1>2 DEF IndexerTypeOK, Token
  <2>2. CacheInv(p)'
    BY <1>2 DEF ProcInv, CacheInv, Final, chainVars
  <2>3. \A b \in StartBlock .. c : Covered(Token(p), b)'
    BY <1>2, <1>4, <2>1 DEF Covered, storeVars
  <2> QED BY <1>1, <1>2, <1>4, <2>1, <2>2, <2>3 DEF ProcInv
<1> QED BY <1>2, <1>5, <1>6, <1>7, <1>8, LocalStep

\* A token is done.
LEMMA NextTokenKeepsInv ==
    ASSUME IndInv, NEW p \in Indexers, pc[p] \in {"head", "batch"},
           NextToken(p), UNCHANGED <<chainVars, storeVars, fetchVars>>
    PROVE  IndInv'
<1> USE DEF IndInv, TypeOK
<1>1. PICK l \in {"wait", "ensure"}, i \in Nat :
        /\ pc' = [pc EXCEPT ![p] = l] /\ ti' = [ti EXCEPT ![p] = i]
        /\ IF l = "wait" THEN i = 1 ELSE i \in 1 .. Len(TokenSeq)
  <2>1. /\ ti[p] \in 1 .. Len(TokenSeq)
        /\ Len(TokenSeq) \in Nat
    <3>1. pc[p] \notin {"down", "wait"}
      OBVIOUS
    <3>2. ti[p] \in 1 .. Len(TokenSeq)
      BY <3>1 DEF IndexerTypeOK
    <3> QED BY <3>2, IndexerConstants
  <2>2. CASE ti[p] < Len(TokenSeq)
    <3>1. ti[p] + 1 \in Nat /\ ti[p] + 1 \in 1 .. Len(TokenSeq)
      BY <2>1, <2>2
    <3>2. pc' = [pc EXCEPT ![p] = "ensure"] /\ ti' = [ti EXCEPT ![p] = ti[p] + 1]
      BY <2>2 DEF NextToken, Goto
    <3> QED BY <3>1, <3>2
  <2>3. CASE ~(ti[p] < Len(TokenSeq))
    <3>1. pc' = [pc EXCEPT ![p] = "wait"] /\ ti' = [ti EXCEPT ![p] = 1]
      BY <2>3 DEF NextToken, Goto
    <3> QED BY <3>1
  <2> QED BY <2>2, <2>3
<1>2. /\ current' = [current EXCEPT ![p] = 0]
      /\ safeHead' = [safeHead EXCEPT ![p] = 0]
      /\ toBlock' = [toBlock EXCEPT ![p] = 0]
      /\ stop' = stop
      /\ todo' = todo /\ logs' = logs /\ rows' = rows /\ cache' = cache
  BY DEF NextToken, ForgetFrame, fetchVars
<1>3. FetchTypeOK'
  BY <1>2 DEF FetchTypeOK
<1>5. IndexerTypeOK'
  BY <1>1, <1>2 DEF IndexerTypeOK, PcValues
<1>6. \A q \in Indexers \ {p} : Undisturbed(q)
  BY <1>1, <1>2 DEF IndexerTypeOK, Undisturbed
<1>7. ProcInv(p)'
  <2>1. pc'[p] \in {"wait", "ensure"}
    BY <1>1 DEF IndexerTypeOK
  <2>2. CacheInv(p)'
    BY <1>2 DEF ProcInv, CacheInv, Final, chainVars
  <2> QED BY <1>2, <2>1, <2>2 DEF ProcInv
<1> QED BY <1>3, <1>5, <1>6, <1>7, LocalStep

\* The head is read: what is confirmed is final.
LEMMA ReadHeadKeepsInv ==
    ASSUME IndInv, NEW p \in Indexers, ReadHead(p)
    PROVE  IndInv'
<1> USE DEF IndInv, TypeOK
<1>1. pc[p] = "head" /\ UNCHANGED <<chainVars, storeVars, fetchVars>>
  BY DEF ReadHead, ConfirmedHead
<1>2. CASE head - Confirmations <= current[p]
  BY <1>1, <1>2, NextTokenKeepsInv DEF ReadHead, ConfirmedHead
<1>3. CASE ~(head - Confirmations <= current[p])
  <2>1. /\ pc' = [pc EXCEPT ![p] = "batch"]
        /\ safeHead' = [safeHead EXCEPT ![p] = head - Confirmations]
        /\ ti' = ti /\ current' = current /\ toBlock' = toBlock /\ stop' = stop
        /\ todo' = todo /\ logs' = logs /\ rows' = rows /\ cache' = cache
    BY <1>3 DEF ReadHead, ConfirmedHead, Goto, fetchVars
  <2>2. head - Confirmations \in Int /\ head - Confirmations <= peak - Confirmations
    BY ChainConstants, IndexerConstants DEF ChainTypeOK, ChainInv
  <2>3. FetchTypeOK'
    BY <2>1 DEF FetchTypeOK
  <2>4. IndexerTypeOK'
    BY <1>1, <2>1, <2>2 DEF IndexerTypeOK, PcValues
  <2>5. \A q \in Indexers \ {p} : Undisturbed(q)
    BY <2>1 DEF IndexerTypeOK, Undisturbed
  <2>6. ProcInv(p)'
    <3>1. /\ pc'[p] = "batch" /\ safeHead'[p] = head - Confirmations
          /\ peak' = peak /\ Token(p)' = Token(p)
      BY <1>1, <2>1 DEF IndexerTypeOK, Token, chainVars
    <3>2. CacheInv(p)'
      BY <1>1, <2>1 DEF ProcInv, CacheInv, Final, chainVars
    <3>3. \A b \in StartBlock .. current[p] : Covered(Token(p), b)'
      BY <1>1, <3>1 DEF ProcInv, Covered, storeVars
    <3> QED BY <1>1, <2>1, <2>2, <3>1, <3>2, <3>3 DEF ProcInv
  <2> QED BY <1>1, <2>3, <2>4, <2>5, <2>6, LocalStep
<1> QED BY <1>2, <1>3

\* A batch begins, or the token is done.
LEMMA BatchTopKeepsInv ==
    ASSUME IndInv, NEW p \in Indexers, BatchTop(p)
    PROVE  IndInv'
<1> USE DEF IndInv, TypeOK
<1>1. pc[p] = "batch" /\ UNCHANGED <<chainVars, storeVars>>
  BY DEF BatchTop, NoBatchLeft
<1>2. CASE current[p] >= safeHead[p] \/ stop[p]
  BY <1>1, <1>2, NextTokenKeepsInv DEF BatchTop, NoBatchLeft
<1>3. CASE ~(current[p] >= safeHead[p] \/ stop[p])
  <2> DEFINE n == BatchEnd(p)
             f == current[p] + 1
  <2>1. /\ pc' = [pc EXCEPT ![p] = "fetch"]
        /\ toBlock' = [toBlock EXCEPT ![p] = n]
        /\ StartFetch(p, f, n)
        /\ ti' = ti /\ current' = current /\ safeHead' = safeHead /\ stop' = stop
    BY <1>3 DEF BatchTop, NoBatchLeft, Goto
  <2>2. /\ current[p] \in Int /\ safeHead[p] \in Int
        /\ StartBlock - 1 <= current[p] /\ current[p] < safeHead[p]
        /\ safeHead[p] <= peak - Confirmations
    BY <1>1, <1>3 DEF IndexerTypeOK, ProcInv
  <2>3. /\ StartBlock \in Nat /\ MaxBlock \in Nat /\ BatchSize \in Nat \ {0}
        /\ peak \in Nat /\ peak <= MaxBlock /\ Confirmations \in Nat
    BY ChainConstants, StoreConstants, IndexerConstants DEF ChainTypeOK
  <2>4. n \in Int /\ current[p] < n /\ n <= safeHead[p]
    BY <2>2, <2>3 DEF BatchEnd
  <2>5. f \in Blocks /\ n \in Blocks /\ f <= n
    BY <2>2, <2>3, <2>4
  <2> HIDE DEF n
  <2>6. Token(p) \in Tokens /\ p \in Procs /\ logs[p] = {}
    BY <1>1, TokenType, IndexerConstants DEF ProcInv
  <2>7. Token(p)' = Token(p) /\ pc'[p] = "fetch" /\ toBlock'[p] = n /\ peak' = peak
        /\ current'[p] = current[p] /\ safeHead'[p] = safeHead[p]
    BY <1>1, <2>1 DEF Token, IndexerTypeOK, chainVars
  <2>8. \A t \in Tokens, g, m \in Blocks :
           g <= m /\ StartFetch(p, g, m) => FetchTypeOK' /\ FetchInv(p, t, g, m)'
    BY <1>1, <2>6, StartFetchCorrect
  <2>9. IndexerTypeOK'
    BY <1>1, <2>1, <2>4 DEF IndexerTypeOK, PcValues
  <2>10. \A q \in Indexers \ {p} : Undisturbed(q)
    BY <2>1, IndexerConstants
    DEF IndexerTypeOK, FetchTypeOK, Undisturbed, StartFetch
  <2>11. ProcInv(p)'
    <3>1. CacheInv(p)'
      BY <1>1, <2>1 DEF ProcInv, CacheInv, Final, chainVars, StartFetch
    <3>2. \A b \in StartBlock .. current[p] : Covered(Token(p), b)'
      BY <1>1, <2>7 DEF ProcInv, Covered, storeVars
    <3>3. FetchInv(p, Token(p), current[p] + 1, toBlock[p])'
      BY <2>1, <2>5, <2>6, <2>7, <2>8
    <3> QED BY <2>2, <2>4, <2>7, <3>1, <3>2, <3>3 DEF ProcInv
  <2>12. FetchTypeOK'
    BY <2>1, <2>5, <2>6, <2>8
  <2> QED BY <1>1, <2>9, <2>10, <2>11, <2>12, LocalStep
<1> QED BY <1>2, <1>3

\* A request of the recursion is served, or refused and split.
LEMMA RequestKeepsInv ==
    ASSUME IndInv, NEW p \in Indexers, Serve(p) \/ Bisect(p)
    PROVE  IndInv'
<1> USE DEF IndInv, TypeOK
<1>1. /\ pc[p] = "fetch" /\ UNCHANGED <<chainVars, storeVars>>
      /\ pc' = pc /\ ti' = ti /\ current' = current /\ safeHead' = safeHead
      /\ toBlock' = toBlock /\ stop' = stop
      /\ ServeRange(p, Token(p)) \/ BisectRange(p)
  BY DEF Serve, Bisect, procVars
<1>2. /\ cache' = cache /\ rows' = rows
      /\ \A q \in Indexers \ {p} : todo'[q] = todo[q] /\ logs'[q] = logs[q]
  BY <1>1, IndexerConstants DEF ServeRange, BisectRange, FetchTypeOK
<1>3. Token(p) \in Tokens /\ p \in Procs
  BY <1>1, TokenType, IndexerConstants
<1>4. current[p] + 1 \in Blocks /\ toBlock[p] \in Blocks
  BY <1>1, BatchBounds
<1>5. FetchInv(p, Token(p), current[p] + 1, toBlock[p])
  BY <1>1 DEF ProcInv
<1>6. \A t \in Tokens, f, n \in Blocks :
         FetchInv(p, t, f, n) /\ ServeRange(p, t)
         => FetchTypeOK' /\ FetchInv(p, t, f, n)'
  BY <1>1, <1>3, ServeCorrect
<1>7. \A t \in Tokens, f, n \in Blocks :
         FetchInv(p, t, f, n) /\ BisectRange(p)
         => FetchTypeOK' /\ FetchInv(p, t, f, n)'
  BY <1>1, <1>3, BisectCorrect
<1>8. Token(p)' = Token(p) /\ current'[p] = current[p] /\ toBlock'[p] = toBlock[p]
  BY <1>1 DEF Token
<1>9. FetchTypeOK' /\ FetchInv(p, Token(p), current[p] + 1, toBlock[p])'
  BY <1>1, <1>3, <1>4, <1>5, <1>6, <1>7, <1>8
<1>10. IndexerTypeOK'
  BY <1>1 DEF IndexerTypeOK
<1>11. \A q \in Indexers \ {p} : Undisturbed(q)
  BY <1>1, <1>2 DEF Undisturbed
<1>12. ProcInv(p)'
  <2>1. CacheInv(p)'
    BY <1>1, <1>2 DEF ProcInv, CacheInv, Final, chainVars
  <2>2. \A b \in StartBlock .. current[p] : Covered(Token(p), b)'
    BY <1>1, <1>8 DEF ProcInv, Covered, storeVars
  <2> QED BY <1>1, <1>8, <1>9, <2>1, <2>2 DEF ProcInv, chainVars
<1> QED BY <1>1, <1>9, <1>10, <1>11, <1>12, LocalStep

\* The headers are read: the rows are the canonical ones.
LEMMA TimesKeepsInv ==
    ASSUME IndInv, NEW p \in Indexers, Times(p)
    PROVE  IndInv'
<1> USE DEF IndInv, TypeOK
<1>1. /\ pc[p] = "fetch" /\ UNCHANGED <<chainVars, storeVars>>
      /\ pc' = [pc EXCEPT ![p] = "commit"]
      /\ ti' = ti /\ current' = current /\ safeHead' = safeHead
      /\ toBlock' = toBlock /\ stop' = stop
      /\ BuildRows(p)
  BY DEF Times, Goto
<1>2. \A q \in Indexers \ {p} : /\ todo'[q] = todo[q] /\ logs'[q] = logs[q]
                                /\ rows'[q] = rows[q] /\ cache'[q] = cache[q]
  BY <1>1, IndexerConstants DEF BuildRows, FetchTypeOK
<1>3. Token(p) \in Tokens /\ p \in Procs
  BY <1>1, TokenType, IndexerConstants
<1>4. current[p] + 1 \in Blocks /\ toBlock[p] \in Blocks /\ Final(toBlock[p])
  BY <1>1, BatchBounds
<1>5. FetchInv(p, Token(p), current[p] + 1, toBlock[p]) /\ CacheInv(p)
  BY <1>1 DEF ProcInv
<1>6. \A t \in Tokens, f, n \in Blocks :
         Final(n) /\ FetchInv(p, t, f, n)
         => FetchTypeOK' /\ RowsInv(p, t, f, n)' /\ CacheInv(p)'
  BY <1>1, <1>3, <1>5, BuildRowsCorrect
<1>7. /\ Token(p)' = Token(p) /\ current'[p] = current[p] /\ toBlock'[p] = toBlock[p]
      /\ pc'[p] = "commit" /\ logs'[p] = {}
  BY <1>1, <1>3 DEF Token, IndexerTypeOK, FetchTypeOK, BuildRows
<1>8. /\ FetchTypeOK' /\ CacheInv(p)'
      /\ RowsInv(p, Token(p), current[p] + 1, toBlock[p])'
  BY <1>3, <1>4, <1>5, <1>6, <1>7
<1>9. IndexerTypeOK'
  BY <1>1 DEF IndexerTypeOK, PcValues
<1>10. \A q \in Indexers \ {p} : Undisturbed(q)
  BY <1>1, <1>2 DEF Undisturbed, IndexerTypeOK
<1>11. ProcInv(p)'
  <2>1. \A b \in StartBlock .. current[p] : Covered(Token(p), b)'
    BY <1>1, <1>7 DEF ProcInv, Covered, storeVars
  <2> QED BY <1>1, <1>7, <1>8, <2>1 DEF ProcInv, chainVars
<1> QED BY <1>1, <1>8, <1>9, <1>10, <1>11, LocalStep

\* A stopped process leaves.
LEMMA ExitKeepsInv ==
    ASSUME IndInv, NEW p \in Indexers, Exit(p)
    PROVE  IndInv'
<1> USE DEF IndInv, TypeOK
<1>1. /\ pc[p] = "wait" /\ UNCHANGED <<chainVars, storeVars>>
      /\ pc' = [pc EXCEPT ![p] = "down"] /\ stop' = [stop EXCEPT ![p] = FALSE]
      /\ cache' = [cache EXCEPT ![p] = NoTimes]
      /\ ti' = ti /\ current' = current /\ safeHead' = safeHead
      /\ toBlock' = toBlock /\ todo' = todo /\ logs' = logs /\ rows' = rows
  BY DEF Exit, Goto
<1>2. p \in Procs /\ NoTimes \in [Blocks -> Forks \cup {NoTime}]
      /\ \A b \in Blocks : NoTimes[b] = NoTime
  BY IndexerConstants DEF NoTimes
<1>3. FetchTypeOK'
  BY <1>1, <1>2 DEF FetchTypeOK
<1>4. IndexerTypeOK'
  BY <1>1 DEF IndexerTypeOK, PcValues
<1>5. \A q \in Indexers \ {p} : Undisturbed(q)
  BY <1>1, IndexerConstants DEF IndexerTypeOK, FetchTypeOK, Undisturbed
<1>6. ProcInv(p)'
  <2>1. pc'[p] = "down" /\ logs'[p] = {} /\ cache'[p] = NoTimes
    BY <1>1, <1>2 DEF IndexerTypeOK, FetchTypeOK, ProcInv
  <2> QED BY <1>2, <2>1 DEF ProcInv, CacheInv
<1> QED BY <1>1, <1>3, <1>4, <1>5, <1>6, LocalStep

\* What an exception leaves behind in the process, whatever it did before.
LEMMA RaiseResets ==
    ASSUME IndInv, NEW p \in Indexers, Raise(p)
    PROVE  /\ FetchTypeOK' /\ IndexerTypeOK' /\ ProcInv(p)'
           /\ \A q \in Indexers \ {p} : Undisturbed(q)
           /\ UNCHANGED chainVars
<1> USE DEF IndInv, TypeOK
<1>1. /\ pc' = [pc EXCEPT ![p] = "wait"] /\ ti' = [ti EXCEPT ![p] = 1]
      /\ current' = [current EXCEPT ![p] = 0]
      /\ safeHead' = [safeHead EXCEPT ![p] = 0]
      /\ toBlock' = [toBlock EXCEPT ![p] = 0]
      /\ todo' = [todo EXCEPT ![p] = {}] /\ logs' = [logs EXCEPT ![p] = {}]
      /\ rows' = [rows EXCEPT ![p] = {}]
      /\ stop' = stop /\ cache' = cache /\ UNCHANGED chainVars
  BY DEF Raise, Goto, ForgetFrame, DropLocals
<1>2. p \in Procs
  BY IndexerConstants
<1>3. FetchTypeOK'
  BY <1>1 DEF FetchTypeOK
<1>4. IndexerTypeOK'
  BY <1>1 DEF IndexerTypeOK, PcValues
<1>5. \A q \in Indexers \ {p} : Undisturbed(q)
  BY <1>1, IndexerConstants DEF IndexerTypeOK, FetchTypeOK, Undisturbed
<1>6. ProcInv(p)'
  <2>1. pc'[p] = "wait" /\ logs'[p] = {}
    BY <1>1, <1>2 DEF IndexerTypeOK, FetchTypeOK
  <2>2. CacheInv(p)'
    BY <1>1 DEF ProcInv, CacheInv, Final, chainVars
  <2> QED BY <2>1, <2>2 DEF ProcInv
<1> QED BY <1>1, <1>3, <1>4, <1>5, <1>6

\* An exception ends the cycle.
LEMMA FailKeepsInv ==
    ASSUME IndInv, NEW p \in Indexers, Fail(p)
    PROVE  IndInv'
<1>1. Raise(p) /\ UNCHANGED storeVars
  BY DEF Fail
<1> QED BY <1>1, RaiseResets, LocalStep

\* The stop event is set.
LEMMA SignalKeepsInv ==
    ASSUME IndInv, NEW p \in Indexers, Signal(p)
    PROVE  IndInv'
<1> USE DEF IndInv, TypeOK
<1>1. /\ stop' = [stop EXCEPT ![p] = TRUE] /\ UNCHANGED <<chainVars, storeVars>>
      /\ pc' = pc /\ ti' = ti /\ current' = current /\ safeHead' = safeHead
      /\ toBlock' = toBlock
      /\ todo' = todo /\ logs' = logs /\ rows' = rows /\ cache' = cache
  BY DEF Signal, fetchVars
<1>2. FetchTypeOK' /\ IndexerTypeOK'
  BY <1>1 DEF FetchTypeOK, IndexerTypeOK
<1>3. \A q \in Indexers : Undisturbed(q)
  BY <1>1 DEF Undisturbed
<1>4. ProcInv(p)'
  BY <1>1, <1>3, OthersKeepInv DEF storeVars
<1> QED BY <1>1, <1>2, <1>3, <1>4, LocalStep

\* A killed process forgets everything.
LEMMA CrashKeepsInv ==
    ASSUME IndInv, NEW p \in Indexers, Crash(p)
    PROVE  IndInv'
<1> USE DEF IndInv, TypeOK
<1>1. /\ pc' = [pc EXCEPT ![p] = "down"] /\ ti' = [ti EXCEPT ![p] = 1]
      /\ stop' = [stop EXCEPT ![p] = FALSE]
      /\ current' = [current EXCEPT ![p] = 0]
      /\ safeHead' = [safeHead EXCEPT ![p] = 0]
      /\ toBlock' = [toBlock EXCEPT ![p] = 0]
      /\ todo' = [todo EXCEPT ![p] = {}] /\ logs' = [logs EXCEPT ![p] = {}]
      /\ rows' = [rows EXCEPT ![p] = {}]
      /\ cache' = [cache EXCEPT ![p] = NoTimes]
      /\ UNCHANGED <<chainVars, storeVars>>
  BY DEF Crash, Goto, ForgetFrame, DropLocals
<1>2. p \in Procs /\ NoTimes \in [Blocks -> Forks \cup {NoTime}]
      /\ \A b \in Blocks : NoTimes[b] = NoTime
  BY IndexerConstants DEF NoTimes
<1>3. FetchTypeOK'
  BY <1>1, <1>2 DEF FetchTypeOK
<1>4. IndexerTypeOK'
  BY <1>1 DEF IndexerTypeOK, PcValues
<1>5. \A q \in Indexers \ {p} : Undisturbed(q)
  BY <1>1, IndexerConstants DEF IndexerTypeOK, FetchTypeOK, Undisturbed
<1>6. ProcInv(p)'
  <2>1. pc'[p] = "down" /\ logs'[p] = {} /\ cache'[p] = NoTimes
    BY <1>1, <1>2 DEF IndexerTypeOK, FetchTypeOK
  <2> QED BY <1>2, <2>1 DEF ProcInv, CacheInv
<1> QED BY <1>1, <1>3, <1>4, <1>5, <1>6, LocalStep

-----------------------------------------------------------------------------
(* The steps that write to the store.                                      *)

\* A step of one process that writes tables, and only adds coverage.
LEMMA StoreStep ==
    ASSUME IndInv, NEW p \in Indexers, UNCHANGED chainVars,
           StoreInv', ranges \subseteq ranges',
           FetchTypeOK', IndexerTypeOK', ProcInv(p)',
           \A q \in Indexers \ {p} : Undisturbed(q)
    PROVE  IndInv'
<1>1. ChainTypeOK' /\ ChainInv'
  BY DEF IndInv, TypeOK, ChainTypeOK, ChainInv, ValidChain, chainVars
<1>2. \A q \in Indexers \ {p} : ProcInv(q)'
  BY OthersKeepInv DEF IndInv
<1> QED BY <1>1, <1>2 DEF IndInv, TypeOK, StoreInv

\* A token row appears; every promise of the store is about other tables.
LEMMA RegisterCorrect ==
    ASSUME IndInv, NEW t \in Tokens, UNCHANGED chainVars,
           tokens' = tokens \cup {t}, UNCHANGED <<transfers, cursors, ranges>>
    PROVE  StoreInv' /\ ranges \subseteq ranges'
<1>1. \A u, b : Canonical(u, b)' = Canonical(u, b)
  BY DEF Canonical, chainVars
<1> QED BY <1>1 DEF IndInv, TypeOK, StoreInv, StoreTypeOK, StoreFinal, RecordsFinal,
           CoverageSound, NothingOrphaned, CursorCovered, Covered, Final, chainVars

\* The token is registered.
LEMMA EnsureTokenKeepsInv ==
    ASSUME IndInv, NEW p \in Indexers, EnsureToken(p)
    PROVE  IndInv'
<1> USE DEF IndInv, TypeOK
<1>1. /\ pc[p] = "ensure" /\ pc' = [pc EXCEPT ![p] = "cursor"]
      /\ tokens' = tokens \cup {Token(p)}
      /\ UNCHANGED <<transfers, cursors, ranges>> /\ UNCHANGED chainVars
      /\ ti' = ti /\ current' = current /\ safeHead' = safeHead
      /\ toBlock' = toBlock /\ stop' = stop
      /\ todo' = todo /\ logs' = logs /\ rows' = rows /\ cache' = cache
  BY DEF EnsureToken, Goto, fetchVars
<1>2. Token(p) \in Tokens
  BY <1>1, TokenType
<1>3. \A t \in Tokens : tokens' = tokens \cup {t}
                        => StoreInv' /\ ranges \subseteq ranges'
  BY <1>1, RegisterCorrect
<1>4. FetchTypeOK' /\ IndexerTypeOK'
  BY <1>1 DEF FetchTypeOK, IndexerTypeOK, PcValues
<1>5. \A q \in Indexers \ {p} : Undisturbed(q)
  BY <1>1 DEF IndexerTypeOK, Undisturbed
<1>6. ProcInv(p)'
  <2>1. pc'[p] = "cursor" /\ logs'[p] = {}
    BY <1>1 DEF IndexerTypeOK, ProcInv
  <2>2. CacheInv(p)'
    BY <1>1 DEF ProcInv, CacheInv, Final, chainVars
  <2> QED BY <2>1, <2>2 DEF ProcInv
<1> QED BY <1>1, <1>2, <1>3, <1>4, <1>5, <1>6, StoreStep

(***************************************************************************)
(* The batch transaction keeps the promises of the store, and covers the   *)
(* token up to the end of the batch.                                       *)
(***************************************************************************)
LEMMA BatchWritesCorrect ==
    ASSUME IndInv, NEW p \in Indexers, pc[p] = "commit",
           BatchWrites(p), UNCHANGED chainVars
    PROVE  /\ StoreInv' /\ ranges \subseteq ranges'
           /\ \A t, b : /\ t = Token(p)
                        /\ b \in StartBlock .. toBlock[p]
                        => Covered(t, b)'
<1> USE DEF IndInv, TypeOK
<1>1. Token(p) \in Tokens /\ p \in Procs
  BY TokenType, IndexerConstants
<1>2. /\ current[p] \in Int /\ toBlock[p] \in Int /\ StartBlock <= current[p] + 1
      /\ current[p] + 1 \in Blocks /\ toBlock[p] \in Blocks
      /\ current[p] + 1 <= toBlock[p] /\ Final(toBlock[p])
  BY BatchBounds
<1>3. RowsInv(p, Token(p), current[p] + 1, toBlock[p])
  BY DEF ProcInv
<1>4. /\ UpsertTransfers(rows[p])
      /\ cursors' = [cursors EXCEPT ![Token(p)] = toBlock[p]]
      /\ RecordCoverage(Token(p), current[p] + 1, toBlock[p])
      /\ tokens' = tokens
  BY DEF BatchWrites, SetCursor
<1>5. \A t \in Tokens, f, n \in Blocks :
         /\ f <= n /\ Final(n) /\ RowsInv(p, t, f, n) /\ RecordCoverage(t, f, n)
         => /\ transfers' \subseteq Transfer /\ ranges' \subseteq IndexedRange
            /\ \A r \in transfers' : Final(r.block)'
            /\ \A r \in ranges' : Final(r.to)'
            /\ CoverageSound' /\ NothingOrphaned'
  BY <1>1, <1>4, WriteCorrect DEF StoreFinal
<1>6. /\ transfers' \subseteq Transfer /\ ranges' \subseteq IndexedRange
      /\ \A r \in transfers' : Final(r.block)'
      /\ \A r \in ranges' : Final(r.to)'
      /\ CoverageSound' /\ NothingOrphaned'
  BY <1>1, <1>2, <1>3, <1>4, <1>5
<1>7. ranges' = ranges \cup
         {[token |-> Token(p), from |-> current[p] + 1, to |-> toBlock[p]]}
  BY <1>4 DEF RecordCoverage
<1>8. \A t, b : Covered(t, b) => Covered(t, b)'
  BY <1>7, CoveredGrows
<1>9. ASSUME NEW t, NEW b, t = Token(p), b \in StartBlock .. toBlock[p]
      PROVE  Covered(t, b)'
  <2>1. CASE b <= current[p]
    <3>1. b \in StartBlock .. current[p]
      BY <1>2, <1>9, <2>1, StoreConstants, ChainConstants
    <3> QED BY <1>8, <1>9, <3>1 DEF ProcInv
  <2>2. CASE ~(b <= current[p])
    <3>1. current[p] + 1 <= b /\ b <= toBlock[p]
      BY <1>2, <1>9, <2>2, StoreConstants, ChainConstants
    <3> DEFINE r == [token |-> Token(p), from |-> current[p] + 1, to |-> toBlock[p]]
    <3>2. r \in ranges'
      BY <1>7
    <3>3. r.token = t /\ r.from = current[p] + 1 /\ r.to = toBlock[p]
      BY <1>9
    <3> HIDE DEF r
    <3>4. r.from <= b /\ b <= r.to
      BY <3>1, <3>3
    <3> QED BY <3>2, <3>3, <3>4 DEF Covered
  <2> QED BY <2>1, <2>2
<1>10. StoreTypeOK'
  BY <1>1, <1>2, <1>4, <1>6 DEF StoreTypeOK
<1>11. StoreFinal'
  <2>1. StartBlock <= toBlock[p]
    BY <1>2, StoreConstants, ChainConstants
  <2>2. \A t \in Tokens : cursors'[t] # NoCursor => StartBlock <= cursors'[t]
    BY <1>4, <2>1 DEF StoreFinal, StoreTypeOK
  <2> QED BY <1>6, <2>2 DEF StoreFinal, RecordsFinal
<1>12. CursorCovered'
  <2> SUFFICES ASSUME NEW t \in Tokens, cursors'[t] # NoCursor,
                      NEW b \in StartBlock .. cursors'[t]
               PROVE  Covered(t, b)'
    BY DEF CursorCovered
  <2>1. CASE t = Token(p)
    BY <1>1, <1>4, <1>9, <2>1 DEF StoreTypeOK
  <2>2. CASE t # Token(p)
    BY <1>4, <1>8, <2>2 DEF StoreTypeOK, CursorCovered
  <2> QED BY <2>1, <2>2
<1> QED BY <1>6, <1>7, <1>9, <1>10, <1>11, <1>12 DEF StoreInv

\* A batch is committed.
LEMMA CommitKeepsInv ==
    ASSUME IndInv, NEW p \in Indexers, Commit(p)
    PROVE  IndInv'
<1> USE DEF IndInv, TypeOK
<1>1. /\ pc[p] = "commit" /\ BatchWrites(p) /\ UNCHANGED chainVars
      /\ pc' = [pc EXCEPT ![p] = "batch"]
      /\ current' = [current EXCEPT ![p] = toBlock[p]]
      /\ toBlock' = [toBlock EXCEPT ![p] = 0]
      /\ todo' = [todo EXCEPT ![p] = {}] /\ logs' = [logs EXCEPT ![p] = {}]
      /\ rows' = [rows EXCEPT ![p] = {}]
      /\ ti' = ti /\ safeHead' = safeHead /\ stop' = stop /\ cache' = cache
  BY DEF Commit, Committed, Goto, DropLocals
<1>2. /\ StoreInv' /\ ranges \subseteq ranges'
      /\ \A t, b : t = Token(p) /\ b \in StartBlock .. toBlock[p] => Covered(t, b)'
  BY <1>1, BatchWritesCorrect
<1>3. FetchTypeOK'
  BY <1>1 DEF FetchTypeOK
<1>4. IndexerTypeOK'
  BY <1>1 DEF IndexerTypeOK, PcValues
<1>5. \A q \in Indexers \ {p} : Undisturbed(q)
  BY <1>1, IndexerConstants DEF IndexerTypeOK, FetchTypeOK, Undisturbed
<1>6. ProcInv(p)'
  <2>1. /\ pc'[p] = "batch" /\ logs'[p] = {} /\ current'[p] = toBlock[p]
        /\ Token(p)' = Token(p) /\ safeHead'[p] = safeHead[p]
    BY <1>1, IndexerConstants DEF IndexerTypeOK, FetchTypeOK, Token
  <2>2. CacheInv(p)'
    BY <1>1 DEF ProcInv, CacheInv, Final, chainVars
  <2>3. StartBlock - 1 <= toBlock[p]
    BY <1>1, BatchBounds, StoreConstants, ChainConstants
  <2>4. \A b \in StartBlock .. current'[p] : Covered(Token(p), b)'
    BY <1>2, <2>1
  <2>5. safeHead'[p] <= peak' - Confirmations
    BY <1>1, <2>1 DEF ProcInv, chainVars
  <2> QED BY <2>1, <2>2, <2>3, <2>4, <2>5 DEF ProcInv
<1> QED BY <1>1, <1>2, <1>3, <1>4, <1>5, <1>6, StoreStep

\* A batch is committed and its process does not know.
LEMMA LoseReplyKeepsInv ==
    ASSUME IndInv, NEW p \in Indexers, LoseReply(p)
    PROVE  IndInv'
<1>1. Raise(p) /\ UNCHANGED chainVars
  BY DEF LoseReply, Raise
<1>2. /\ FetchTypeOK' /\ IndexerTypeOK' /\ ProcInv(p)'
      /\ \A q \in Indexers \ {p} : Undisturbed(q)
  BY <1>1, RaiseResets
<1>3. StoreInv' /\ ranges \subseteq ranges'
  <2>1. CASE /\ pc[p] = "ensure" /\ tokens' = tokens \cup {Token(p)}
             /\ UNCHANGED <<transfers, cursors, ranges>>
    <3>1. Token(p) \in Tokens
      BY <2>1, TokenType DEF IndInv, TypeOK
    <3>2. \A t \in Tokens : tokens' = tokens \cup {t}
                            => StoreInv' /\ ranges \subseteq ranges'
      BY <1>1, <2>1, RegisterCorrect
    <3> QED BY <2>1, <3>1, <3>2
  <2>2. CASE pc[p] = "commit" /\ BatchWrites(p)
    BY <1>1, <2>2, BatchWritesCorrect
  <2> QED BY <2>1, <2>2 DEF LoseReply
<1> QED BY <1>1, <1>2, <1>3, StoreStep

-----------------------------------------------------------------------------
(* The theorems.                                                           *)

\* The invariant holds of the empty database.
LEMMA InitEstablishesInv == Init => IndInv
<1> SUFFICES ASSUME Init PROVE IndInv
  OBVIOUS
<1> USE DEF Init
<1>1. ChainTypeOK /\ ChainInv
  BY AnyForkType, ChainConstants DEF ChainInit, ChainTypeOK, ChainInv, ValidChain
<1>2. StoreTypeOK /\ StoreFinal /\ CoverageSound /\ NothingOrphaned /\ CursorCovered
  BY DEF StoreInit, StoreTypeOK, StoreFinal, RecordsFinal, CoverageSound, NothingOrphaned,
         CursorCovered
<1>3. FetchTypeOK
  BY DEF FetchInit, FetchTypeOK, NoTimes
<1>4. IndexerTypeOK
  BY DEF IndexerTypeOK, PcValues
<1>5. \A p \in Indexers : ProcInv(p)
  BY IndexerConstants DEF ProcInv, CacheInv, FetchInit, NoTimes
<1> QED BY <1>1, <1>2, <1>3, <1>4, <1>5 DEF IndInv, TypeOK

\* Every step keeps the invariant.
LEMMA NextKeepsInv == IndInv /\ [Next]_vars => IndInv'
<1> SUFFICES ASSUME IndInv, [Next]_vars PROVE IndInv'
  OBVIOUS
<1>1. CASE ChainNext /\ UNCHANGED <<storeVars, fetchVars, procVars>>
  <2>1. ChainTypeOK' /\ ChainInv'
    BY <1>1, ChainInductive DEF IndInv, TypeOK
  <2>2. StoreInv'
    BY <1>1, StoreStable DEF IndInv, TypeOK, StoreInv
  <2>3. FetchTypeOK' /\ IndexerTypeOK'
    BY <1>1 DEF IndInv, TypeOK, FetchTypeOK, IndexerTypeOK, fetchVars, procVars
  <2>4. \A q \in Indexers : ProcInv(q)'
    BY <1>1, ChainKeepsInv
  <2> QED BY <2>1, <2>2, <2>3, <2>4 DEF IndInv, TypeOK, StoreInv
<1>2. ASSUME NEW p \in Indexers, IndexerNext(p) PROVE IndInv'
  BY <1>2, BootKeepsInv, EnsureTokenKeepsInv, ReadCursorKeepsInv,
     ReadHeadKeepsInv, BatchTopKeepsInv, RequestKeepsInv, TimesKeepsInv,
     CommitKeepsInv, NextCycleKeepsInv, ExitKeepsInv, FailKeepsInv,
     LoseReplyKeepsInv, SignalKeepsInv, CrashKeepsInv
  DEF IndexerNext, Step, Fault
<1>3. CASE UNCHANGED vars
  <2>1. \A t, b : Canonical(t, b)' = Canonical(t, b)
    BY <1>3 DEF Canonical, vars, chainVars
  <2>2. /\ ChainTypeOK' /\ ChainInv'
        /\ StoreInv' /\ FetchTypeOK' /\ IndexerTypeOK'
    BY <1>3, <2>1 DEF IndInv, TypeOK, ChainTypeOK, ChainInv, ValidChain,
       StoreInv, StoreTypeOK, StoreFinal, RecordsFinal, CoverageSound, NothingOrphaned,
       CursorCovered, Covered, Final, FetchTypeOK, IndexerTypeOK,
       vars, chainVars, storeVars, fetchVars, procVars
  <2>3. \A q \in Indexers : Undisturbed(q)
    BY <1>3 DEF Undisturbed, vars, fetchVars, procVars
  <2>4. UNCHANGED chainVars /\ ranges \subseteq ranges'
    BY <1>3 DEF vars, storeVars
  <2>5. \A q \in Indexers : ProcInv(q)'
    BY <2>3, <2>4, OthersKeepInv DEF IndInv
  <2> QED BY <2>2, <2>5 DEF IndInv, TypeOK, StoreInv
<1> QED BY <1>1, <1>2, <1>3 DEF Next

\* IndInv is an invariant of the indexer.
THEOREM IndexerInvariant == Spec => []IndInv
  BY InitEstablishesInv, NextKeepsInv, PTL DEF Spec

\* Type correctness.
THEOREM TypeCorrect == Spec => []TypeOK
<1>1. IndInv => TypeOK
  BY DEF IndInv
<1> QED BY <1>1, IndexerInvariant, PTL

\* Coverage records are true, for any number of indexers on one database.
THEOREM CoverageIsSound == Spec => []CoverageSound
<1>1. IndInv => CoverageSound
  BY DEF IndInv
<1> QED BY <1>1, IndexerInvariant, PTL

\* No stored row outlives the block it came from.
THEOREM NoOrphans == Spec => []NothingOrphaned
<1>1. IndInv => NothingOrphaned
  BY DEF IndInv
<1> QED BY <1>1, IndexerInvariant, PTL

\* What is covered is stored, so nothing below a cursor is missing.
LEMMA InvGivesNoSkips == IndInv => NothingSkipped
<1> SUFFICES ASSUME IndInv, NEW t \in Tokens, cursors[t] # NoCursor,
                    NEW b \in StartBlock .. cursors[t]
             PROVE  Canonical(t, b) \subseteq transfers
  BY DEF NothingSkipped
<1>1. PICK r \in ranges : r.token = t /\ r.from <= b /\ b <= r.to
  BY DEF IndInv, CursorCovered, Covered
<1>2. r.from \in Int /\ r.to \in Int /\ b \in Int
  BY <1>1, StoreConstants, ChainConstants
  DEF IndInv, TypeOK, StoreTypeOK, IndexedRange, Blocks
<1>3. b \in r.from .. r.to
  BY <1>1, <1>2
<1> QED BY <1>1, <1>3 DEF IndInv, CoverageSound

\* The cursor never passes a transfer that is not stored.
THEOREM NoSkips == Spec => []NothingSkipped
  BY InvGivesNoSkips, IndexerInvariant, PTL

\* Every block up to the cursor has a coverage record.
THEOREM CursorIsCovered == Spec => []CursorCovered
<1>1. IndInv => CursorCovered
  BY DEF IndInv
<1> QED BY <1>1, IndexerInvariant, PTL

\* What a step of the indexer does to the caches.
LEMMA NextCacheStep ==
    ASSUME IndInv, [Next]_vars
    PROVE  \A p \in Procs : CacheStep(p)
<1> USE DEF CacheStep
<1>1. CASE ChainNext /\ UNCHANGED <<storeVars, fetchVars, procVars>>
  BY <1>1 DEF fetchVars
<1>2. ASSUME NEW p \in Indexers, IndexerNext(p)
      PROVE  \A q \in Procs : CacheStep(q)
  <2>1. CASE Times(p)
    BY <2>1, BuildRowsCache, IndexerConstants DEF Times, IndInv, TypeOK
  <2>2. CASE Exit(p) \/ Crash(p)
    <3>1. cache' = [cache EXCEPT ![p] = NoTimes]
      BY <2>2 DEF Exit, Crash
    <3> QED BY <3>1 DEF IndInv, TypeOK, FetchTypeOK
  <2>3. CASE Fail(p) \/ LoseReply(p) \/ Commit(p)
    BY <2>3 DEF Fail, LoseReply, Raise, Commit, Committed
  <2>4. CASE Boot(p) \/ EnsureToken(p) \/ ReadCursor(p) \/ ReadHead(p)
             \/ BatchTop(p) \/ NextCycle(p) \/ Signal(p)
    BY <2>4 DEF Boot, EnsureToken, ReadCursor, ReadHead, BatchTop, StartFetch,
                NextCycle, Signal, fetchVars
  <2>5. CASE Serve(p) \/ Bisect(p)
    BY <2>5 DEF Serve, Bisect, ServeRange, BisectRange
  <2> QED BY <1>2, <2>1, <2>2, <2>3, <2>4, <2>5 DEF IndexerNext, Step, Fault
<1>3. CASE UNCHANGED vars
  BY <1>3 DEF vars, fetchVars
<1> QED BY <1>1, <1>2, <1>3 DEF Next

\* The prune keeps every cache under its limit, however long a process runs.
THEOREM CacheStaysBounded == Spec => []CacheBounded
<1>1. Init => CacheBounded
  BY CacheBoundedAtStart DEF Init
<1>2. IndInv /\ CacheBounded /\ [Next]_vars => CacheBounded'
  BY NextCacheStep, CacheStepBounded
<1> QED BY <1>1, <1>2, IndexerInvariant, PTL DEF Spec

-----------------------------------------------------------------------------
(* The refinement of Ledger.                                               *)

\* The coverage and the cursors as Ledger sees them.
LedgerCovered == {c \in Tokens \X Blocks : Covered(c[1], c[2])}
LedgerMark ==
    [t \in Tokens |->
        IF cursors[t] = NoCursor THEN StartBlock - 1 ELSE cursors[t]]

\* Tables that stay as they are leave the ledger as it is.
LEMMA SameTables ==
    ASSUME UNCHANGED <<transfers, cursors, ranges>>
    PROVE  transfers' = transfers /\ LedgerCovered' = LedgerCovered
           /\ LedgerMark' = LedgerMark
  BY DEF LedgerCovered, LedgerMark, Covered

\* The record of a batch adds its blocks and nothing else.
LEMMA RecordCovers ==
    ASSUME NEW t \in Tokens, NEW f \in Blocks, NEW n \in Blocks,
           ranges \subseteq IndexedRange, RecordCoverage(t, f, n)
    PROVE  LedgerCovered' = LedgerCovered \cup ({t} \X (f .. n))
<1> DEFINE r == [token |-> t, from |-> f, to |-> n]
<1>1. ranges' = ranges \cup {r} /\ r.token = t /\ r.from = f /\ r.to = n
  BY DEF RecordCoverage
<1> HIDE DEF r
<1>2. ASSUME NEW u \in Tokens, NEW b \in Blocks
      PROVE  Covered(u, b)' <=> Covered(u, b) \/ (u = t /\ b \in f .. n)
  BY <1>1, ChainConstants DEF Covered
<1>3. ASSUME NEW c \in {t} \X (f .. n) PROVE c \in Tokens \X Blocks
  BY ChainConstants
<1>4. ASSUME NEW c \in Tokens \X Blocks
      PROVE  Covered(c[1], c[2])' <=>
                Covered(c[1], c[2]) \/ c \in {t} \X (f .. n)
  <2>1. c[1] \in Tokens /\ c[2] \in Blocks /\ c = <<c[1], c[2]>>
    OBVIOUS
  <2>2. c \in {t} \X (f .. n) <=> c[1] = t /\ c[2] \in f .. n
    BY <2>1
  <2> QED BY <1>2, <2>1, <2>2
<1> QED BY <1>3, <1>4 DEF LedgerCovered

(***************************************************************************)
(* The transaction of a batch puts its range on record in Ledger: the rows *)
(* are its canonical transfers, the range is final, and below the cursor   *)
(* everything is covered.                                                  *)
(***************************************************************************)
LEMMA BatchIsCover ==
    ASSUME IndInv, NEW p \in Indexers, pc[p] = "commit",
           BatchWrites(p), UNCHANGED chainVars
    PROVE  /\ Token(p) \in Tokens
           /\ current[p] + 1 \in Blocks /\ toBlock[p] \in Blocks
           /\ L!Cover(Token(p), current[p] + 1, toBlock[p])
<1> DEFINE t == Token(p)
           f == current[p] + 1
           n == toBlock[p]
<1>1. t \in Tokens /\ p \in Procs
  BY TokenType, IndexerConstants DEF IndInv, TypeOK
<1>2. /\ n \in Int /\ f \in Blocks /\ n \in Blocks /\ f <= n /\ Final(n)
      /\ StartBlock <= f
  BY BatchBounds DEF IndInv, TypeOK
<1>3. RowsInv(p, t, f, n)
  BY DEF IndInv, ProcInv
<1>4. /\ UpsertTransfers(rows[p]) /\ RecordCoverage(t, f, n)
      /\ cursors' = [cursors EXCEPT ![t] = n]
  BY DEF BatchWrites, SetCursor
<1>5. \A b \in StartBlock .. n :
         \E r \in ranges' : r.token = t /\ r.from <= b /\ b <= r.to
  BY BatchWritesCorrect DEF Covered
<1>6. StoreTypeOK /\ FetchTypeOK
  BY DEF IndInv, TypeOK
<1> HIDE DEF t, f, n
<1>7. transfers' = transfers \cup rows[p]
  BY <1>1, <1>2, <1>3, <1>4, WriteCorrect DEF IndInv, TypeOK, StoreFinal
<1>8. rows[p] = UNION {Canonical(t, b) : b \in f .. n}
  <2>1. ASSUME NEW r \in rows[p] PROVE \E b \in f .. n : r \in Canonical(t, b)
    <3>1. r.block \in Blocks
      BY <1>1, <1>6 DEF FetchTypeOK, Transfer
    <3> QED BY <1>2, <1>3, <3>1, ChainConstants DEF RowsInv
  <2> QED BY <1>3, <2>1 DEF RowsInv
<1>9. LedgerCovered' = LedgerCovered \cup ({t} \X (f .. n))
  BY <1>1, <1>2, <1>4, <1>6, RecordCovers DEF StoreTypeOK
<1>10. LedgerMark' = [LedgerMark EXCEPT ![t] = n]
  <2>1. n # NoCursor
    BY <1>2, StoreConstants
  <2>2. \A u \in Tokens : cursors'[u] = IF u = t THEN n ELSE cursors[u]
    BY <1>1, <1>4, <1>6 DEF StoreTypeOK
  <2>3. LedgerMark' = [u \in Tokens |-> IF u = t THEN n ELSE LedgerMark[u]]
    BY <2>1, <2>2 DEF LedgerMark
  <2>4. LedgerMark = [u \in Tokens |-> LedgerMark[u]]
    BY DEF LedgerMark
  <2> QED BY <2>3, <2>4
<1>11. n \in StartBlock .. n
  BY <1>2, StoreConstants, ChainConstants
<1>12. \A b \in StartBlock .. n : <<t, b>> \in LedgerCovered'
  <2> SUFFICES ASSUME NEW b \in StartBlock .. n
               PROVE  <<t, b>> \in LedgerCovered'
    OBVIOUS
  <2>1. b \in Blocks
    BY <1>2, StoreConstants, ChainConstants
  <2> DEFINE c == <<t, b>>
  <2>2. c \in Tokens \X Blocks /\ c[1] = t /\ c[2] = b
    BY <1>1, <2>1
  <2>3. \E r \in ranges' : r.token = c[1] /\ r.from <= c[2] /\ c[2] <= r.to
    BY <1>5, <2>2
  <2> HIDE DEF c
  <2>4. c \in LedgerCovered'
    BY <2>2, <2>3 DEF LedgerCovered, Covered
  <2> QED BY <2>4 DEF c
<1>13. L!Cover(t, f, n)
  <2>1. \A b : L!Canonical(t, b) = Canonical(t, b)
    BY DEF L!Canonical, Canonical
  <2>2. L!Final(n) /\ UNCHANGED L!chainVars
    BY <1>2 DEF L!Final, Final, L!chainVars, chainVars
  <2>3. transfers' = transfers \cup UNION {L!Canonical(t, b) : b \in f .. n}
    BY <1>7, <1>8, <2>1
  <2> QED BY <1>2, <1>9, <1>10, <1>11, <1>12, <2>2, <2>3
          DEF L!Cover, LedgerCovered, LedgerMark
<1> QED BY <1>1, <1>2, <1>13 DEF t, f, n

\* Every other step of a process leaves the chain and these tables alone.
LEMMA QuietOrCommit ==
    ASSUME NEW p \in Indexers, IndexerNext(p)
    PROVE  /\ UNCHANGED chainVars
           /\ \/ UNCHANGED <<transfers, cursors, ranges>>
              \/ pc[p] = "commit" /\ BatchWrites(p)
<1>1. CASE Boot(p) \/ Signal(p) \/ Crash(p)
  BY <1>1 DEF Boot, Signal, Crash, storeVars
<1>2. CASE Fail(p) \/ LoseReply(p)
  BY <1>2 DEF Fail, LoseReply, Raise, storeVars
<1>3. CASE EnsureToken(p) \/ ReadCursor(p) \/ ReadHead(p) \/ BatchTop(p)
  BY <1>3 DEF EnsureToken, ReadCursor, ReadHead, BatchTop, storeVars
<1>4. CASE Serve(p) \/ Bisect(p) \/ Times(p) \/ NextCycle(p) \/ Exit(p)
  BY <1>4 DEF Serve, Bisect, Times, NextCycle, Exit, storeVars
<1>5. CASE Commit(p)
  BY <1>5 DEF Commit, Committed
<1> QED BY <1>1, <1>2, <1>3, <1>4, <1>5 DEF IndexerNext, Step, Fault

\* The indexer and the ledger begin alike.
LEMMA InitIsLedgerInit == Init => L!LedgerInit
<1> SUFFICES ASSUME Init PROVE L!LedgerInit
  OBVIOUS
<1>1. L!ChainInit
  BY DEF Init, ChainInit, L!ChainInit, AnyFork, L!AnyFork, L!Blocks
<1>2. transfers = {} /\ LedgerCovered = {}
  BY DEF Init, StoreInit, LedgerCovered, Covered
<1>3. LedgerMark = [t \in Tokens |-> StartBlock - 1]
  BY DEF Init, StoreInit, LedgerMark
<1> QED BY <1>1, <1>2, <1>3 DEF L!LedgerInit, LedgerCovered, LedgerMark

\* A step of the ledger, or none.
LedgerStep == [L!LedgerNext]_<<L!chainVars, L!ledgerVars>>

\* A step that leaves the three tables alone leaves the ledger alone.
LEMMA QuietTables ==
    ASSUME UNCHANGED <<transfers, cursors, ranges>>
    PROVE  /\ UNCHANGED L!ledgerVars
           /\ UNCHANGED chainVars => LedgerStep
<1>1. UNCHANGED L!ledgerVars
  BY SameTables DEF L!ledgerVars, LedgerCovered, LedgerMark
<1> QED BY <1>1 DEF LedgerStep, chainVars, L!chainVars

\* A range put on record is a step of the ledger, whoever records it.
LEMMA CoverIsLedgerStep ==
    ASSUME NEW t \in Tokens, NEW f \in Blocks, NEW n \in Blocks, L!Cover(t, f, n)
    PROVE  LedgerStep
  BY DEF LedgerStep, L!LedgerNext, L!Blocks, L!Cover, L!Final, L!Canonical

\* Every step is a step of the ledger, or none.
LEMMA NextIsLedgerStep ==
    ASSUME IndInv, [Next]_vars
    PROVE  LedgerStep
<1>1. CASE ChainNext /\ UNCHANGED <<storeVars, fetchVars, procVars>>
  <2>1. L!ChainNext
    BY <1>1 DEF ChainNext, Mine, Reorg, ValidChain, L!ChainNext, L!Mine,
                L!Reorg, L!ValidChain, L!Blocks, AnyFork, L!AnyFork
  <2>2. UNCHANGED <<transfers, cursors, ranges>>
    BY <1>1 DEF storeVars
  <2> QED BY <2>1, <2>2, QuietTables DEF LedgerStep, L!LedgerNext
<1>2. ASSUME NEW p \in Indexers, IndexerNext(p) PROVE LedgerStep
  <2>1. CASE pc[p] = "commit" /\ BatchWrites(p)
    <3>1. /\ Token(p) \in Tokens
          /\ current[p] + 1 \in Blocks /\ toBlock[p] \in Blocks
          /\ L!Cover(Token(p), current[p] + 1, toBlock[p])
      BY <1>2, <2>1, BatchIsCover, QuietOrCommit
    <3>2. PICK t \in Tokens, f \in Blocks, n \in Blocks :
             t = Token(p) /\ f = current[p] + 1 /\ n = toBlock[p]
      BY <3>1
    <3>3. L!Cover(t, f, n)
      BY <3>1, <3>2 DEF L!Cover, L!Final, L!Canonical
    <3> QED BY <3>3, CoverIsLedgerStep
  <2>2. CASE UNCHANGED <<transfers, cursors, ranges>>
    BY <1>2, <2>2, QuietTables, QuietOrCommit
  <2> QED BY <1>2, <2>1, <2>2, QuietOrCommit
<1>3. CASE UNCHANGED vars
  BY <1>3, QuietTables DEF vars, storeVars
<1> QED BY <1>1, <1>2, <1>3 DEF Next

(***************************************************************************)
(* The indexer implements the ledger: for any number of processes, every   *)
(* commit, seen or unseen by its process, is one step of it, and nothing   *)
(* else touches it (service.py, _index_token).                             *)
(***************************************************************************)
THEOREM IndexerImplementsLedger == Spec => LedgerRefined
<1>1. IndInv /\ [Next]_vars => [L!LedgerNext]_<<L!chainVars, L!ledgerVars>>
  BY NextIsLedgerStep DEF LedgerStep
<1> QED BY <1>1, InitIsLedgerInit, IndexerInvariant, PTL
        DEF Spec, LedgerRefined, L!LedgerSpec

-----------------------------------------------------------------------------
(* The cursor of a token only moves forward, when one indexer runs.        *)

OneIndexer == \A p, q \in Indexers : p = q

\* What the one indexer believes it has done is no less than what its token's
\* cursor says: nobody else moves that cursor.
CursorBehind ==
    \A p \in Indexers : pc[p] \in {"head", "batch", "fetch", "commit"} =>
        cursors[Token(p)] = NoCursor \/ cursors[Token(p)] <= current[p]

CursorsForward ==
    \A t \in Tokens : cursors[t] # NoCursor =>
        cursors'[t] # NoCursor /\ cursors'[t] >= cursors[t]

\* Cursors that stay do not go back.
LEMMA CursorsStay ==
    ASSUME StoreTypeOK, UNCHANGED cursors
    PROVE  CursorsForward
<1> SUFFICES ASSUME NEW t \in Tokens, cursors[t] # NoCursor
             PROVE  cursors'[t] # NoCursor /\ cursors'[t] >= cursors[t]
  BY DEF CursorsForward
<1>1. cursors[t] \in Int /\ cursors'[t] = cursors[t]
  BY DEF StoreTypeOK
<1> QED BY <1>1

\* A batch moves the cursor past everything its process had read.
LEMMA BatchMovesForward ==
    ASSUME IndInv, CursorBehind, NEW p \in Indexers, pc[p] = "commit",
           BatchWrites(p)
    PROVE  CursorsForward
<1> USE DEF IndInv, TypeOK
<1>1. Token(p) \in Tokens /\ toBlock[p] \in Int /\ current[p] \in Int
      /\ current[p] + 1 <= toBlock[p]
  BY TokenType, BatchBounds
<1>2. cursors' = [cursors EXCEPT ![Token(p)] = toBlock[p]]
  BY DEF BatchWrites, SetCursor
<1> SUFFICES ASSUME NEW t \in Tokens, cursors[t] # NoCursor
             PROVE  cursors'[t] # NoCursor /\ cursors'[t] >= cursors[t]
  BY DEF CursorsForward
<1>3. cursors[t] \in Int
  BY DEF StoreTypeOK
<1>4. CASE t = Token(p)
  <2>1. cursors'[t] = toBlock[p]
    BY <1>1, <1>2, <1>4 DEF StoreTypeOK
  <2>2. cursors[t] <= current[p]
    BY <1>4 DEF CursorBehind
  <2> QED BY <1>1, <1>3, <2>1, <2>2, StoreConstants
<1>5. CASE t # Token(p)
  <2>1. cursors'[t] = cursors[t]
    BY <1>2, <1>5 DEF StoreTypeOK
  <2> QED BY <1>3, <2>1
<1> QED BY <1>4, <1>5

\* A lone indexer overwrites its own cursor only.
LEMMA CursorBehindKept ==
    ASSUME OneIndexer, IndInv, CursorBehind, [Next]_vars
    PROVE  CursorBehind' /\ CursorsForward
<1> USE DEF IndInv, TypeOK
<1>1. ASSUME UNCHANGED <<cursors, procVars>>
      PROVE  CursorBehind' /\ CursorsForward
  BY <1>1, CursorsStay DEF CursorBehind, Token, procVars
<1>2. ASSUME NEW p \in Indexers, IndexerNext(p)
      PROVE  CursorBehind' /\ CursorsForward
  <2>1. CursorsForward
    BY <1>2, QuietOrCommit, BatchMovesForward, CursorsStay
  <2> SUFFICES ASSUME pc'[p] \in {"head", "batch", "fetch", "commit"}
               PROVE  cursors'[Token(p)'] = NoCursor \/ cursors'[Token(p)'] <= current'[p]
    BY <2>1 DEF CursorBehind, OneIndexer
  <2>2. CASE ReadCursor(p)
    <3>1. /\ pc[p] = "cursor" /\ current'[p] = Resume(p) /\ cursors' = cursors
          /\ Token(p)' = Token(p)
      BY <2>2 DEF ReadCursor, IndexerTypeOK, storeVars, Token
    <3>2. Token(p) \in Tokens
      BY <3>1, TokenType
    <3> QED BY <3>1, <3>2 DEF Resume, StoreTypeOK
  <2>3. CASE Commit(p)
    <3>1. /\ pc[p] = "commit" /\ BatchWrites(p) /\ current'[p] = toBlock[p]
          /\ Token(p)' = Token(p)
      BY <2>3 DEF Commit, Committed, IndexerTypeOK, Token
    <3>2. Token(p) \in Tokens /\ toBlock[p] \in Int
      BY <3>1, TokenType, BatchBounds
    <3>3. cursors'[Token(p)] = toBlock[p]
      BY <3>1, <3>2 DEF BatchWrites, SetCursor, StoreTypeOK
    <3> QED BY <3>1, <3>2, <3>3
  <2>4. ASSUME NextToken(p), pc[p] \in {"head", "batch"}
        PROVE  pc'[p] \in {"ensure", "wait"}
    BY <2>4 DEF NextToken, Goto, IndexerTypeOK
  <2>5. CASE ReadHead(p) \/ BatchTop(p)
    <3>1. pc[p] \in {"head", "batch"} /\ ~NextToken(p)
      BY <2>4, <2>5 DEF ReadHead, BatchTop
    <3>2. cursors' = cursors /\ current' = current /\ Token(p)' = Token(p)
      BY <2>5, <3>1 DEF ReadHead, BatchTop, storeVars, Token
    <3> QED BY <3>1, <3>2 DEF CursorBehind
  <2>6. CASE Serve(p) \/ Bisect(p) \/ Times(p) \/ Signal(p)
    <3>1. /\ cursors' = cursors /\ current' = current /\ Token(p)' = Token(p)
          /\ pc'[p] = pc[p] \/ pc[p] = "fetch"
      BY <2>6 DEF Serve, Bisect, Times, Signal, storeVars, procVars, Token
    <3> QED BY <3>1 DEF CursorBehind
  <2>7. CASE Boot(p) \/ EnsureToken(p) \/ NextCycle(p) \/ Exit(p) \/ Crash(p)
             \/ Fail(p) \/ LoseReply(p)
    <3>1. pc'[p] \in {"ensure", "cursor", "wait", "down"}
      BY <2>7 DEF Boot, EnsureToken, NextCycle, StartCycle, Exit, Crash, Fail,
                  LoseReply, Raise, Goto, IndexerTypeOK
    <3> QED BY <3>1
  <2> QED BY <1>2, <2>2, <2>3, <2>5, <2>6, <2>7 DEF IndexerNext, Step, Fault
<1> QED BY <1>1, <1>2 DEF Next, vars, storeVars

\* With one indexer no crash, rollback or lost reply moves a cursor back.
THEOREM CursorNeverBack ==
    ASSUME OneIndexer
    PROVE  Spec => CursorMonotone
<1>1. Init => CursorBehind
  BY DEF Init, CursorBehind
<1>2. IndInv /\ CursorBehind /\ [Next]_vars => CursorBehind' /\ CursorsForward
  BY CursorBehindKept
<1>3. IndInv /\ CursorBehind /\ [Next]_vars
      => [\A t \in Tokens : cursors[t] # NoCursor =>
            /\ cursors'[t] # NoCursor
            /\ cursors'[t] >= cursors[t]]_vars
  BY <1>2 DEF CursorsForward
<1> QED BY <1>1, <1>2, <1>3, IndexerInvariant, PTL DEF Spec, CursorMonotone

=============================================================================
