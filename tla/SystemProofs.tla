---------------------------- MODULE SystemProofs ----------------------------
(***************************************************************************)
(* Proofs about backfills, alone and next to the live indexer.             *)
(*                                                                         *)
(* A backfill keeps BackfillInv, for every chain, any number of workers    *)
(* and every range an operator may ask for that is final: what the range   *)
(* arithmetic says of the coverage records, what a step does to the books  *)
(* of the run (RunInv), and what it does to the tables and to the locals   *)
(* of the workers.  The live indexer and backfills share the tables and    *)
(* nothing else, and neither breaks what the other relies on; nor does the *)
(* operator of Maintenance.  Last comes Deployment, where both write row   *)
(* by row next to the clients: its steps are steps of System and of        *)
(* Transactions, so what is proved of the two holds of it.                 *)
(*                                                                         *)
(* The theorems assume that backfills stay away from blocks a              *)
(* reorganisation can reach: ReorgDepth <= Buffer.  The code does not      *)
(* check that (run unconfirmed shows what happens without it).             *)
(***************************************************************************)
EXTENDS Deployment, Maintenance, IndexerProofs, RangesProofs

USE DEF Blocks

-----------------------------------------------------------------------------
(* Coverage records as ranges.                                             *)

\* No record is backwards.
RecordsOrdered == \A r \in ranges : r.from <= r.to

\* There are finitely many ranges of the chain's blocks.
LEMMA BlockRangesFinite == IsFiniteSet(BlockRange)
<1> DEFINE Pairs == Blocks \X Blocks
           f == [x \in Pairs |-> [from |-> x[1], to |-> x[2]]]
<1>1. IsFiniteSet(Blocks)
  BY FS_Interval, ChainConstants
<1>2. IsFiniteSet(Pairs)
  BY <1>1, FS_Product
<1>3. f \in Surjection(Pairs, BlockRange)
  <2>1. f \in [Pairs -> BlockRange]
    BY DEF BlockRange
  <2>2. ASSUME NEW r \in BlockRange
        PROVE  \E x \in Pairs : f[x] = r
    <3>1. <<r.from, r.to>> \in Pairs /\ r = [from |-> r.from, to |-> r.to]
      BY DEF BlockRange
    <3>2. f[<<r.from, r.to>>] = r
      BY <3>1
    <3> QED BY <3>1, <3>2
  <2> HIDE DEF f, Pairs
  <2> QED BY <2>1, <2>2 DEF Surjection
<1> QED BY <1>2, <1>3, FS_Surjection

\* _covered_ranges: what compute_gaps is called with.
LEMMA CoveredRangesValid ==
    ASSUME StoreTypeOK, RecordsOrdered, NEW f, NEW n
    PROVE  IsFiniteSet(CoveredRanges(f, n)) /\ CoveredRanges(f, n) \subseteq ValidRange
<1>1. ASSUME NEW c \in CoveredRanges(f, n)
      PROVE  c \in BlockRange /\ c \in ValidRange
  <2>1. PICK r \in ranges : c = RangeOf(r.from, r.to)
    BY DEF CoveredRanges
  <2>2. r.from \in Blocks /\ r.to \in Blocks /\ r.from <= r.to
    BY DEF StoreTypeOK, IndexedRange, RecordsOrdered
  <2> QED BY <2>1, <2>2, ChainConstants
          DEF RangeOf, BlockRange, ValidRange, IntRange
<1>2. CoveredRanges(f, n) \in SUBSET BlockRange
  BY <1>1
<1> QED BY <1>1, <1>2, BlockRangesFinite, FS_Subset

\* The ranges that meet f to n say of the blocks between them what the table says.
LEMMA CoveredRangesMean ==
    ASSUME StoreTypeOK, NEW f \in Int, NEW n \in Int, NEW b \in f .. n
    PROVE  Covered(BackfillToken, b) <=> \E c \in CoveredRanges(f, n) : In(b, c)
<1>1. \A r \in ranges : r.from \in Int /\ r.to \in Int
  BY ChainConstants DEF StoreTypeOK, IndexedRange
<1>2. ASSUME NEW r \in ranges, r.token = BackfillToken, r.from <= b, b <= r.to
      PROVE  \E c \in CoveredRanges(f, n) : In(b, c)
  <2>1. r.to >= f /\ r.from <= n
    BY <1>1, <1>2
  <2>2. RangeOf(r.from, r.to) \in CoveredRanges(f, n)
    BY <1>2, <2>1 DEF CoveredRanges
  <2> QED BY <1>2, <2>2 DEF In, RangeOf
<1>3. ASSUME NEW c \in CoveredRanges(f, n), In(b, c)
      PROVE  Covered(BackfillToken, b)
  <2>1. PICK r \in ranges : r.token = BackfillToken /\ c = RangeOf(r.from, r.to)
    BY DEF CoveredRanges
  <2> QED BY <1>3, <2>1 DEF In, RangeOf, Covered
<1> QED BY <1>2, <1>3 DEF Covered

(***************************************************************************)
(* range_fully_covered answers what its name asks: every block of the      *)
(* range is on record.                                                     *)
(***************************************************************************)
LEMMA FullyCoveredMeans ==
    ASSUME StoreTypeOK, RecordsOrdered, NEW f \in Int, NEW n \in Int
    PROVE  FullyCovered(f, n) <=> \A b \in f .. n : Covered(BackfillToken, b)
<1> DEFINE C == CoveredRanges(f, n)
<1>1. IsFiniteSet(C) /\ C \subseteq ValidRange
  BY CoveredRangesValid
<1>2. \A b \in f .. n : Covered(BackfillToken, b) <=> \E c \in C : In(b, c)
  BY CoveredRangesMean
<1>3. FullyCovered(f, n) <=> ComputeGaps(f, n, C) = <<>>
  BY DEF FullyCovered
<1> HIDE DEF C
<1>4. ComputeGaps(f, n, C) = <<>> <=> \A b \in f .. n : \E c \in C : In(b, c)
  BY <1>1, NoGapMeansCovered
<1> QED BY <1>2, <1>3, <1>4

(***************************************************************************)
(* The gaps of a scan are valid ranges inside it, and hold every block     *)
(* that is not on record.                                                  *)
(***************************************************************************)
LEMMA GapsMean ==
    ASSUME StoreTypeOK, RecordsOrdered, NEW f \in Int, NEW n \in Int
    PROVE  LET g == ComputeGaps(f, n, CoveredRanges(f, n))
           IN /\ g \in Seq(ValidRange)
              /\ \A k \in 1 .. Len(g) : f <= g[k].from /\ g[k].to <= n
              /\ \A b \in f .. n : Covered(BackfillToken, b) \/ Holds(g, b)
<1> DEFINE C == CoveredRanges(f, n)
           g == ComputeGaps(f, n, C)
<1>1. IsFiniteSet(C) /\ C \subseteq ValidRange
  BY CoveredRangesValid
<1>2. \A b \in f .. n : Covered(BackfillToken, b) <=> \E c \in C : In(b, c)
  BY CoveredRangesMean
<1> HIDE DEF C
<1>3. /\ g \in Seq(ValidRange)
      /\ \A k \in 1 .. Len(g) : f <= g[k].from /\ g[k].to <= n
      /\ \A b \in f .. n : Holds(g, b) <=> \A r \in C : ~In(b, r)
  BY <1>1, GapsCorrect
<1> HIDE DEF g
<1>4. \A b \in f .. n : Covered(BackfillToken, b) \/ Holds(g, b)
  BY <1>2, <1>3
<1> QED BY <1>3, <1>4 DEF g, C

-----------------------------------------------------------------------------
(* The chunks of a run.                                                    *)

\* The chunks of one range of the plan.
LEMMA ChunksOfPlan ==
    ASSUME plan \in Seq(BlockRange), NEW k \in 1 .. Len(plan),
           plan[k].from <= plan[k].to
    PROVE  LET c == Chunks(plan[k].from, plan[k].to, Cardinality(Workers), ChunkBatch)
           IN /\ c \in Seq(BlockRange)
              /\ \A i \in 1 .. Len(c) : InPlan(c[i])
              /\ \A b \in plan[k].from .. plan[k].to : Holds(c, b)
<1> DEFINE f == plan[k].from
           n == plan[k].to
           W == Cardinality(Workers)
           c == Chunks(f, n, W, ChunkBatch)
<1>1. plan[k] \in BlockRange
  OBVIOUS
<1>2. f \in Blocks /\ n \in Blocks /\ f \in Int /\ n \in Int /\ f <= n
  BY <1>1, ChainConstants DEF BlockRange
<1>3. W \in Nat \ {0} /\ ChunkBatch \in Nat \ {0}
  BY BackfillConstants, FS_CardinalityType, FS_EmptySet
<1> HIDE DEF W
<1>4. /\ c \in Seq(ValidRange)
      /\ \A i \in 1 .. Len(c) : f <= c[i].from /\ c[i].to <= n
      /\ \A b \in f .. n : Holds(c, b)
  <2> HIDE DEF f, n
  <2>1. IsSplit(c, f, n, W)
    BY <1>2, <1>3, ChunksCorrect
  <2> HIDE DEF c
  <2> QED BY <2>1 DEF IsSplit
<1> HIDE DEF c
<1>5. ASSUME NEW i \in 1 .. Len(c)
      PROVE  c[i] \in BlockRange /\ InPlan(c[i])
  <2>1. /\ c[i] \in [from : Int, to : Int] /\ c[i].from <= c[i].to
        /\ f <= c[i].from /\ c[i].to <= n
    BY <1>4 DEF ValidRange, IntRange
  <2>2. c[i].from \in Blocks /\ c[i].to \in Blocks
    BY <1>2, <2>1, ChainConstants
  <2>3. c[i] \in BlockRange
    BY <2>1, <2>2 DEF BlockRange
  <2> QED BY <2>1, <2>3 DEF InPlan
<1>6. Len(c) \in Nat /\ c \in [1 .. Len(c) -> ValidRange]
  BY <1>4
<1>7. c \in Seq(BlockRange)
  <2>1. c \in [1 .. Len(c) -> BlockRange]
    BY <1>5, <1>6
  <2> QED BY <1>6, <2>1
<1> QED BY <1>4, <1>5, <1>7 DEF c, W

(***************************************************************************)
(* What run() submits: every chunk is a part of the plan, and every block  *)
(* of the plan is in a chunk.                                              *)
(***************************************************************************)
LEMMA AllChunksCorrect ==
    ASSUME plan \in Seq(BlockRange),
           \A k \in 1 .. Len(plan) : plan[k].from <= plan[k].to
    PROVE  /\ AllChunks \in Seq(BlockRange)
           /\ \A i \in 1 .. Len(AllChunks) : InPlan(AllChunks[i])
           /\ \A k \in 1 .. Len(plan) : \A b \in plan[k].from .. plan[k].to :
                 Holds(AllChunks, b)
<1> DEFINE C(k) == Chunks(plan[k].from, plan[k].to, Cardinality(Workers), ChunkBatch)
           q == [k \in 1 .. Len(plan) |-> C(k)]
           all == FlattenSeq(q)
<1>1. \A k \in 1 .. Len(plan) :
         /\ C(k) \in Seq(BlockRange)
         /\ \A i \in 1 .. Len(C(k)) : InPlan(C(k)[i])
         /\ \A b \in plan[k].from .. plan[k].to : Holds(C(k), b)
  BY ChunksOfPlan
<1>2. DOMAIN plan = 1 .. Len(plan) /\ Len(plan) \in Nat
  OBVIOUS
<1>3. AllChunks = all
  BY <1>2 DEF AllChunks
<1> HIDE DEF C
<1>4. q \in Seq(Seq(BlockRange)) /\ Len(q) = Len(plan)
      /\ \A k \in 1 .. Len(plan) : q[k] = C(k)
  BY <1>1, <1>2
<1> HIDE DEF q
<1>5. /\ all \in Seq(BlockRange)
      /\ \A x : Contains(all, x) <=> \E k \in 1 .. Len(plan) : Contains(C(k), x)
  BY <1>4, FlattenCorrect
<1> HIDE DEF all
<1>6. ASSUME NEW i \in 1 .. Len(all)
      PROVE  InPlan(all[i])
  <2>1. Contains(all, all[i])
    BY DEF Contains
  <2>2. PICK k \in 1 .. Len(plan) : Contains(C(k), all[i])
    BY <1>5, <2>1
  <2> QED BY <1>1, <2>2 DEF Contains
<1>7. ASSUME NEW k \in 1 .. Len(plan), NEW b \in plan[k].from .. plan[k].to
      PROVE  Holds(all, b)
  <2>1. PICK i \in 1 .. Len(C(k)) : In(b, C(k)[i])
    BY <1>1 DEF Holds
  <2>2. Contains(C(k), C(k)[i])
    BY DEF Contains
  <2>3. Contains(all, C(k)[i])
    BY <1>5, <2>2
  <2> QED BY <2>1, <2>3 DEF Contains, Holds
<1> QED BY <1>3, <1>5, <1>6, <1>7

-----------------------------------------------------------------------------
(* The invariant in two parts, and what leaves a part alone.               *)

CursorsFinal ==
    \A t \in Tokens : cursors[t] # NoCursor =>
        cursors[t] \in Blocks /\ Final(cursors[t])

\* What a backfill needs of the chain and of the tables.
Tables ==
    /\ ChainTypeOK /\ ChainInv
    /\ StoreTypeOK /\ RecordsFinal /\ RecordsOrdered /\ CursorsFinal
    /\ CoverageSound /\ NothingOrphaned

\* The invariant by its parts: tables, threads, chunks.
LEMMA BackfillInvParts ==
    BackfillInv <=>
        /\ Tables
        /\ FetchTypeOK /\ BackfillTypeOK /\ RunInv
        /\ \A w \in Workers : ChunkInv(w)
  BY DEF BackfillInv, Tables, RecordsOrdered, CursorsFinal

\* The tables, when nothing touches them.
LEMMA TablesSame ==
    ASSUME Tables, UNCHANGED <<chainVars, storeVars>>
    PROVE  Tables'
<1>1. \A t, b : Canonical(t, b)' = Canonical(t, b)
  BY DEF Canonical, chainVars
<1>2. ChainTypeOK' /\ ChainInv'
  BY DEF Tables, ChainTypeOK, ChainInv, ValidChain, chainVars
<1>3. StoreTypeOK' /\ RecordsFinal' /\ RecordsOrdered' /\ CursorsFinal'
  BY DEF Tables, StoreTypeOK, RecordsFinal, RecordsOrdered, CursorsFinal,
         Final, chainVars, storeVars
<1>4. CoverageSound' /\ NothingOrphaned'
  BY <1>1 DEF Tables, CoverageSound, NothingOrphaned, storeVars
<1> QED BY <1>2, <1>3, <1>4 DEF Tables

\* A step that does not concern the locals of process q.
Untouched(q) ==
    /\ todo'[q] = todo[q] /\ logs'[q] = logs[q]
    /\ rows'[q] = rows[q] /\ cache'[q] = cache[q]

\* A chunk that a step leaves alone.
LEMMA ChunkKept ==
    ASSUME NEW w \in Workers, ChunkInv(w), UNCHANGED chainVars, Untouched(w),
           wpc'[w] = wpc[w], chunk'[w] = chunk[w]
    PROVE  ChunkInv(w)'
<1>1. \A t, f, n : GetLogs(t, f, n)' = GetLogs(t, f, n)
  BY DEF GetLogs, chainVars
<1>2. \A t, b : Canonical(t, b)' = Canonical(t, b)
  BY DEF Canonical, chainVars
<1>3. \A t, f, n : FetchInv(w, t, f, n) => FetchInv(w, t, f, n)'
  BY <1>1 DEF FetchInv, Untouched
<1>4. \A t, f, n : RowsInv(w, t, f, n) => RowsInv(w, t, f, n)'
  BY <1>2 DEF RowsInv, Untouched
<1>5. CacheInv(w)'
  BY DEF ChunkInv, CacheInv, Untouched, Final, chainVars
<1> QED BY <1>3, <1>4, <1>5 DEF ChunkInv, Untouched

\* The chunk a worker has is a range of final blocks.
LEMMA ChunkBounds ==
    ASSUME ChainTypeOK, BackfillTypeOK, RunInv,
           NEW w \in Workers, wpc[w] # "idle"
    PROVE  /\ mpc = "pool" /\ InPlan(chunk[w])
           /\ chunk[w] \in BlockRange
           /\ chunk[w].from \in Blocks /\ chunk[w].to \in Blocks
           /\ chunk[w].from <= chunk[w].to /\ Final(chunk[w].to)
<1>1. mpc = "pool" /\ InPlan(chunk[w])
  BY DEF RunInv
<1>2. PICK k \in 1 .. Len(plan) :
        plan[k].from <= chunk[w].from /\ chunk[w].to <= plan[k].to
  BY <1>1 DEF InPlan
<1>3. chunk[w] # NoRange
  BY <1>1 DEF InPlan, NoRange, RangeOf
<1>4. chunk[w] \in BlockRange /\ chunk[w].from <= chunk[w].to
      /\ chunk[w].from \in Blocks /\ chunk[w].to \in Blocks
  BY <1>1, <1>3 DEF BackfillTypeOK, BlockRange, InPlan
<1>5. /\ plan[k] \in BlockRange /\ target.from \in Int /\ target.to \in Int
      /\ target.from <= plan[k].from /\ plan[k].to <= target.to
  BY DEF BackfillTypeOK, RunInv
<1>6. target.from <= target.to /\ chunk[w].to <= target.to
  BY <1>2, <1>4, <1>5, ChainConstants DEF BlockRange
<1>7. Final(target.to)
  BY <1>1, <1>6 DEF RunInv
<1>8. Final(chunk[w].to)
  BY <1>4, <1>5, <1>6, <1>7, ChainConstants DEF Final, ChainTypeOK
<1> QED BY <1>1, <1>4, <1>8

-----------------------------------------------------------------------------
(* The main thread.                                                        *)

\* A run begins with clean books.
LEMMA IdleIsClean ==
    ASSUME BackfillTypeOK, RunInv, mpc \in {"idle", "cursor", "scan", "check"}
    PROVE  /\ queue = <<>> /\ ~wrote /\ ~promised
           /\ \A w \in Workers : wpc[w] = "idle"
           /\ mpc # "check" => plan = <<>> /\ checked = 0
  BY DEF BackfillTypeOK, RunInv

\* A run of a requested range begins.
LEMMA RunRangeKeeps ==
    ASSUME BackfillInv, ReorgDepth <= Buffer, RunRange
    PROVE  BackfillTypeOK' /\ RunInv'
<1> USE DEF BackfillInv
<1>1. PICK r \in Requests :
        r.to <= head - Buffer /\ target' = r /\ plan' = <<r>>
  BY DEF RunRange
<1>2. /\ mpc = "idle" /\ mpc' = "check" /\ checked' = checked
      /\ promised' = promised /\ queue' = queue /\ wpc' = wpc
      /\ chunk' = chunk /\ failed' = failed /\ wrote' = wrote
  BY DEF RunRange, poolVars
<1>3. /\ queue = <<>> /\ ~wrote /\ ~promised /\ plan = <<>> /\ checked = 0
      /\ \A w \in Workers : wpc[w] = "idle"
  BY <1>2, IdleIsClean
<1>4. /\ r \in BlockRange /\ r.from <= r.to
      /\ r.from \in Blocks /\ r.to \in Blocks
  BY BackfillConstants DEF BlockRange
<1>5. Final(r.to) /\ peak' = peak
  <2>1. /\ head \in Int /\ peak \in Int /\ head <= peak
        /\ ReorgDepth \in Int /\ Buffer \in Int
    BY ChainConstants, BackfillConstants DEF ChainTypeOK, ChainInv
  <2> QED BY <1>1, <1>4, <2>1, ChainConstants DEF Final, RunRange, chainVars
<1>6. Len(plan') = 1 /\ plan'[1] = r /\ plan' \in Seq(BlockRange)
  BY <1>1, <1>4
<1>7. BackfillTypeOK'
  BY <1>1, <1>2, <1>3, <1>4, <1>6, ChainConstants DEF BackfillTypeOK, BlockRange
<1>8. \A b \in r.from .. r.to : Holds(plan', b)
  BY <1>4, <1>6, ChainConstants DEF Holds, In
<1>9. RunInv'
  BY <1>1, <1>2, <1>3, <1>4, <1>5, <1>6, <1>8 DEF RunInv, Final
<1> QED BY <1>7, <1>9

\* A gap scan begins.
LEMMA RunGapScanKeeps ==
    ASSUME BackfillInv, RunGapScan
    PROVE  BackfillTypeOK' /\ RunInv'
<1> USE DEF BackfillInv
<1>1. /\ mpc = "idle" /\ mpc' = "cursor" /\ target' = target /\ plan' = plan
      /\ checked' = checked
      /\ promised' = promised /\ queue' = queue /\ wpc' = wpc
      /\ chunk' = chunk /\ failed' = failed /\ wrote' = wrote
  BY DEF RunGapScan, poolVars
<1>2. /\ queue = <<>> /\ ~wrote /\ ~promised /\ plan = <<>> /\ checked = 0
      /\ \A w \in Workers : wpc[w] = "idle"
  BY <1>1, IdleIsClean
<1>3. BackfillTypeOK'
  BY <1>1 DEF BackfillTypeOK
<1>4. RunInv'
  BY <1>1, <1>2 DEF RunInv
<1> QED BY <1>3, <1>4

\* A scan that reads a cursor answers for final blocks: cursors are final.
LEMMA ScanCursorKeeps ==
    ASSUME BackfillInv, ScanCursor
    PROVE  BackfillTypeOK' /\ RunInv'
<1> USE DEF BackfillInv
<1> DEFINE end == IF cursors[BackfillToken] = NoCursor THEN StartBlock - 1
                  ELSE cursors[BackfillToken]
<1>1. /\ mpc = "cursor" /\ target' = RangeOf(StartBlock, end)
      /\ mpc' = IF end < StartBlock THEN "done" ELSE "scan"
      /\ plan' = plan /\ checked' = checked /\ promised' = promised
      /\ queue' = queue /\ wpc' = wpc
      /\ chunk' = chunk /\ failed' = failed /\ wrote' = wrote
      /\ peak' = peak
  BY DEF ScanCursor, poolVars, chainVars
<1>2. /\ queue = <<>> /\ ~wrote /\ ~promised /\ plan = <<>> /\ checked = 0
      /\ \A w \in Workers : wpc[w] = "idle"
  BY <1>1, IdleIsClean
<1>3. end \in Int /\ StartBlock \in Blocks /\ StartBlock \in Int
      /\ (end >= StartBlock => end \in Blocks /\ Final(end))
  BY StoreConstants, ChainConstants, BackfillConstants
<1> HIDE DEF end
<1>4. BackfillTypeOK'
  BY <1>1, <1>2, <1>3 DEF BackfillTypeOK, RangeOf
<1>5. target'.from = StartBlock /\ target'.to = end
  BY <1>1 DEF RangeOf
<1>6. RunInv'
  BY <1>1, <1>2, <1>3, <1>5 DEF RunInv, Final
<1> QED BY <1>4, <1>6

\* The coverage is read: the gaps hold what is not covered.
LEMMA ScanGapsKeeps ==
    ASSUME BackfillInv, ScanGaps
    PROVE  BackfillTypeOK' /\ RunInv'
<1> USE DEF BackfillInv
<1> DEFINE f == target.from
           n == target.to
           g == ComputeGaps(f, n, CoveredRanges(f, n))
<1>1. /\ mpc = "scan" /\ target' = target /\ plan' = g
      /\ mpc' = IF plan' = <<>> THEN "done" ELSE "check"
      /\ checked' = checked /\ promised' = promised
      /\ queue' = queue /\ wpc' = wpc
      /\ chunk' = chunk /\ failed' = failed /\ wrote' = wrote
      /\ peak' = peak /\ ranges' = ranges
  BY DEF ScanGaps, poolVars, chainVars, storeVars
<1>2. /\ queue = <<>> /\ ~wrote /\ ~promised /\ plan = <<>> /\ checked = 0
      /\ \A w \in Workers : wpc[w] = "idle"
  BY <1>1, IdleIsClean
<1>3. f \in Int /\ n \in Int
  BY DEF BackfillTypeOK
<1>4. /\ g \in Seq(ValidRange)
      /\ \A k \in 1 .. Len(g) : f <= g[k].from /\ g[k].to <= n
      /\ \A b \in f .. n : Covered(BackfillToken, b) \/ Holds(g, b)
  <2> HIDE DEF f, n
  <2> QED BY <1>3, GapsMean DEF RecordsOrdered
<1> HIDE DEF g
<1>5. ASSUME NEW k \in 1 .. Len(g)
      PROVE  g[k] \in BlockRange /\ g[k].from <= g[k].to
  <2>1. g[k] \in [from : Int, to : Int] /\ g[k].from <= g[k].to
    BY <1>4 DEF ValidRange, IntRange
  <2>2. f <= n
    BY <1>3, <1>4, <2>1
  <2>3. f \in Blocks /\ n \in Blocks
    BY <1>1, <2>2 DEF RunInv
  <2>4. g[k].from \in Blocks /\ g[k].to \in Blocks
    BY <1>4, <2>1, <2>3, ChainConstants
  <2> QED BY <2>1, <2>4 DEF BlockRange
<1>6. Len(g) \in Nat /\ g \in [1 .. Len(g) -> ValidRange] /\ (g # <<>> => 0 < Len(g))
  BY <1>4
<1>7. g \in Seq(BlockRange)
  <2>1. g \in [1 .. Len(g) -> BlockRange]
    BY <1>5, <1>6
  <2> QED BY <1>6, <2>1
<1>8. BackfillTypeOK'
  BY <1>1, <1>2, <1>6, <1>7 DEF BackfillTypeOK
<1>9. f <= n => f \in Blocks /\ n \in Blocks /\ Final(n)
  BY <1>1 DEF RunInv
<1>10. \A b \in f .. n : Covered(BackfillToken, b)' \/ Holds(g, b)
  BY <1>1, <1>4 DEF Covered
<1>11. target'.from = f /\ target'.to = n
  BY <1>1
<1> HIDE DEF f, n
<1>12. RunInv'
  BY <1>1, <1>2, <1>4, <1>5, <1>6, <1>9, <1>10, <1>11 DEF RunInv, Final
<1> QED BY <1>8, <1>12

\* One range of the plan is checked; after the last the chunks are queued.
LEMMA CheckRangeKeeps ==
    ASSUME BackfillInv, CheckRange
    PROVE  BackfillTypeOK' /\ RunInv'
<1> USE DEF BackfillInv
<1> DEFINE r == plan[checked + 1]
           full == FullyCovered(r.from, r.to)
           on == full /\ checked + 1 < Len(plan)
<1>1. /\ mpc = "check"
      /\ checked' = IF full THEN checked + 1 ELSE checked
      /\ on => mpc' = mpc /\ promised' = promised /\ queue' = queue
      /\ ~on => mpc' = "pool" /\ promised' = full /\ queue' = AllChunks
      /\ target' = target /\ plan' = plan /\ wpc' = wpc
      /\ chunk' = chunk /\ failed' = failed /\ wrote' = wrote
      /\ peak' = peak /\ ranges' = ranges
  BY DEF CheckRange, chainVars, storeVars
<1>2. /\ queue = <<>> /\ ~wrote /\ ~promised
      /\ \A w \in Workers : wpc[w] = "idle"
  BY <1>1, IdleIsClean
<1>3. /\ checked \in Nat /\ Len(plan) \in Nat /\ checked < Len(plan)
      /\ plan \in Seq(BlockRange) /\ checked + 1 \in 1 .. Len(plan)
  BY <1>1 DEF BackfillTypeOK, RunInv
<1>4. r \in BlockRange /\ r.from \in Int /\ r.to \in Int
  <2>1. r \in BlockRange
    BY <1>3
  <2> QED BY <2>1, ChainConstants DEF BlockRange
<1>5. full <=> \A b \in r.from .. r.to : Covered(BackfillToken, b)
  <2> HIDE DEF r
  <2> QED BY <1>4, FullyCoveredMeans DEF RecordsOrdered
<1>6. \A t, b : Covered(t, b)' <=> Covered(t, b)
  BY <1>1 DEF Covered
<1>7. /\ AllChunks \in Seq(BlockRange)
      /\ \A i \in 1 .. Len(AllChunks) : InPlan(AllChunks[i])
      /\ \A k \in 1 .. Len(plan) : \A b \in plan[k].from .. plan[k].to :
            Holds(AllChunks, b)
  BY <1>3, AllChunksCorrect DEF RunInv
<1>7a. full \in BOOLEAN
  BY DEF FullyCovered
<1> HIDE DEF full
<1>8. /\ checked' \in 0 .. Len(plan)
      /\ ~full => checked' = checked
      /\ full => checked' = checked + 1
      /\ full /\ ~on => checked + 1 = Len(plan)
      /\ on => checked' < Len(plan)
      /\ on => full
  BY <1>1, <1>3, <1>7a
<1> HIDE DEF on
<1>9. ASSUME NEW k \in 1 .. checked', NEW b \in plan[k].from .. plan[k].to
      PROVE  Covered(BackfillToken, b)
  <2>1. CASE k \in 1 .. checked
    BY <1>9, <2>1 DEF RunInv
  <2>2. CASE k \notin 1 .. checked
    <3>1. full /\ k = checked + 1
      BY <1>3, <1>8, <2>2
    <3> QED BY <1>5, <1>9, <3>1
  <2> QED BY <2>1, <2>2
<1>10. mpc' \in {"check", "pool"} /\ promised' \in BOOLEAN
       /\ queue' \in Seq(BlockRange)
  BY <1>1, <1>2, <1>7, <1>7a DEF BackfillTypeOK
<1>11. BackfillTypeOK'
  BY <1>1, <1>8, <1>10 DEF BackfillTypeOK
<1>12. ASSUME promised'
       PROVE  \A k \in 1 .. Len(plan) :
                 \A b \in plan[k].from .. plan[k].to : Covered(BackfillToken, b)
  <2>1. full /\ ~on
    BY <1>1, <1>2, <1>12
  <2>2. checked' = Len(plan)
    BY <1>8, <2>1
  <2> QED BY <1>9, <2>2
<1> HIDE DEF r
<1>13. ASSUME mpc' = "pool"
       PROVE  queue' = AllChunks
  BY <1>1, <1>13
<1>14. ASSUME mpc' # "pool"
       PROVE  on /\ queue' = <<>> /\ ~promised' /\ checked' < Len(plan)
  BY <1>1, <1>2, <1>8, <1>14
<1>15. ASSUME mpc' \in {"pool", "done"}, NEW k \in 1 .. Len(plan),
              NEW b \in plan[k].from .. plan[k].to
       PROVE  Accounted(b)'
  <2>1. queue' = AllChunks
    BY <1>10, <1>13, <1>15
  <2>2. Holds(queue', b)
    BY <1>7, <2>1
  <2> QED BY <2>2 DEF Accounted
<1>16. ASSUME NEW i \in 1 .. Len(queue')
       PROVE  InPlan(queue[i])'
  <2>1. CASE mpc' = "pool"
    <3>1. queue' = AllChunks
      BY <1>13, <2>1
    <3>2. i \in 1 .. Len(AllChunks) /\ queue'[i] = AllChunks[i]
      BY <3>1
    <3>3. InPlan(queue'[i])
      BY <1>7, <3>2
    <3> QED BY <1>1, <3>3 DEF InPlan
  <2>2. CASE mpc' # "pool"
    BY <1>14, <2>2
  <2> QED BY <2>1, <2>2
<1>17. RunInv'
  BY <1>1, <1>2, <1>6, <1>9, <1>10, <1>12, <1>14, <1>15, <1>16 DEF RunInv, Final
<1> QED BY <1>11, <1>17

\* The pool is drained of its results.
LEMMA DrainKeeps ==
    ASSUME BackfillInv, Drain
    PROVE  BackfillTypeOK' /\ RunInv'
<1> USE DEF BackfillInv
<1>1. /\ mpc = "pool" /\ mpc' = "done" /\ target' = target /\ plan' = plan
      /\ queue = <<>> /\ \A w \in Workers : wpc[w] = "idle"
      /\ checked' = checked /\ promised' = promised
      /\ queue' = queue /\ wpc' = wpc
      /\ chunk' = chunk /\ failed' = failed /\ wrote' = wrote
      /\ peak' = peak /\ ranges' = ranges
  BY DEF Drain, PoolDone, Idle, poolVars, chainVars, storeVars
<1>2. BackfillTypeOK'
  BY <1>1 DEF BackfillTypeOK
<1>3. \A t, b : Covered(t, b)' <=> Covered(t, b)
  BY <1>1 DEF Covered
<1>4. \A b : Accounted(b)' <=> Accounted(b)
  BY <1>1, <1>3 DEF Accounted
<1>5. RunInv'
  BY <1>1, <1>3, <1>4 DEF RunInv, Final
<1> QED BY <1>2, <1>5

-----------------------------------------------------------------------------
(* The workers.                                                            *)

(***************************************************************************)
(* What a step in the pool has to respect for the books to stay right: no  *)
(* block falls out of them, and nothing is written after a promise.        *)
(***************************************************************************)
LEMMA PoolStep ==
    ASSUME RunInv, mpc = "pool", UNCHANGED <<runVars, chainVars>>,
           ranges \subseteq ranges', promised => ~wrote',
           \A i \in 1 .. Len(queue') : InPlan(queue'[i]),
           \A w \in Workers : wpc'[w] # "idle" => InPlan(chunk'[w]),
           \A b : Accounted(b) => Accounted(b)'
    PROVE  RunInv'
<1>1. /\ mpc' = mpc /\ target' = target /\ plan' = plan /\ checked' = checked
      /\ promised' = promised /\ peak' = peak
  BY DEF runVars, chainVars
<1>2. \A t, b : Covered(t, b) => Covered(t, b)'
  BY CoveredGrows
<1>3. \A r : InPlan(r)' <=> InPlan(r)
  BY <1>1 DEF InPlan
<1>4. \A i \in 1 .. Len(queue') : InPlan(queue[i])'
  BY <1>1 DEF InPlan
<1>5. \A w \in Workers : wpc'[w] # "idle" => InPlan(chunk[w])'
  BY <1>1 DEF InPlan
<1> QED BY <1>1, <1>2, <1>4, <1>5 DEF RunInv, Final

\* A worker's step leaves the locals of the others alone.
LEMMA OtherWorkers ==
    ASSUME BackfillInv, UNCHANGED chainVars, NEW w \in Workers, ChunkInv(w)',
           \A v \in Workers \ {w} :
              Untouched(v) /\ wpc'[v] = wpc[v] /\ chunk'[v] = chunk[v]
    PROVE  \A v \in Workers : ChunkInv(v)'
  BY ChunkKept DEF BackfillInv

\* A worker takes a chunk off the queue.
LEMMA TakeChunkKeeps ==
    ASSUME BackfillInv, NEW w \in Workers, TakeChunk(w)
    PROVE  BackfillTypeOK' /\ RunInv' /\ \A v \in Workers : ChunkInv(v)'
<1> USE DEF BackfillInv
<1>1. /\ wpc[w] = "idle" /\ queue # <<>>
      /\ chunk' = [chunk EXCEPT ![w] = Head(queue)]
      /\ queue' = Tail(queue)
      /\ wpc' = [wpc EXCEPT ![w] = "ensure"]
      /\ failed' = failed /\ wrote' = wrote /\ ranges' = ranges
      /\ UNCHANGED <<runVars, chainVars>>
  BY DEF TakeChunk, WGoto, storeVars
<1>2. \A v \in Procs : Untouched(v)
  BY DEF TakeChunk, fetchVars, Untouched
<1>3. mpc = "pool" /\ w \in Procs
  BY <1>1, BackfillConstants DEF RunInv
<1>4. /\ queue \in Seq(BlockRange) /\ Len(queue) \in Nat /\ 1 \in 1 .. Len(queue)
      /\ Head(queue) = queue[1] /\ queue[1] \in BlockRange
      /\ Tail(queue) \in Seq(BlockRange) /\ Len(Tail(queue)) = Len(queue) - 1
      /\ \A i \in 1 .. Len(Tail(queue)) :
            i + 1 \in 1 .. Len(queue) /\ Tail(queue)[i] = queue[i + 1]
  BY <1>1 DEF BackfillTypeOK
<1>5. BackfillTypeOK'
  BY <1>1, <1>4 DEF BackfillTypeOK, runVars
<1>6. \A v \in Workers \ {w} : wpc'[v] = wpc[v] /\ chunk'[v] = chunk[v]
  BY <1>1 DEF BackfillTypeOK
<1>7. wpc'[w] = "ensure" /\ chunk'[w] = queue[1]
  BY <1>1, <1>4 DEF BackfillTypeOK
<1>8. \A i \in 1 .. Len(queue') : InPlan(queue'[i])
  BY <1>1, <1>4 DEF RunInv
<1>9. \A v \in Workers : wpc'[v] # "idle" => InPlan(chunk'[v])
  BY <1>4, <1>6, <1>7 DEF RunInv
<1>10. ASSUME NEW b, Accounted(b)
       PROVE  Accounted(b)'
  <2>1. CASE Covered(BackfillToken, b) \/ \E r \in failed : In(b, r)
    BY <1>1, <2>1 DEF Accounted, Covered
  <2>2. CASE Holds(queue, b)
    <3>1. PICK i \in 1 .. Len(queue) : In(b, queue[i])
      BY <2>2 DEF Holds
    <3>2. CASE i = 1
      BY <1>7, <3>1, <3>2 DEF Accounted
    <3>3. CASE i # 1
      <4>1. i - 1 \in 1 .. Len(queue') /\ queue'[i - 1] = queue[i]
        BY <1>1, <1>4, <3>3
      <4> QED BY <3>1, <4>1 DEF Holds, Accounted
    <3> QED BY <3>2, <3>3
  <2>3. CASE \E v \in Workers : wpc[v] # "idle" /\ In(b, chunk[v])
    BY <1>1, <1>6, <2>3 DEF Accounted
  <2> QED BY <1>10, <2>1, <2>2, <2>3 DEF Accounted
<1>11. RunInv'
  <2>1. promised => ~wrote'
    BY <1>1 DEF RunInv
  <2> QED BY <1>1, <1>3, <1>8, <1>9, <1>10, <2>1, PoolStep
<1>12. ChunkInv(w)'
  <2>1. CacheInv(w)' /\ logs'[w] = {}
    BY <1>1, <1>2, <1>3 DEF ChunkInv, CacheInv, Untouched, Final, chainVars
  <2> QED BY <1>7, <2>1 DEF ChunkInv
<1> QED BY <1>1, <1>2, <1>5, <1>6, <1>11, <1>12, OtherWorkers, BackfillConstants

\* A worker that goes on with its chunk does not change the books.
LEMMA ChunkGoesOn ==
    ASSUME BackfillInv, NEW w \in Workers, wpc[w] # "idle",
           NEW l \in {"fetch", "commit"}, wpc' = [wpc EXCEPT ![w] = l],
           UNCHANGED <<runVars, queue, chunk, failed, wrote, ranges, chainVars>>
    PROVE  BackfillTypeOK' /\ RunInv'
<1> USE DEF BackfillInv
<1>1. mpc = "pool"
  BY DEF RunInv
<1>2. BackfillTypeOK'
  BY DEF BackfillTypeOK, runVars
<1>3. \A v \in Workers : wpc'[v] # "idle" <=> wpc[v] # "idle"
  BY DEF BackfillTypeOK
<1>4. \A t, b : Covered(t, b)' <=> Covered(t, b)
  BY DEF Covered
<1>5. \A b : Accounted(b) => Accounted(b)'
  BY <1>3, <1>4 DEF Accounted
<1>6. /\ promised => ~wrote'
      /\ \A i \in 1 .. Len(queue') : InPlan(queue'[i])
      /\ \A v \in Workers : wpc'[v] # "idle" => InPlan(chunk'[v])
  BY <1>3 DEF RunInv
<1> QED BY <1>1, <1>2, <1>5, <1>6, PoolStep

\* A worker registers the token.
LEMMA EnsureChunkKeeps ==
    ASSUME BackfillInv, NEW w \in Workers, EnsureChunkToken(w)
    PROVE  /\ Tables' /\ BackfillTypeOK' /\ RunInv' /\ FetchTypeOK'
           /\ \A v \in Workers : ChunkInv(v)'
<1> USE DEF BackfillInv
<1>1. /\ wpc[w] = "ensure" /\ wpc' = [wpc EXCEPT ![w] = "fetch"]
      /\ StartFetch(w, chunk[w].from, chunk[w].to)
      /\ tokens' = tokens \cup {BackfillToken}
      /\ UNCHANGED <<transfers, cursors, ranges>>
      /\ UNCHANGED <<runVars, queue, chunk, failed, wrote, chainVars>>
  BY DEF EnsureChunkToken, WGoto
<1>2. /\ chunk[w].from \in Blocks /\ chunk[w].to \in Blocks
      /\ chunk[w].from <= chunk[w].to /\ Final(chunk[w].to)
  BY <1>1, ChunkBounds
<1>3. w \in Procs /\ logs[w] = {} /\ BackfillToken \in Tokens
  BY <1>1, BackfillConstants DEF ChunkInv
<1>4. FetchTypeOK' /\ FetchInv(w, BackfillToken, chunk[w].from, chunk[w].to)'
  <2> DEFINE f == chunk[w].from
             n == chunk[w].to
  <2>1. f' = f /\ n' = n
    BY <1>1
  <2>2. \A g, m \in Blocks : g <= m /\ StartFetch(w, g, m)
            => FetchTypeOK' /\ FetchInv(w, BackfillToken, g, m)'
    BY <1>1, <1>3, StartFetchCorrect
  <2> QED BY <1>1, <1>2, <2>1, <2>2
<1>5. \A v \in Workers \ {w} :
         Untouched(v) /\ wpc'[v] = wpc[v] /\ chunk'[v] = chunk[v]
  BY <1>1, BackfillConstants
  DEF StartFetch, Untouched, FetchTypeOK, BackfillTypeOK
<1>6. ChunkInv(w)'
  <2>1. wpc'[w] = "fetch"
    BY <1>1 DEF BackfillTypeOK
  <2>2. CacheInv(w)'
    BY <1>1 DEF ChunkInv, CacheInv, StartFetch, Final, chainVars
  <2> QED BY <1>4, <2>1, <2>2 DEF ChunkInv
<1>7. BackfillTypeOK' /\ RunInv'
  BY <1>1, ChunkGoesOn
<1>8. Tables'
  <2>1. \A t, b : Canonical(t, b)' = Canonical(t, b)
    BY <1>1 DEF Canonical, chainVars
  <2>2. ChainTypeOK' /\ ChainInv'
    BY <1>1 DEF ChainTypeOK, ChainInv, ValidChain, chainVars
  <2> QED BY <1>1, <1>3, <2>1, <2>2
          DEF Tables, StoreTypeOK, RecordsFinal, RecordsOrdered, CursorsFinal,
              CoverageSound, NothingOrphaned, Final, chainVars
<1> QED BY <1>1, <1>4, <1>5, <1>6, <1>7, <1>8, OtherWorkers

\* A request of a chunk is answered or refused.
LEMMA RequestChunkKeeps ==
    ASSUME BackfillInv, NEW w \in Workers, ServeChunk(w) \/ BisectChunk(w)
    PROVE  /\ BackfillTypeOK' /\ RunInv' /\ FetchTypeOK'
           /\ \A v \in Workers : ChunkInv(v)'
<1> USE DEF BackfillInv
<1>1. /\ wpc[w] = "fetch" /\ UNCHANGED <<chainVars, storeVars, backfillVars>>
      /\ ServeRange(w, BackfillToken) \/ BisectRange(w)
  BY DEF ServeChunk, BisectChunk
<1>2. chunk' = chunk /\ wpc' = wpc
  BY <1>1 DEF backfillVars, poolVars
<1>3. /\ chunk[w].from \in Blocks /\ chunk[w].to \in Blocks
      /\ w \in Procs /\ BackfillToken \in Tokens
      /\ FetchInv(w, BackfillToken, chunk[w].from, chunk[w].to)
  BY <1>1, ChunkBounds, BackfillConstants DEF ChunkInv
<1>4. FetchTypeOK' /\ FetchInv(w, BackfillToken, chunk[w].from, chunk[w].to)'
  <2> DEFINE f == chunk[w].from
             n == chunk[w].to
  <2>1. f' = f /\ n' = n
    BY <1>2
  <2>2. \A g, m \in Blocks :
           FetchInv(w, BackfillToken, g, m)
           => FetchTypeOK' /\ FetchInv(w, BackfillToken, g, m)'
    BY <1>1, <1>3, ServeCorrect, BisectCorrect
  <2> QED BY <1>3, <2>1, <2>2
<1>5. /\ cache' = cache /\ rows' = rows
      /\ \A v \in Workers \ {w} : todo'[v] = todo[v] /\ logs'[v] = logs[v]
  BY <1>1, BackfillConstants DEF ServeRange, BisectRange, FetchTypeOK
<1>6. ChunkInv(w)'
  <2>1. CacheInv(w)'
    BY <1>1, <1>5 DEF ChunkInv, CacheInv, Final, chainVars
  <2> QED BY <1>1, <1>2, <1>4, <2>1 DEF ChunkInv
<1>7. BackfillTypeOK' /\ RunInv'
  <2>1. \A t, b : Covered(t, b)' <=> Covered(t, b)
    BY <1>1 DEF Covered, storeVars
  <2>2. /\ UNCHANGED <<runVars, chainVars>> /\ ranges' = ranges
        /\ queue' = queue /\ wpc' = wpc /\ chunk' = chunk
        /\ failed' = failed /\ wrote' = wrote
    BY <1>1 DEF backfillVars, poolVars, storeVars
  <2>3. BackfillTypeOK'
    BY <2>2 DEF BackfillTypeOK, runVars
  <2>4. \A b : Accounted(b) => Accounted(b)'
    BY <2>1, <2>2 DEF Accounted
  <2>5. mpc = "pool"
    BY <1>1, ChunkBounds
  <2> QED BY <2>2, <2>3, <2>4, <2>5, PoolStep DEF RunInv
<1> QED BY <1>1, <1>2, <1>4, <1>5, <1>6, <1>7, OtherWorkers DEF Untouched

\* The headers of a chunk are read.
LEMMA TimesOfChunkKeeps ==
    ASSUME BackfillInv, NEW w \in Workers, TimesOfChunk(w)
    PROVE  /\ BackfillTypeOK' /\ RunInv' /\ FetchTypeOK'
           /\ \A v \in Workers : ChunkInv(v)'
<1> USE DEF BackfillInv
<1>1. /\ wpc[w] = "fetch" /\ wpc' = [wpc EXCEPT ![w] = "commit"]
      /\ BuildRows(w)
      /\ UNCHANGED <<runVars, queue, chunk, failed, wrote, ranges, chainVars>>
  BY DEF TimesOfChunk, WGoto, storeVars
<1>2. /\ chunk[w].from \in Blocks /\ chunk[w].to \in Blocks
      /\ Final(chunk[w].to)
      /\ w \in Procs /\ BackfillToken \in Tokens /\ CacheInv(w)
      /\ FetchInv(w, BackfillToken, chunk[w].from, chunk[w].to)
  BY <1>1, ChunkBounds, BackfillConstants DEF ChunkInv
<1>3. /\ FetchTypeOK' /\ CacheInv(w)'
      /\ RowsInv(w, BackfillToken, chunk[w].from, chunk[w].to)'
  <2> DEFINE f == chunk[w].from
             n == chunk[w].to
  <2>1. f' = f /\ n' = n
    BY <1>1
  <2>2. \A g, m \in Blocks :
           Final(m) /\ FetchInv(w, BackfillToken, g, m)
           => FetchTypeOK' /\ RowsInv(w, BackfillToken, g, m)' /\ CacheInv(w)'
    BY <1>1, <1>2, BuildRowsCorrect
  <2> QED BY <1>2, <2>1, <2>2
<1>4. \A v \in Workers \ {w} :
         Untouched(v) /\ wpc'[v] = wpc[v] /\ chunk'[v] = chunk[v]
  BY <1>1, BackfillConstants
  DEF BuildRows, Untouched, FetchTypeOK, BackfillTypeOK
<1>5. ChunkInv(w)'
  <2>1. wpc'[w] = "commit" /\ logs'[w] = {}
    BY <1>1, <1>2 DEF BackfillTypeOK, BuildRows, FetchTypeOK
  <2> QED BY <1>3, <2>1 DEF ChunkInv
<1>6. BackfillTypeOK' /\ RunInv'
  BY <1>1, ChunkGoesOn
<1> QED BY <1>1, <1>3, <1>4, <1>5, <1>6, OtherWorkers

\* What a worker forgets at the end of a chunk.
LEMMA EndChunkLocals ==
    ASSUME BackfillInv, NEW w \in Workers, EndChunk(w)
    PROVE  /\ FetchTypeOK' /\ \A v \in Workers : ChunkInv(v)'
           /\ wpc'[w] = "idle"
           /\ \A v \in Workers \ {w} : wpc'[v] = wpc[v] /\ chunk'[v] = chunk[v]
           /\ \A v \in Procs \ {w} : Untouched(v)
<1> USE DEF BackfillInv
<1>1. /\ wpc' = [wpc EXCEPT ![w] = "idle"]
      /\ chunk' = [chunk EXCEPT ![w] = NoRange]
      /\ todo' = [todo EXCEPT ![w] = {}] /\ logs' = [logs EXCEPT ![w] = {}]
      /\ rows' = [rows EXCEPT ![w] = {}] /\ cache' = [cache EXCEPT ![w] = NoTimes]
      /\ UNCHANGED chainVars
  BY DEF EndChunk, WGoto, DropLocals
<1>2. /\ w \in Procs /\ NoTimes \in [Blocks -> Forks \cup {NoTime}]
      /\ \A b \in Blocks : NoTimes[b] = NoTime
  BY BackfillConstants DEF NoTimes
<1>3. FetchTypeOK'
  BY <1>1, <1>2 DEF FetchTypeOK
<1>4. /\ wpc'[w] = "idle"
      /\ \A v \in Workers \ {w} : wpc'[v] = wpc[v] /\ chunk'[v] = chunk[v]
  BY <1>1 DEF BackfillTypeOK
<1>5. \A v \in Procs \ {w} : Untouched(v)
  BY <1>1 DEF FetchTypeOK, Untouched
<1>6. ChunkInv(w)'
  <2>1. logs'[w] = {} /\ cache'[w] = NoTimes
    BY <1>1, <1>2 DEF FetchTypeOK
  <2> QED BY <1>2, <1>4, <2>1 DEF ChunkInv, CacheInv
<1>7. \A v \in Workers : ChunkInv(v)'
  BY <1>1, <1>4, <1>5, <1>6, OtherWorkers, BackfillConstants
<1> QED BY <1>3, <1>4, <1>5, <1>7

(***************************************************************************)
(* A chunk may end when it is on record or remembered as lost, and has     *)
(* written nothing the run promised not to write.                          *)
(***************************************************************************)
LEMMA EndChunkBooks ==
    ASSUME BackfillInv, NEW w \in Workers, wpc[w] # "idle", EndChunk(w),
           ranges \subseteq ranges', failed' \in {failed, failed \cup {chunk[w]}},
           \/ chunk[w] \in failed'
           \/ \A b : In(b, chunk[w]) => Covered(BackfillToken, b)',
           wrote' \in BOOLEAN, promised => ~wrote'
    PROVE  BackfillTypeOK' /\ RunInv'
<1> USE DEF BackfillInv
<1>1. /\ wpc' = [wpc EXCEPT ![w] = "idle"]
      /\ chunk' = [chunk EXCEPT ![w] = NoRange]
      /\ UNCHANGED <<runVars, queue, chainVars>>
  BY DEF EndChunk, WGoto
<1>2. mpc = "pool" /\ chunk[w] \in BlockRange
  BY ChunkBounds
<1>3. BackfillTypeOK'
  BY <1>1, <1>2 DEF BackfillTypeOK, runVars
<1>4. \A v \in Workers \ {w} : wpc'[v] = wpc[v] /\ chunk'[v] = chunk[v]
  BY EndChunkLocals
<1>5. wpc'[w] = "idle"
  BY EndChunkLocals
<1>6. \A b : Covered(BackfillToken, b) => Covered(BackfillToken, b)'
  BY CoveredGrows
<1>7. ASSUME NEW b, Accounted(b)
      PROVE  Accounted(b)'
  <2>1. CASE Covered(BackfillToken, b)
    BY <1>6, <2>1 DEF Accounted
  <2>2. CASE Holds(queue, b)
    BY <1>1, <2>2 DEF Accounted, Holds
  <2>3. CASE \E r \in failed : In(b, r)
    BY <2>3 DEF Accounted
  <2>4. ASSUME NEW v \in Workers, wpc[v] # "idle", In(b, chunk[v])
        PROVE  Accounted(b)'
    <3>1. CASE v # w
      BY <1>4, <2>4, <3>1 DEF Accounted
    <3>2. CASE v = w
      BY <2>4, <3>2 DEF Accounted
    <3> QED BY <3>1, <3>2
  <2> QED BY <1>7, <2>1, <2>2, <2>3, <2>4 DEF Accounted
<1>8. /\ \A i \in 1 .. Len(queue') : InPlan(queue'[i])
      /\ \A v \in Workers : wpc'[v] # "idle" => InPlan(chunk'[v])
  BY <1>1, <1>4, <1>5 DEF RunInv
<1>9. RunInv'
  BY <1>1, <1>2, <1>7, <1>8, PoolStep
<1> QED BY <1>3, <1>9

(***************************************************************************)
(* The transaction of a chunk keeps the promises of the tables, puts the   *)
(* chunk on record, and writes nothing when the run promised so: the rows  *)
(* of covered blocks are already there.                                    *)
(***************************************************************************)
LEMMA ChunkWritesCorrect ==
    ASSUME BackfillInv, NEW w \in Workers, wpc[w] = "commit",
           ChunkWrites(w), UNCHANGED chainVars
    PROVE  /\ Tables' /\ ranges \subseteq ranges'
           /\ transfers' = transfers \cup rows[w]
           /\ \A b : In(b, chunk[w]) => Covered(BackfillToken, b)'
           /\ promised => Inserted(rows[w]) = {}
<1> USE DEF BackfillInv
<1>1. /\ InPlan(chunk[w])
      /\ chunk[w].from \in Blocks /\ chunk[w].to \in Blocks
      /\ chunk[w].from <= chunk[w].to /\ Final(chunk[w].to)
      /\ w \in Procs /\ BackfillToken \in Tokens
      /\ RowsInv(w, BackfillToken, chunk[w].from, chunk[w].to)
  BY ChunkBounds, BackfillConstants DEF ChunkInv
<1>2. /\ UpsertTransfers(rows[w])
      /\ RecordCoverage(BackfillToken, chunk[w].from, chunk[w].to)
      /\ cursors' = cursors /\ tokens' = tokens
  BY DEF ChunkWrites
<1>3. \A f, n \in Blocks :
         /\ f <= n /\ Final(n) /\ RowsInv(w, BackfillToken, f, n)
         /\ RecordCoverage(BackfillToken, f, n)
         => /\ transfers' = transfers \cup rows[w]
            /\ transfers' \subseteq Transfer /\ ranges' \subseteq IndexedRange
            /\ \A r \in transfers' : Final(r.block)'
            /\ \A r \in ranges' : Final(r.to)'
            /\ CoverageSound' /\ NothingOrphaned'
  BY <1>1, <1>2, WriteCorrect
<1>4. /\ transfers' = transfers \cup rows[w]
      /\ transfers' \subseteq Transfer /\ ranges' \subseteq IndexedRange
      /\ \A r \in transfers' : Final(r.block)'
      /\ \A r \in ranges' : Final(r.to)'
      /\ CoverageSound' /\ NothingOrphaned'
  BY <1>1, <1>2, <1>3
<1> DEFINE c == [token |-> BackfillToken, from |-> chunk[w].from, to |-> chunk[w].to]
<1>5. /\ ranges' = ranges \cup {c} /\ c.token = BackfillToken
      /\ c.from = chunk[w].from /\ c.to = chunk[w].to
  BY <1>2 DEF RecordCoverage
<1> HIDE DEF c
<1>6. \A b : In(b, chunk[w]) => Covered(BackfillToken, b)'
  BY <1>5 DEF In, Covered
<1>7. Tables'
  <2>1. ChainTypeOK' /\ ChainInv'
    BY DEF ChainTypeOK, ChainInv, ValidChain, chainVars
  <2>2. StoreTypeOK' /\ RecordsFinal'
    BY <1>2, <1>4 DEF StoreTypeOK, RecordsFinal
  <2>3. RecordsOrdered'
    BY <1>1, <1>5 DEF RecordsOrdered
  <2>4. CursorsFinal'
    BY <1>2 DEF CursorsFinal, Final, chainVars
  <2> QED BY <1>4, <2>1, <2>2, <2>3, <2>4 DEF Tables
<1>8. ASSUME promised
      PROVE  Inserted(rows[w]) = {}
  <2>1. ASSUME NEW r \in rows[w] PROVE r \in transfers
    <3>1. /\ chunk[w].from <= r.block /\ r.block <= chunk[w].to
          /\ r.block \in Blocks /\ r \in Canonical(BackfillToken, r.block)
      BY <1>1 DEF RowsInv, FetchTypeOK, Transfer
    <3>2. PICK k \in 1 .. Len(plan) :
            plan[k].from <= chunk[w].from /\ chunk[w].to <= plan[k].to
      BY <1>1 DEF InPlan
    <3>3. plan[k] \in BlockRange
      BY DEF BackfillTypeOK
    <3>4. r.block \in plan[k].from .. plan[k].to
      BY <1>1, <3>1, <3>2, <3>3, ChainConstants DEF BlockRange
    <3>5. Covered(BackfillToken, r.block)
      BY <1>8, <3>4 DEF RunInv
    <3>6. PICK d \in ranges :
            d.token = BackfillToken /\ d.from <= r.block /\ r.block <= d.to
      BY <3>5 DEF Covered
    <3>7. r.block \in d.from .. d.to
      BY <3>1, <3>6, ChainConstants DEF StoreTypeOK, IndexedRange
    <3> QED BY <3>1, <3>6, <3>7 DEF CoverageSound
  <2> QED BY <2>1 DEF Inserted
<1> QED BY <1>4, <1>5, <1>6, <1>7, <1>8

\* A chunk is committed.
LEMMA CommitChunkKeeps ==
    ASSUME BackfillInv, NEW w \in Workers, CommitChunk(w)
    PROVE  BackfillInv'
<1>1. /\ wpc[w] = "commit" /\ wrote' = (wrote \/ Inserted(rows[w]) # {})
      /\ ChunkWrites(w) /\ EndChunk(w) /\ failed' = failed /\ UNCHANGED chainVars
  BY DEF CommitChunk, EndChunk
<1>2. /\ Tables' /\ ranges \subseteq ranges'
      /\ \A b : In(b, chunk[w]) => Covered(BackfillToken, b)'
      /\ promised => Inserted(rows[w]) = {}
  BY <1>1, ChunkWritesCorrect
<1>3. wrote' \in BOOLEAN /\ (promised => ~wrote')
  BY <1>1, <1>2 DEF BackfillInv, BackfillTypeOK, RunInv
<1>4. BackfillTypeOK' /\ RunInv'
  BY <1>1, <1>2, <1>3, EndChunkBooks
<1>5. FetchTypeOK' /\ \A v \in Workers : ChunkInv(v)'
  BY <1>1, EndChunkLocals
<1> QED BY <1>2, <1>4, <1>5 DEF BackfillInv, Tables, RecordsOrdered, CursorsFinal

\* A chunk fails and is reported.
LEMMA FailChunkKeeps ==
    ASSUME BackfillInv, NEW w \in Workers, FailChunk(w)
    PROVE  BackfillInv'
<1>1. /\ wpc[w] # "idle" /\ failed' = failed \cup {chunk[w]}
      /\ EndChunk(w) /\ wrote' = wrote /\ UNCHANGED <<storeVars, chainVars>>
  BY DEF FailChunk, EndChunk
<1>2. Tables'
  BY <1>1, TablesSame, BackfillInvParts
<1>3. ranges \subseteq ranges'
  BY <1>1 DEF storeVars
<1>4. wrote' \in BOOLEAN /\ (promised => ~wrote')
  BY <1>1 DEF BackfillInv, BackfillTypeOK, RunInv
<1>5. BackfillTypeOK' /\ RunInv'
  BY <1>1, <1>3, <1>4, EndChunkBooks
<1>6. FetchTypeOK' /\ \A v \in Workers : ChunkInv(v)'
  BY <1>1, EndChunkLocals
<1> QED BY <1>2, <1>5, <1>6 DEF BackfillInv, Tables, RecordsOrdered, CursorsFinal

\* A chunk is committed and its worker sees it fail.
LEMMA LoseChunkReplyKeeps ==
    ASSUME BackfillInv, NEW w \in Workers, LoseChunkReply(w)
    PROVE  BackfillInv'
<1>1. /\ wpc[w] = "commit" /\ failed' = failed \cup {chunk[w]}
      /\ ChunkWrites(w) /\ EndChunk(w) /\ wrote' = wrote /\ UNCHANGED chainVars
  BY DEF LoseChunkReply, EndChunk
<1>2. Tables' /\ ranges \subseteq ranges'
  BY <1>1, ChunkWritesCorrect
<1>3. wrote' \in BOOLEAN /\ (promised => ~wrote')
  BY <1>1 DEF BackfillInv, BackfillTypeOK, RunInv
<1>4. BackfillTypeOK' /\ RunInv'
  BY <1>1, <1>2, <1>3, EndChunkBooks
<1>5. FetchTypeOK' /\ \A v \in Workers : ChunkInv(v)'
  BY <1>1, EndChunkLocals
<1> QED BY <1>2, <1>4, <1>5 DEF BackfillInv, Tables, RecordsOrdered, CursorsFinal

-----------------------------------------------------------------------------
(* The process ends, by itself or not.                                     *)

\* The run ends and its locals are gone.
LEMMA ResetKeeps ==
    ASSUME BackfillInv, Reset
    PROVE  BackfillInv' /\ \A q \in Procs \ Workers : Untouched(q)
<1> USE DEF BackfillInv
<1>1. /\ mpc' = "idle" /\ target' = NoRange /\ plan' = <<>> /\ checked' = 0
      /\ promised' = FALSE /\ queue' = <<>> /\ failed' = {} /\ wrote' = FALSE
      /\ wpc' = [w \in Workers |-> "idle"]
      /\ chunk' = [w \in Workers |-> NoRange]
      /\ UNCHANGED <<chainVars, storeVars>>
  BY DEF Reset, ForgetRun
<1>2. /\ todo' = Cleared(todo, {}) /\ logs' = Cleared(logs, {})
      /\ rows' = Cleared(rows, {}) /\ cache' = Cleared(cache, NoTimes)
  BY DEF Reset
<1>3. /\ NoTimes \in [Blocks -> Forks \cup {NoTime}]
      /\ \A b \in Blocks : NoTimes[b] = NoTime
  BY DEF NoTimes
<1>4. FetchTypeOK'
  BY <1>2, <1>3 DEF FetchTypeOK, Cleared
<1>5. \A q \in Procs \ Workers : Untouched(q)
  BY <1>2 DEF Untouched, Cleared
<1>6. BackfillTypeOK'
  <2>1. /\ target' \in [from : Int, to : Int]
        /\ wpc' \in [Workers -> {"idle", "ensure", "fetch", "commit"}]
        /\ chunk' \in [Workers -> BlockRange \cup {NoRange}]
    BY <1>1 DEF NoRange, RangeOf
  <2>2. plan' \in Seq(BlockRange) /\ queue' \in Seq(BlockRange) /\ Len(plan') = 0
    BY <1>1
  <2>3. checked' \in 0 .. Len(plan')
    BY <1>1, <2>2
  <2>4. failed' \subseteq BlockRange /\ promised' \in BOOLEAN /\ wrote' \in BOOLEAN
    BY <1>1
  <2>5. mpc' \in {"idle", "cursor", "scan", "check", "pool", "done"}
    BY <1>1
  <2> QED BY <2>1, <2>2, <2>3, <2>4, <2>5 DEF BackfillTypeOK
<1>7. RunInv'
  BY <1>1 DEF RunInv
<1>8. ASSUME NEW w \in Workers PROVE ChunkInv(w)'
  <2>1. wpc'[w] = "idle" /\ logs'[w] = {} /\ cache'[w] = NoTimes
    BY <1>1, <1>2, BackfillConstants DEF Cleared
  <2> QED BY <1>3, <2>1 DEF ChunkInv, CacheInv
<1>9. Tables'
  BY <1>1, TablesSame, BackfillInvParts
<1> QED BY <1>4, <1>5, <1>6, <1>7, <1>8, <1>9
        DEF Tables, RecordsOrdered, CursorsFinal

-----------------------------------------------------------------------------
(* All steps of a backfill, and the steps of others.                       *)

\* The main thread reads: nothing a worker or another process has changes.
LEMMA MainReads ==
    ASSUME BackfillInv, BackfillTypeOK', RunInv',
           UNCHANGED <<chainVars, storeVars, fetchVars, wpc, chunk>>
    PROVE  BackfillInv' /\ \A q \in Procs : Untouched(q)
<1>1. \A q : Untouched(q)
  BY DEF fetchVars, Untouched
<1>2. \A w \in Workers : ChunkInv(w)'
  BY <1>1, ChunkKept DEF BackfillInv
<1>3. Tables'
  BY TablesSame, BackfillInvParts
<1>4. FetchTypeOK'
  BY DEF BackfillInv, FetchTypeOK, fetchVars
<1> QED BY <1>1, <1>2, <1>3, <1>4 DEF BackfillInv, Tables, RecordsOrdered, CursorsFinal

(***************************************************************************)
(* Every step of a backfill keeps the invariant, only adds coverage, and   *)
(* leaves the cursors and every other process alone.                       *)
(***************************************************************************)
LEMMA BackfillStep ==
    ASSUME BackfillInv, ReorgDepth <= Buffer, BackfillNext
    PROVE  /\ BackfillInv'
           /\ UNCHANGED <<chainVars, cursors>> /\ ranges \subseteq ranges'
           /\ \A q \in Procs \ Workers : Untouched(q)
<1>1. CASE RunRange \/ RunGapScan \/ ScanCursor \/ ScanGaps \/ CheckRange \/ Drain
  <2>1. BackfillTypeOK' /\ RunInv'
    BY <1>1, RunRangeKeeps, RunGapScanKeeps, ScanCursorKeeps, ScanGapsKeeps,
       CheckRangeKeeps, DrainKeeps
  <2>2. UNCHANGED <<chainVars, storeVars, fetchVars, wpc, chunk>>
    BY <1>1 DEF RunRange, RunGapScan, ScanCursor, ScanGaps, CheckRange, Drain, poolVars
  <2> QED BY <2>1, <2>2, MainReads DEF storeVars
<1>2. CASE Finish \/ Abort
  <2>1. Reset /\ UNCHANGED <<chainVars, storeVars>>
    BY <1>2 DEF Finish, Abort, Reset
  <2> QED BY <2>1, ResetKeeps DEF storeVars
<1>3. ASSUME NEW w \in Workers,
             WorkerStep(w) \/ FailChunk(w) \/ LoseChunkReply(w)
      PROVE  /\ BackfillInv'
             /\ UNCHANGED <<chainVars, cursors>> /\ ranges \subseteq ranges'
             /\ \A q \in Procs \ Workers : Untouched(q)
  <2>1. CASE TakeChunk(w)
    <3>1. UNCHANGED <<chainVars, storeVars, fetchVars>>
      BY <2>1 DEF TakeChunk
    <3>2. Tables' /\ FetchTypeOK'
      BY <3>1, TablesSame, BackfillInvParts DEF BackfillInv, FetchTypeOK, fetchVars
    <3>3. BackfillInv'
      BY <2>1, <3>2, TakeChunkKeeps
      DEF BackfillInv, Tables, RecordsOrdered, CursorsFinal
    <3> QED BY <3>1, <3>3 DEF storeVars, fetchVars, Untouched
  <2>2. CASE EnsureChunkToken(w)
    <3>1. BackfillInv'
      BY <2>2, EnsureChunkKeeps
      DEF BackfillInv, Tables, RecordsOrdered, CursorsFinal
    <3>2. UNCHANGED <<chainVars, cursors, ranges>>
      BY <2>2 DEF EnsureChunkToken
    <3>3. \A q \in Procs \ Workers : Untouched(q)
      BY <2>2 DEF EnsureChunkToken, StartFetch, Untouched, BackfillInv, FetchTypeOK
    <3> QED BY <3>1, <3>2, <3>3
  <2>3. CASE ServeChunk(w) \/ BisectChunk(w) \/ TimesOfChunk(w)
    <3>1. UNCHANGED <<chainVars, storeVars>>
      BY <2>3 DEF ServeChunk, BisectChunk, TimesOfChunk
    <3>2. Tables'
      BY <3>1, TablesSame, BackfillInvParts
    <3>3. BackfillInv'
      BY <2>3, <3>2, RequestChunkKeeps, TimesOfChunkKeeps
      DEF BackfillInv, Tables, RecordsOrdered, CursorsFinal
    <3>4. \A q \in Procs \ Workers : Untouched(q)
      BY <2>3 DEF ServeChunk, BisectChunk, TimesOfChunk, ServeRange, BisectRange,
                  BuildRows, Untouched, BackfillInv, FetchTypeOK
    <3> QED BY <3>1, <3>3, <3>4 DEF storeVars
  <2>4. CASE CommitChunk(w) \/ FailChunk(w) \/ LoseChunkReply(w)
    <3>1. BackfillInv'
      BY <2>4, CommitChunkKeeps, FailChunkKeeps, LoseChunkReplyKeeps
    <3>2. EndChunk(w) /\ UNCHANGED chainVars
      BY <2>4 DEF CommitChunk, FailChunk, LoseChunkReply, EndChunk
    <3>3. \A q \in Procs \ Workers : Untouched(q)
      BY <3>2, EndChunkLocals
    <3>4. UNCHANGED cursors /\ ranges \subseteq ranges'
      BY <2>4 DEF CommitChunk, FailChunk, LoseChunkReply, ChunkWrites,
                  RecordCoverage, storeVars
    <3> QED BY <3>1, <3>2, <3>3, <3>4
  <2> QED BY <1>3, <2>1, <2>2, <2>3, <2>4 DEF WorkerStep
<1> QED BY <1>1, <1>2, <1>3 DEF BackfillNext, MainStep

\* A step of somebody else that keeps the promises of the tables.
LEMMA OthersStep ==
    ASSUME BackfillInv, Tables', FetchTypeOK',
           UNCHANGED <<chainVars, backfillVars>>,
           ranges \subseteq ranges' \/ mpc = "idle",
           \A w \in Workers : Untouched(w)
    PROVE  BackfillInv'
<1>1. /\ mpc' = mpc /\ target' = target /\ plan' = plan /\ checked' = checked
      /\ promised' = promised /\ queue' = queue /\ wpc' = wpc /\ chunk' = chunk
      /\ failed' = failed /\ wrote' = wrote /\ peak' = peak
  BY DEF backfillVars, runVars, poolVars, chainVars
<1>2. BackfillTypeOK'
  BY <1>1 DEF BackfillInv, BackfillTypeOK
<1>3. \A w \in Workers : ChunkInv(w)'
  BY <1>1, ChunkKept DEF BackfillInv
<1>4. CASE ranges \subseteq ranges'
  <2>1. \A t, b : Covered(t, b) => Covered(t, b)'
    BY <1>4, CoveredGrows
  <2>2. \A b : Accounted(b) => Accounted(b)'
    BY <1>1, <2>1 DEF Accounted
  <2>3. \A r : InPlan(r)' <=> InPlan(r)
    BY <1>1 DEF InPlan
  <2>4. RunInv'
    BY <1>1, <2>1, <2>2, <2>3 DEF BackfillInv, RunInv, InPlan, Final
  <2> QED BY <1>2, <1>3, <2>4 DEF BackfillInv, Tables, RecordsOrdered, CursorsFinal
<1>5. CASE mpc = "idle"
  <2>1. /\ plan = <<>> /\ checked = 0 /\ queue = <<>> /\ ~promised /\ ~wrote
        /\ \A w \in Workers : wpc[w] = "idle"
    BY <1>5, IdleIsClean DEF BackfillInv
  <2>2. RunInv'
    BY <1>1, <1>5, <2>1 DEF RunInv
  <2> QED BY <1>2, <1>3, <2>2 DEF BackfillInv, Tables, RecordsOrdered, CursorsFinal
<1> QED BY <1>4, <1>5

\* The chain moves.
LEMMA ChainStep ==
    ASSUME BackfillInv, ChainNext, UNCHANGED <<storeVars, fetchVars, backfillVars>>
    PROVE  BackfillInv'
<1> USE DEF BackfillInv
<1>1. /\ mpc' = mpc /\ target' = target /\ plan' = plan /\ checked' = checked
      /\ promised' = promised /\ queue' = queue /\ wpc' = wpc /\ chunk' = chunk
      /\ failed' = failed /\ wrote' = wrote /\ logs' = logs
      /\ ranges' = ranges /\ cursors' = cursors
  BY DEF backfillVars, runVars, poolVars, storeVars, fetchVars
<1>2. ChainTypeOK' /\ ChainInv'
  BY ChainInductive
<1>3. StoreTypeOK' /\ RecordsFinal' /\ CoverageSound' /\ NothingOrphaned'
  BY RecordsStable
<1>4. BackfillTypeOK' /\ FetchTypeOK'
  BY <1>1 DEF BackfillTypeOK, FetchTypeOK, fetchVars
<1>5. \A b \in Blocks : Final(b) => Final(b)'
  BY FinalStable, ChainConstants
<1>6. CursorsFinal' /\ RecordsOrdered'
  BY <1>1, <1>5 DEF CursorsFinal, RecordsOrdered
<1>7. \A t, b : Covered(t, b)' <=> Covered(t, b)
  BY <1>1 DEF Covered
<1>8. RunInv'
  <2>1. \A b : Accounted(b)' <=> Accounted(b)
    BY <1>1, <1>7 DEF Accounted
  <2> QED BY <1>1, <1>5, <1>7, <2>1 DEF RunInv, InPlan
<1>9. ASSUME NEW w \in Workers PROVE ChunkInv(w)'
  <2>1. w \in Procs /\ BackfillToken \in Tokens /\ CacheInv(w)
    BY BackfillConstants DEF ChunkInv
  <2>2. CacheInv(w)'
    BY <2>1, CacheStable
  <2>3. ASSUME wpc[w] \in {"fetch", "commit"}
        PROVE  /\ FetchInv(w, BackfillToken, chunk[w].from, chunk[w].to)
                  => FetchInv(w, BackfillToken, chunk[w].from, chunk[w].to)'
               /\ RowsInv(w, BackfillToken, chunk[w].from, chunk[w].to)
                  => RowsInv(w, BackfillToken, chunk[w].from, chunk[w].to)'
    <3> DEFINE f == chunk[w].from
               n == chunk[w].to
    <3>1. f \in Blocks /\ n \in Blocks /\ Final(n)
      BY <2>3, ChunkBounds
    <3>2. f' = f /\ n' = n
      BY <1>1
    <3>3. \A g, m \in Blocks : Final(m) =>
             /\ FetchInv(w, BackfillToken, g, m) => FetchInv(w, BackfillToken, g, m)'
             /\ RowsInv(w, BackfillToken, g, m) => RowsInv(w, BackfillToken, g, m)'
      BY <2>1, FetchStable
    <3> QED BY <3>1, <3>2, <3>3
  <2> QED BY <1>1, <2>2, <2>3 DEF ChunkInv
<1> QED BY <1>2, <1>3, <1>4, <1>6, <1>8, <1>9 DEF RecordsOrdered, CursorsFinal

\* The invariant holds before the first run.
LEMMA BackfillBegins ==
    ASSUME ChainInit, StoreInit, FetchInit, BackfillInit
    PROVE  BackfillInv
<1>1. ChainTypeOK /\ ChainInv
  BY ChainBegins
<1>2. /\ StoreTypeOK /\ RecordsFinal /\ RecordsOrdered /\ CursorsFinal
      /\ CoverageSound /\ NothingOrphaned
  BY DEF StoreInit, StoreTypeOK, RecordsFinal, RecordsOrdered, CursorsFinal,
         CoverageSound, NothingOrphaned
<1>3. FetchTypeOK
  BY DEF FetchInit, FetchTypeOK, NoTimes
<1>4. BackfillTypeOK /\ RunInv
  <2> USE DEF BackfillInit
  <2>1. /\ target \in [from : Int, to : Int]
        /\ wpc \in [Workers -> {"idle", "ensure", "fetch", "commit"}]
        /\ chunk \in [Workers -> BlockRange \cup {NoRange}]
    BY DEF NoRange, RangeOf
  <2>2. plan \in Seq(BlockRange) /\ queue \in Seq(BlockRange) /\ Len(plan) = 0
    OBVIOUS
  <2>3. BackfillTypeOK
    <3>1. checked \in 0 .. Len(plan)
      BY <2>2
    <3>2. failed \subseteq BlockRange /\ promised \in BOOLEAN /\ wrote \in BOOLEAN
      OBVIOUS
    <3>3. mpc \in {"idle", "cursor", "scan", "check", "pool", "done"}
      OBVIOUS
    <3> HIDE DEF BackfillInit
    <3> QED BY <2>1, <2>2, <3>1, <3>2, <3>3 DEF BackfillTypeOK
  <2>4. RunInv
    BY <2>2 DEF RunInv
  <2> QED BY <2>3, <2>4
<1>5. \A w \in Workers : ChunkInv(w)
  BY BackfillConstants DEF BackfillInit, FetchInit, ChunkInv, CacheInv, NoTimes
<1> QED BY <1>1, <1>2, <1>3, <1>4, <1>5 DEF BackfillInv, RecordsOrdered, CursorsFinal

\* What the steps of a backfill do to the caches.
LEMMA BackfillCacheStep ==
    ASSUME BackfillInv, BackfillNext
    PROVE  \A q \in Procs : CacheStep(q)
<1> USE DEF CacheStep
<1>1. CASE RunRange \/ RunGapScan \/ ScanCursor \/ ScanGaps \/ CheckRange \/ Drain
  BY <1>1 DEF RunRange, RunGapScan, ScanCursor, ScanGaps, CheckRange, Drain, fetchVars
<1>2. CASE Finish \/ Abort
  BY <1>2 DEF Finish, Abort, Reset, Cleared
<1>3. ASSUME NEW w \in Workers,
             WorkerStep(w) \/ FailChunk(w) \/ LoseChunkReply(w)
      PROVE  \A q \in Procs : CacheStep(q)
  <2>1. CASE TimesOfChunk(w)
    BY <2>1, BuildRowsCache, BackfillConstants DEF TimesOfChunk, BackfillInv
  <2>2. CASE TakeChunk(w) \/ EnsureChunkToken(w) \/ ServeChunk(w) \/ BisectChunk(w)
    BY <2>2 DEF TakeChunk, EnsureChunkToken, StartFetch, ServeChunk, BisectChunk,
                ServeRange, BisectRange, fetchVars
  <2>3. CASE CommitChunk(w) \/ FailChunk(w) \/ LoseChunkReply(w)
    <3>1. cache' = [cache EXCEPT ![w] = NoTimes]
      BY <2>3 DEF CommitChunk, FailChunk, LoseChunkReply, EndChunk
    <3> QED BY <3>1 DEF BackfillInv, FetchTypeOK
  <2> QED BY <1>3, <2>1, <2>2, <2>3 DEF WorkerStep
<1> QED BY <1>1, <1>2, <1>3 DEF BackfillNext, MainStep

-----------------------------------------------------------------------------
(* What the invariant is for.                                              *)

\* What the invariant says of a promise.
LEMMA InvGivesIdempotency == BackfillInv => IdempotencyHolds
  BY DEF BackfillInv, RunInv, IdempotencyHolds

\* What the invariant says at the end of a run.
LEMMA InvGivesAccount == BackfillInv => RunAccountsForTarget
<1> SUFFICES ASSUME BackfillInv, mpc = "done", NEW b \in target.from .. target.to
             PROVE  Covered(BackfillToken, b) \/ \E r \in failed : In(b, r)
  BY DEF RunAccountsForTarget
<1>1. Covered(BackfillToken, b) \/ Holds(plan, b)
  BY DEF BackfillInv, RunInv
<1>2. CASE Holds(plan, b)
  <2>1. PICK k \in 1 .. Len(plan) : In(b, plan[k])
    BY <1>2 DEF Holds
  <2>2. plan[k] \in BlockRange /\ target.from \in Int /\ target.to \in Int
    BY DEF BackfillInv, BackfillTypeOK
  <2>3. b \in plan[k].from .. plan[k].to
    BY <2>1, <2>2, ChainConstants DEF In, BlockRange
  <2>4. Accounted(b)
    BY <2>3 DEF BackfillInv, RunInv
  <2>5. queue = <<>> /\ \A w \in Workers : wpc[w] = "idle"
    BY DEF BackfillInv, RunInv
  <2> QED BY <2>4, <2>5 DEF Accounted, Holds
<1> QED BY <1>1, <1>2

-----------------------------------------------------------------------------
(* What the indexer does to a backfill.                                    *)

\* A step of one indexer adds coverage of final blocks, moves one cursor at
\* most, to a final block, and leaves the locals of everyone else alone.
LEMMA IndexerEffects ==
    ASSUME IndInv, CursorsFinal, RecordsOrdered,
           NEW p \in Indexers, IndexerNext(p)
    PROVE  /\ UNCHANGED chainVars
           /\ CursorsFinal' /\ RecordsOrdered' /\ ranges \subseteq ranges'
           /\ \A q \in Procs \ Indexers : Untouched(q)
<1> USE DEF IndInv, TypeOK
<1>1. UNCHANGED chainVars
  BY QuietOrCommit
<1>2. ASSUME UNCHANGED <<transfers, cursors, ranges>>
      PROVE  CursorsFinal' /\ RecordsOrdered' /\ ranges \subseteq ranges'
  BY <1>1, <1>2 DEF CursorsFinal, RecordsOrdered, Final, chainVars
<1>3. ASSUME pc[p] = "commit" /\ BatchWrites(p)
      PROVE  CursorsFinal' /\ RecordsOrdered' /\ ranges \subseteq ranges'
  <2>1. /\ Token(p) \in Tokens /\ current[p] + 1 <= toBlock[p]
        /\ toBlock[p] \in Blocks /\ Final(toBlock[p])
    BY <1>3, TokenType, BatchBounds
  <2>2. cursors' = [cursors EXCEPT ![Token(p)] = toBlock[p]]
    BY <1>3 DEF BatchWrites, SetCursor
  <2>3. CursorsFinal'
    BY <1>1, <2>1, <2>2 DEF CursorsFinal, StoreTypeOK, Final, chainVars
  <2> DEFINE c == [token |-> Token(p), from |-> current[p] + 1, to |-> toBlock[p]]
  <2>4. ranges' = ranges \cup {c} /\ c.from <= c.to
    BY <1>3, <2>1 DEF BatchWrites, RecordCoverage
  <2> HIDE DEF c
  <2>5. RecordsOrdered' /\ ranges \subseteq ranges'
    BY <2>4 DEF RecordsOrdered
  <2> QED BY <2>3, <2>5
<1>4. \A q \in Procs \ Indexers : Untouched(q)
  <2> SUFFICES ASSUME NEW q \in Procs \ Indexers PROVE Untouched(q)
    OBVIOUS
  <2> USE DEF FetchTypeOK, Untouched
  <2>1. CASE Boot(p) \/ EnsureToken(p) \/ ReadCursor(p) \/ ReadHead(p)
             \/ NextCycle(p) \/ Signal(p)
    BY <2>1 DEF Boot, EnsureToken, ReadCursor, ReadHead, NextCycle, Signal, fetchVars
  <2>2. CASE BatchTop(p)
    BY <2>2 DEF BatchTop, StartFetch, fetchVars
  <2>3. CASE Serve(p) \/ Bisect(p) \/ Times(p)
    BY <2>3 DEF Serve, Bisect, Times, ServeRange, BisectRange, BuildRows
  <2>4. CASE Commit(p) \/ Fail(p) \/ LoseReply(p) \/ Crash(p)
    BY <2>4 DEF Commit, Committed, Fail, LoseReply, Raise, Crash, DropLocals
  <2>5. CASE Exit(p)
    BY <2>5 DEF Exit
  <2> QED BY <2>1, <2>2, <2>3, <2>4, <2>5 DEF IndexerNext, Step, Fault
<1> QED BY <1>1, <1>2, <1>3, <1>4, QuietOrCommit

\* The promises of the tables, from the invariant of the indexer.
LEMMA IndInvTables ==
    ASSUME IndInv, CursorsFinal, RecordsOrdered
    PROVE  Tables
  BY DEF IndInv, TypeOK, Tables, StoreFinal

-----------------------------------------------------------------------------
(* What a backfill does to the indexer.                                    *)

\* A backfill's step keeps the indexer's invariant.
LEMMA BackfillKeepsIndInv ==
    ASSUME IndInv, BackfillInv', UNCHANGED <<chainVars, cursors, procVars>>,
           ranges \subseteq ranges', \A q \in Procs \ Workers : Untouched(q)
    PROVE  IndInv'
<1> USE DEF IndInv, TypeOK
<1>1. /\ ChainTypeOK' /\ StoreTypeOK' /\ FetchTypeOK' /\ ChainInv'
      /\ RecordsFinal' /\ CoverageSound' /\ NothingOrphaned'
  BY DEF BackfillInv
<1>2. IndexerTypeOK'
  BY DEF IndexerTypeOK, procVars
<1>3. StoreFinal'
  BY <1>1 DEF StoreFinal
<1>4. CursorCovered'
  BY CoveredGrows DEF CursorCovered
<1>5. ASSUME NEW p \in Indexers PROVE ProcInv(p)'
  <2>1. p \in Procs \ Workers
    BY IndexerConstants, SystemConstants
  <2>2. Undisturbed(p)
    BY <2>1 DEF Undisturbed, Untouched, procVars
  <2> QED BY <2>2, OthersKeepInv
<1> QED BY <1>1, <1>2, <1>3, <1>4, <1>5

-----------------------------------------------------------------------------
(* The deployment.                                                         *)

\* Both invariants hold of the empty database.
LEMMA SystemBegins == SystemInit => SystemInv
<1> SUFFICES ASSUME SystemInit PROVE SystemInv
  OBVIOUS
<1>1. IndInv
  BY InitEstablishesInv DEF SystemInit
<1>2. BackfillInv
  BY BackfillBegins DEF SystemInit, Init
<1> QED BY <1>1, <1>2 DEF SystemInv

\* Every step of either keeps both.
LEMMA SystemKeepsInv ==
    ASSUME ReorgDepth <= Buffer, SystemInv, [SystemNext]_systemVars
    PROVE  SystemInv'
<1> USE DEF SystemInv
<1>1. CASE Next /\ UNCHANGED backfillVars
  <2>1. IndInv'
    BY <1>1, NextKeepsInv
  <2>2. CASE ChainNext /\ UNCHANGED <<storeVars, fetchVars, procVars>>
    BY <1>1, <2>1, <2>2, ChainStep
  <2>3. ASSUME NEW p \in Indexers, IndexerNext(p) PROVE SystemInv'
    <3>1. /\ UNCHANGED chainVars
          /\ CursorsFinal' /\ RecordsOrdered' /\ ranges \subseteq ranges'
          /\ \A q \in Procs \ Indexers : Untouched(q)
      BY <2>3, IndexerEffects DEF BackfillInv, CursorsFinal, RecordsOrdered
    <3>2. Tables'
      BY <2>1, <3>1 DEF IndInv, TypeOK, Tables, StoreFinal
    <3>3. FetchTypeOK'
      BY <2>1 DEF IndInv, TypeOK
    <3>4. \A w \in Workers : Untouched(w)
      BY <3>1, BackfillConstants, SystemConstants
    <3>5. BackfillInv'
      BY <1>1, <3>1, <3>2, <3>3, <3>4, OthersStep
    <3> QED BY <2>1, <3>5
  <2> QED BY <1>1, <2>2, <2>3 DEF Next
<1>2. CASE BackfillNext /\ UNCHANGED procVars
  <2>1. /\ BackfillInv'
        /\ UNCHANGED <<chainVars, cursors>> /\ ranges \subseteq ranges'
        /\ \A q \in Procs \ Workers : Untouched(q)
    BY <1>2, BackfillStep
  <2>2. IndInv'
    BY <1>2, <2>1, BackfillKeepsIndInv
  <2> QED BY <2>1, <2>2
<1>3. CASE UNCHANGED systemVars
  <2>1. IndInv'
    BY <1>3, NextKeepsInv DEF systemVars
  <2>2. /\ UNCHANGED <<chainVars, storeVars, fetchVars, backfillVars>>
        /\ ranges' = ranges
    BY <1>3 DEF systemVars, vars, storeVars
  <2>3. Tables' /\ FetchTypeOK'
    BY <2>1, <2>2, TablesSame, BackfillInvParts DEF IndInv, TypeOK
  <2>4. \A w \in Workers : Untouched(w)
    BY <2>2 DEF fetchVars, Untouched
  <2>5. BackfillInv'
    BY <2>2, <2>3, <2>4, OthersStep
  <2> QED BY <2>1, <2>5
<1> QED BY <1>1, <1>2, <1>3 DEF SystemNext

\* The invariant of the deployment.
THEOREM SystemInvariant ==
    ASSUME ReorgDepth <= Buffer
    PROVE  SystemSpec => []SystemInv
<1>1. SystemInv /\ [SystemNext]_systemVars => SystemInv'
  BY SystemKeepsInv
<1> QED BY <1>1, SystemBegins, PTL DEF SystemSpec

\* Nothing below a cursor is missing, though a backfill writes beside the
\* indexer.
THEOREM SystemNoSkips ==
    ASSUME ReorgDepth <= Buffer
    PROVE  SystemSpec => []NothingSkipped
<1>1. SystemInv => NothingSkipped
  BY InvGivesNoSkips DEF SystemInv
<1> QED BY <1>1, SystemInvariant, PTL

\* No stored row outlives its block, whoever stored it.
THEOREM SystemNoOrphans ==
    ASSUME ReorgDepth <= Buffer
    PROVE  SystemSpec => []NothingOrphaned
<1>1. SystemInv => NothingOrphaned
  BY DEF SystemInv, IndInv
<1> QED BY <1>1, SystemInvariant, PTL

\* A promise of idempotency is kept while the live indexer works on the same
\* blocks (backfill/core.py, _print_summary).
THEOREM SystemIdempotency ==
    ASSUME ReorgDepth <= Buffer
    PROVE  SystemSpec => []IdempotencyHolds
<1>1. SystemInv => IdempotencyHolds
  BY InvGivesIdempotency DEF SystemInv
<1> QED BY <1>1, SystemInvariant, PTL

\* A run that ends has recorded or failed every block it answers for.
THEOREM SystemAccount ==
    ASSUME ReorgDepth <= Buffer
    PROVE  SystemSpec => []RunAccountsForTarget
<1>1. SystemInv => RunAccountsForTarget
  BY InvGivesAccount DEF SystemInv
<1> QED BY <1>1, SystemInvariant, PTL

\* The caches stay under their limit.
THEOREM SystemCaches ==
    ASSUME ReorgDepth <= Buffer
    PROVE  SystemSpec => []CacheBounded
<1>1. SystemInit => CacheBounded
  BY CacheBoundedAtStart DEF SystemInit, Init
<1>2. SystemInv /\ CacheBounded /\ [SystemNext]_systemVars => CacheBounded'
  <2> SUFFICES ASSUME SystemInv, CacheBounded, [SystemNext]_systemVars
               PROVE  CacheBounded'
    OBVIOUS
  <2>1. CASE [Next]_vars
    BY <2>1, NextCacheStep, CacheStepBounded DEF SystemInv
  <2>2. CASE BackfillNext
    BY <2>2, BackfillCacheStep, CacheStepBounded DEF SystemInv
  <2> QED BY <2>1, <2>2 DEF SystemNext, systemVars
<1> QED BY <1>1, <1>2, SystemInvariant, PTL DEF SystemSpec

\* The cursor of a token only moves forward: backfills never touch it.
THEOREM SystemCursorNeverBack ==
    ASSUME ReorgDepth <= Buffer, OneIndexer
    PROVE  SystemSpec => CursorMonotone
<1>1. SystemInit => CursorBehind
  BY DEF SystemInit, Init, CursorBehind
<1>2. SystemInv /\ CursorBehind /\ [SystemNext]_systemVars
      => CursorBehind' /\ CursorsForward
  <2> SUFFICES ASSUME SystemInv, CursorBehind, [SystemNext]_systemVars
               PROVE  CursorBehind' /\ CursorsForward
    OBVIOUS
  <2>1. CASE [Next]_vars
    BY <2>1, CursorBehindKept DEF SystemInv
  <2>2. CASE BackfillNext /\ UNCHANGED procVars
    <3>1. UNCHANGED <<cursors, procVars>>
      BY <2>2, BackfillStep DEF SystemInv
    <3> QED BY <3>1, CursorsStay
            DEF SystemInv, BackfillInv, CursorBehind, Token, procVars
  <2> QED BY <2>1, <2>2 DEF SystemNext, systemVars
<1>3. SystemInv /\ CursorBehind /\ [SystemNext]_systemVars
      => [\A t \in Tokens : cursors[t] # NoCursor =>
            /\ cursors'[t] # NoCursor
            /\ cursors'[t] >= cursors[t]]_vars
  BY <1>2 DEF CursorsForward
<1> QED BY <1>1, <1>2, <1>3, SystemInvariant, PTL DEF SystemSpec, CursorMonotone

-----------------------------------------------------------------------------
(* The refinement of Ledger.                                               *)

(***************************************************************************)
(* The transaction of a chunk puts its range on record in Ledger, as the   *)
(* transaction of a batch does, and moves no mark.                         *)
(***************************************************************************)
LEMMA ChunkIsCover ==
    ASSUME BackfillInv, NEW w \in Workers, wpc[w] = "commit",
           ChunkWrites(w), UNCHANGED chainVars
    PROVE  LedgerStep
<1> USE DEF BackfillInv
<1> DEFINE t == BackfillToken
<1>1. PICK f \in Blocks, n \in Blocks : f = chunk[w].from /\ n = chunk[w].to
  BY ChunkBounds
<1>2. f <= n /\ Final(n) /\ t \in Tokens /\ w \in Procs
      /\ RowsInv(w, t, f, n)
  BY <1>1, ChunkBounds, BackfillConstants DEF ChunkInv
<1>3. RecordCoverage(t, f, n) /\ cursors' = cursors
  BY <1>1 DEF ChunkWrites
<1>4. transfers' = transfers \cup rows[w]
  BY ChunkWritesCorrect
<1>5. rows[w] = UNION {Canonical(t, b) : b \in f .. n}
  <2>1. ASSUME NEW r \in rows[w] PROVE \E b \in f .. n : r \in Canonical(t, b)
    <3>1. r.block \in Blocks
      BY <1>2 DEF FetchTypeOK, Transfer
    <3> QED BY <1>2, <3>1, ChainConstants DEF RowsInv
  <2> QED BY <1>2, <2>1 DEF RowsInv
<1>6. LedgerCovered' = LedgerCovered \cup ({t} \X (f .. n))
  BY <1>2, <1>3, RecordCovers DEF StoreTypeOK
<1>7. LedgerMark' = LedgerMark
  BY <1>3 DEF LedgerMark
<1>8. L!Cover(t, f, n)
  <2>1. \A b : L!Canonical(t, b) = Canonical(t, b)
    BY DEF L!Canonical, Canonical
  <2>2. L!Final(n) /\ UNCHANGED L!chainVars
    BY <1>2 DEF L!Final, Final, L!chainVars, chainVars
  <2>3. transfers' = transfers \cup UNION {L!Canonical(t, b) : b \in f .. n}
    BY <1>4, <1>5, <2>1
  <2> QED BY <1>2, <1>6, <1>7, <2>2, <2>3 DEF L!Cover, LedgerCovered, LedgerMark
<1> QED BY <1>2, <1>8, CoverIsLedgerStep

\* Every other step of a backfill leaves the chain and the tables alone.
LEMMA BackfillQuietOrCommit ==
    ASSUME BackfillNext
    PROVE  /\ UNCHANGED chainVars
           /\ \/ UNCHANGED <<transfers, cursors, ranges>>
              \/ \E w \in Workers : wpc[w] = "commit" /\ ChunkWrites(w)
<1>1. CASE RunRange \/ RunGapScan \/ ScanCursor \/ ScanGaps \/ CheckRange \/ Drain
  BY <1>1 DEF RunRange, RunGapScan, ScanCursor, ScanGaps, CheckRange, Drain, storeVars
<1>2. CASE Finish \/ Abort
  BY <1>2 DEF Finish, Abort, Reset, storeVars
<1>3. ASSUME NEW w \in Workers,
             WorkerStep(w) \/ FailChunk(w) \/ LoseChunkReply(w)
      PROVE  /\ UNCHANGED chainVars
             /\ \/ UNCHANGED <<transfers, cursors, ranges>>
                \/ \E v \in Workers : wpc[v] = "commit" /\ ChunkWrites(v)
  <2>1. CASE TakeChunk(w) \/ EnsureChunkToken(w) \/ ServeChunk(w)
             \/ BisectChunk(w) \/ TimesOfChunk(w)
    BY <2>1 DEF TakeChunk, EnsureChunkToken, ServeChunk, BisectChunk,
                TimesOfChunk, storeVars
  <2>2. CASE CommitChunk(w) \/ FailChunk(w) \/ LoseChunkReply(w)
    BY <2>2 DEF CommitChunk, FailChunk, LoseChunkReply, EndChunk, storeVars
  <2> QED BY <1>3, <2>1, <2>2 DEF WorkerStep
<1> QED BY <1>1, <1>2, <1>3 DEF BackfillNext, MainStep

(***************************************************************************)
(* The deployment implements the ledger: batches of the indexer and chunks *)
(* of a backfill are the same step of it, in any interleaving.             *)
(***************************************************************************)
THEOREM SystemImplementsLedger ==
    ASSUME ReorgDepth <= Buffer
    PROVE  SystemSpec => LedgerRefined
<1>1. SystemInit => L!LedgerInit
  BY InitIsLedgerInit DEF SystemInit
<1>2. SystemInv /\ [SystemNext]_systemVars
      => [L!LedgerNext]_<<L!chainVars, L!ledgerVars>>
  <2> SUFFICES ASSUME SystemInv, [SystemNext]_systemVars PROVE LedgerStep
    BY DEF LedgerStep
  <2>1. CASE [Next]_vars
    BY <2>1, NextIsLedgerStep DEF SystemInv
  <2>2. CASE BackfillNext
    BY <2>2, BackfillQuietOrCommit, ChunkIsCover, QuietTables DEF SystemInv
  <2> QED BY <2>1, <2>2 DEF SystemNext, systemVars
<1> QED BY <1>1, <1>2, SystemInvariant, PTL
        DEF SystemSpec, LedgerRefined, L!LedgerSpec

-----------------------------------------------------------------------------
(* Backfills and an operator.                                              *)

\* Rows go together with every record that speaks of their blocks.
LEMMA TruncateKeeps ==
    ASSUME BackfillInv, Truncate
    PROVE  BackfillInv'
<1> USE DEF BackfillInv
<1>1. PICK f \in Blocks, n \in Blocks :
        /\ transfers' = {r \in transfers :
                           ~(TokenOf[r.key] = BackfillToken
                             /\ f <= r.block /\ r.block <= n)}
        /\ ranges' = {r \in ranges : ~(r.token = BackfillToken
                                       /\ f <= r.to /\ r.from <= n)}
  BY DEF Truncate
<1>2. /\ mpc = "idle" /\ cursors' = cursors /\ tokens' = tokens
      /\ UNCHANGED <<chainVars, fetchVars, backfillVars>>
  BY DEF Truncate
<1>3. \A t, b : Canonical(t, b)' = Canonical(t, b)
  BY <1>2 DEF Canonical, chainVars
<1>4. CoverageSound'
  <2> SUFFICES ASSUME NEW r \in ranges', NEW b \in r.from .. r.to,
                      NEW x \in Canonical(r.token, b)
               PROVE  x \in transfers'
    BY <1>3 DEF CoverageSound
  <2>1. /\ r \in ranges /\ r.token \in Tokens
        /\ r.from \in Int /\ r.to \in Int /\ r.from \in Blocks /\ r.to \in Blocks
    BY <1>1, ChainConstants DEF StoreTypeOK, IndexedRange
  <2>2. b \in Blocks
    BY <2>1, ChainConstants
  <2>3. x.block = b /\ TokenOf[x.key] = r.token
    BY <2>1, <2>2, CanonicalRow
  <2>4. x \in transfers
    BY <2>1 DEF CoverageSound
  <2>5. ~(r.token = BackfillToken /\ f <= b /\ b <= n)
    BY <1>1, <2>1, ChainConstants
  <2> QED BY <1>1, <2>3, <2>4, <2>5
<1>5. /\ StoreTypeOK' /\ RecordsFinal' /\ RecordsOrdered' /\ CursorsFinal'
      /\ NothingOrphaned'
  BY <1>1, <1>2, <1>3 DEF StoreTypeOK, RecordsFinal, RecordsOrdered,
     CursorsFinal, NothingOrphaned, Final, chainVars
<1>6. ChainTypeOK' /\ ChainInv'
  BY <1>2 DEF ChainTypeOK, ChainInv, ValidChain, chainVars
<1>7. FetchTypeOK' /\ \A w \in Workers : Untouched(w)
  BY <1>2 DEF FetchTypeOK, Untouched, fetchVars
<1> QED BY <1>2, <1>4, <1>5, <1>6, <1>7, OthersStep DEF Tables

\* The operator resets a cursor.
LEMMA ResetCursorKeeps ==
    ASSUME BackfillInv, ResetCursor
    PROVE  BackfillInv'
<1> USE DEF BackfillInv
<1>1. PICK n \in {b \in Blocks : Final(b)} \cup {NoCursor} :
        cursors' = [cursors EXCEPT ![BackfillToken] = n]
  BY DEF ResetCursor
<1>2. /\ mpc = "idle" /\ UNCHANGED <<transfers, ranges, tokens>>
      /\ UNCHANGED <<chainVars, fetchVars, backfillVars>>
  BY DEF ResetCursor
<1>3. \A t, b : Canonical(t, b)' = Canonical(t, b)
  BY <1>2 DEF Canonical, chainVars
<1>4. StoreTypeOK' /\ CursorsFinal'
  <2>1. /\ n \in Int \cup {NoCursor}
        /\ n # NoCursor => n \in Blocks /\ Final(n)
    BY ChainConstants DEF Blocks
  <2>2. cursors \in [Tokens -> Int \cup {NoCursor}] /\ CursorsFinal
    BY DEF StoreTypeOK, CursorsFinal
  <2>3. cursors' \in [Tokens -> Int \cup {NoCursor}]
    BY <1>1, <2>1, <2>2
  <2>4. StoreTypeOK'
    BY <1>2, <2>3 DEF StoreTypeOK
  <2>5. \A b : Final(b)' <=> Final(b)
    BY <1>2 DEF Final, chainVars
  <2>6. ASSUME NEW t \in Tokens, cursors'[t] # NoCursor
        PROVE  cursors'[t] \in Blocks /\ Final(cursors'[t])
    <3>1. CASE t = BackfillToken
      BY <1>1, <2>1, <2>2, <2>6, <3>1
    <3>2. CASE t # BackfillToken
      BY <1>1, <2>2, <2>6, <3>2 DEF CursorsFinal
    <3> QED BY <3>1, <3>2
  <2>7. Blocks' = Blocks
    BY DEF Blocks
  <2>8. CursorsFinal'
    BY <2>5, <2>6, <2>7 DEF CursorsFinal
  <2> QED BY <2>4, <2>8
<1>5. RecordsFinal' /\ RecordsOrdered' /\ CoverageSound' /\ NothingOrphaned'
  BY <1>2, <1>3 DEF RecordsFinal, RecordsOrdered, CoverageSound,
     NothingOrphaned, Final, chainVars
<1>6. ChainTypeOK' /\ ChainInv'
  BY <1>2 DEF ChainTypeOK, ChainInv, ValidChain, chainVars
<1>7. FetchTypeOK' /\ \A w \in Workers : Untouched(w)
  BY <1>2 DEF FetchTypeOK, Untouched, fetchVars
<1> QED BY <1>2, <1>4, <1>5, <1>6, <1>7, OthersStep DEF Tables

\* The invariant of backfills on a database an operator works on.
THEOREM MaintenanceInvariant ==
    ASSUME ReorgDepth <= Buffer
    PROVE  MaintenanceSpec => []BackfillInv
<1>1. MaintenanceInit => BackfillInv
  BY BackfillBegins DEF MaintenanceInit
<1>2. BackfillInv /\ [MaintenanceNext]_maintenanceVars => BackfillInv'
  <2> SUFFICES ASSUME BackfillInv, [MaintenanceNext]_maintenanceVars
               PROVE  BackfillInv'
    OBVIOUS
  <2>1. CASE UNCHANGED maintenanceVars
    <3>1. /\ UNCHANGED <<chainVars, storeVars, fetchVars, backfillVars>>
          /\ ranges' = ranges
      BY <2>1 DEF maintenanceVars, storeVars
    <3>2. Tables' /\ FetchTypeOK'
      BY <3>1, TablesSame, BackfillInvParts DEF FetchTypeOK, fetchVars
    <3>3. \A w \in Workers : Untouched(w)
      BY <3>1 DEF fetchVars, Untouched
    <3> QED BY <3>1, <3>2, <3>3, OthersStep
  <2> QED BY <2>1, ChainStep, BackfillStep, TruncateKeeps, ResetCursorKeeps
          DEF MaintenanceNext
<1> QED BY <1>1, <1>2, PTL DEF MaintenanceSpec

\* Type correctness of backfills.
THEOREM MaintenanceTypes ==
    ASSUME ReorgDepth <= Buffer
    PROVE  MaintenanceSpec => []MaintenanceTypeOK
<1>1. BackfillInv => MaintenanceTypeOK
  BY DEF BackfillInv, MaintenanceTypeOK
<1> QED BY <1>1, MaintenanceInvariant, PTL

\* Coverage stays true whatever an operator deletes between two runs.
THEOREM MaintenanceCoverage ==
    ASSUME ReorgDepth <= Buffer
    PROVE  MaintenanceSpec => []CoverageSound
<1>1. BackfillInv => CoverageSound
  BY DEF BackfillInv
<1> QED BY <1>1, MaintenanceInvariant, PTL

\* A promise of idempotency is kept, whatever happened before the run.
THEOREM MaintenanceIdempotency ==
    ASSUME ReorgDepth <= Buffer
    PROVE  MaintenanceSpec => []IdempotencyHolds
  BY InvGivesIdempotency, MaintenanceInvariant, PTL

\* A run that ends has recorded or failed every block it answers for, the
\* gaps of a truncated table or of a reset cursor included.
THEOREM MaintenanceAccount ==
    ASSUME ReorgDepth <= Buffer
    PROVE  MaintenanceSpec => []RunAccountsForTarget
  BY InvGivesAccount, MaintenanceInvariant, PTL

-----------------------------------------------------------------------------
(* The deployment, statement by statement.                                 *)

\* What is proved of Transactions, for the sessions of the deployment.
TP == INSTANCE TransactionsProofs WITH
        Writers <- Sessions, LiveWriters <- Indexers, Buffer <- ReorgDepth,
        book <- transfers,
        covered <- {c \in Tokens \X Blocks : Covered(c[1], c[2])},
        mark <- [t \in Tokens |->
                   IF cursors[t] = NoCursor THEN StartBlock - 1 ELSE cursors[t]],
        recorded <- ranges,
        pc <- stage,
        job <- [s \in Sessions |->
                   IF stage[s] = "idle" THEN NoBatch ELSE Batch(s)]

\* The transactions that are open, as Transactions sees them.
OpenJobs ==
    [s \in Sessions |-> IF stage[s] = "idle" THEN NoBatch ELSE Batch(s)]

\* What Transactions assumes of its constants is assumed of the deployment.
LEMMA InstanceConstants ==
    /\ MaxBlock \in Nat /\ ReorgDepth \in Nat /\ Forks # {}
    /\ TokenOf \in [Keys -> Tokens]
    /\ Shape \in [Keys -> {"erc20", "erc721", "malformed"}]
    /\ Logs \in [TP!Blocks -> [Forks -> SUBSET Keys]]
    /\ Limit \in Nat \ {0} /\ LogIndex \in [Keys -> Nat]
    /\ Queries \subseteq [keys : SUBSET Keys, from : TP!Blocks, to : TP!Blocks]
    /\ NoPosition \notin [b : TP!Blocks, l : Nat]
    /\ \A b \in TP!Blocks, f \in Forks : \A k, l \in Logs[b][f] :
          LogIndex[k] = LogIndex[l] => k = l
    /\ Indexers \subseteq Sessions
    /\ StartBlock \in TP!Blocks /\ TP!BufferSuffices
  BY ChainConstants, ClientConstants, StoreConstants
  DEF TP!Blocks, Blocks, Sessions, TP!BufferSuffices

\* A step of the transactions keeps their invariant.
LEMMA TransactionsGoOn ==
    ASSUME TP!TransactionsInv, TP!KeysExclusive,
           [TP!TransactionsNext]_TP!txVars
    PROVE  TP!TransactionsInv' /\ TP!KeysExclusive'
<1>1. TP!WritersTypeOK
  BY DEF TP!TransactionsInv
<1>2. TP!TransactionsInv'
  BY ONLY TP!TransactionsInv, [TP!TransactionsNext]_TP!txVars,
          TP!TransactionsStep, InstanceConstants
<1>3. TP!KeysExclusive'
  BY ONLY <1>1, TP!KeysExclusive, [TP!TransactionsNext]_TP!txVars,
          TP!StepKeepsKeys, InstanceConstants
<1> QED BY <1>2, <1>3

\* The words both modules use mean the same in both.
LEMMA SameWords ==
    /\ TP!Blocks = Blocks /\ TP!Row = Transfer
    /\ \A t, b : TP!Canonical(t, b) = Canonical(t, b)
    /\ \A n : TP!Final(n) <=> Final(n)
    /\ TP!ChainTypeOK <=> ChainTypeOK
    /\ TP!ChainInv <=> ChainInv
    /\ TP!NoJob = NoBatch
  BY DEF TP!Blocks, Blocks, TP!Row, Transfer, TP!Canonical, Canonical,
         TP!Final, Final, TP!ChainTypeOK, ChainTypeOK, TP!ChainInv, ChainInv,
         TP!ValidChain, ValidChain, TP!NoJob, NoBatch

\* The two instances of Transactions allow the same steps of a writer,
LEMMA SameWriterSteps ==
    ASSUME NEW w
    PROVE  /\ T!Begin(w) <=> TP!Begin(w)
           /\ T!InsertRow(w) <=> TP!InsertRow(w)
           /\ T!WriteCursor(w) <=> TP!WriteCursor(w)
           /\ T!WriteRange(w) <=> TP!WriteRange(w)
           /\ T!Commit(w) <=> TP!Commit(w)
<1> USE DEF T!Blocks, TP!Blocks, T!chainVars, TP!chainVars,
            T!ledgerVars, TP!ledgerVars, T!AfterRows, TP!AfterRows,
            T!Others, TP!Others, T!WaitsFor, TP!WaitsFor, T!Runs, TP!Runs,
            T!NextRow, TP!NextRow, T!Above, TP!Above, T!Taken, TP!Taken,
            T!Holds, TP!Holds, T!HoldsCursor, TP!HoldsCursor,
            T!HoldsRange, TP!HoldsRange, T!Row, TP!Row
<1>1. T!Begin(w) <=> TP!Begin(w)
  BY DEF T!Begin, TP!Begin, T!Job, TP!Job, T!JobRows, TP!JobRows,
         T!Continues, TP!Continues, T!Canonical, TP!Canonical
<1>2. T!InsertRow(w) <=> TP!InsertRow(w)
  BY DEF T!InsertRow, TP!InsertRow
<1>3. T!WriteCursor(w) <=> TP!WriteCursor(w)
  BY DEF T!WriteCursor, TP!WriteCursor
<1>4. T!WriteRange(w) <=> TP!WriteRange(w)
  BY DEF T!WriteRange, TP!WriteRange
<1>5. T!Commit(w) <=> TP!Commit(w)
  BY DEF T!Commit, TP!Commit, T!JobBlocks, TP!JobBlocks, T!Release, TP!Release,
         T!Back, TP!Back, T!NoJob, TP!NoJob
<1> QED BY <1>1, <1>2, <1>3, <1>4, <1>5

\* of several that fail together,
LEMMA SameRollback ==
    ASSUME NEW W
    PROVE  T!Rollback(W) <=> TP!Rollback(W)
  BY DEF T!Rollback, TP!Rollback, T!Discard, TP!Discard, T!Release, TP!Release,
         T!Back, TP!Back, T!NoJob, TP!NoJob, T!ledgerVars, TP!ledgerVars,
         T!chainVars, TP!chainVars

\* of a client,
LEMMA SameReaderSteps ==
    ASSUME NEW r
    PROVE  T!ReaderNext(r) <=> TP!ReaderNext(r)
<1> USE DEF T!Blocks, TP!Blocks, T!Respond, TP!Respond, T!FirstRows, TP!FirstRows,
            T!Selected, TP!Selected, T!Matches, TP!Matches,
            T!AfterCursor, TP!AfterCursor, T!NextCursors, TP!NextCursors,
            T!PositionOf, TP!PositionOf, T!Above, TP!Above,
            T!NothingKnown, TP!NothingKnown, T!NoQuery, TP!NoQuery,
            T!Cardinality, TP!Cardinality
<1>1. T!Health(r) <=> TP!Health(r)
  BY DEF T!Health, TP!Health
<1>2. T!FirstPage(r) <=> TP!FirstPage(r)
  BY DEF T!FirstPage, TP!FirstPage
<1>3. T!NextPage(r) <=> TP!NextPage(r)
  BY DEF T!NextPage, TP!NextPage
<1>4. T!Leave(r) <=> TP!Leave(r)
  BY DEF T!Leave, TP!Leave
<1> QED BY <1>1, <1>2, <1>3, <1>4 DEF T!ReaderNext, TP!ReaderNext

\* and of the chain, which is the chain of the deployment.
LEMMA SameChainSteps ==
    /\ T!ChainNext <=> TP!ChainNext
    /\ ChainNext <=> TP!ChainNext
  BY DEF T!ChainNext, TP!ChainNext, ChainNext, T!Mine, TP!Mine, Mine,
         T!Reorg, TP!Reorg, Reorg, T!ValidChain, TP!ValidChain, ValidChain,
         T!Blocks, TP!Blocks, Blocks, T!AnyFork, TP!AnyFork, AnyFork

\* The two instances are one specification.
LEMMA SameTransactions ==
    /\ T!TransactionsInit <=> TP!TransactionsInit
    /\ [T!TransactionsNext]_T!txVars <=> [TP!TransactionsNext]_TP!txVars
    /\ T!KeysExclusive <=> TP!KeysExclusive
<1> USE DEF T!chainVars, TP!chainVars, T!ledgerVars, TP!ledgerVars,
            T!readerVars, TP!readerVars, T!writerVars, TP!writerVars
<1>1. T!TransactionsInit <=> TP!TransactionsInit
  BY DEF T!TransactionsInit, TP!TransactionsInit, T!ApiInit, TP!ApiInit,
         T!LedgerInit, TP!LedgerInit, T!ChainInit, TP!ChainInit,
         T!AnyFork, TP!AnyFork, T!Blocks, TP!Blocks,
         T!ReadersInit, TP!ReadersInit, T!NothingKnown, TP!NothingKnown,
         T!NoQuery, TP!NoQuery, T!WritersInit, TP!WritersInit, T!NoJob, TP!NoJob
<1>2. T!TransactionsNext <=> TP!TransactionsNext
  <2>1. \A w : T!WriterNext(w) <=> TP!WriterNext(w)
    BY SameWriterSteps DEF T!WriterNext, TP!WriterNext
  <2>2. \A W : T!Rollback(W) <=> TP!Rollback(W)
    BY SameRollback
  <2>3. \A r : T!ReaderNext(r) <=> TP!ReaderNext(r)
    BY SameReaderSteps
  <2> QED BY <2>1, <2>2, <2>3, SameChainSteps
          DEF T!TransactionsNext, TP!TransactionsNext
<1>3. (UNCHANGED T!txVars) <=> (UNCHANGED TP!txVars)
  BY DEF T!txVars, TP!txVars, T!apiVars, TP!apiVars
<1>4. T!KeysExclusive <=> TP!KeysExclusive
  BY DEF T!KeysExclusive, TP!KeysExclusive, T!Others, TP!Others, T!Holds, TP!Holds
<1> QED BY <1>1, <1>2, <1>3, <1>4

-----------------------------------------------------------------------------
(* A transaction and the batch of its process.                             *)

\* What the steps of the deployment keep between them.
LinkInv ==
    /\ SystemInv
    /\ TP!TransactionsInv /\ TP!KeysExclusive
    /\ OpenWhileCommitting

\* The indexers' sessions and the workers' are different ones.
LEMMA TwoKinds == \A s \in Sessions : s \in Indexers <=> s \notin Workers
  BY SystemConstants DEF Sessions

\* A process in its batch has a valid range of final blocks, and in `rows`
\* the canonical transfers of those blocks; a live one begins where everything
\* before is covered.
LEMMA BatchIsJob ==
    ASSUME SystemInv, NEW s \in Sessions, Committing(s)
    PROVE  /\ Batch(s) \in TP!Job
           /\ Batch(s).from <= Batch(s).to /\ Final(Batch(s).to)
           /\ rows[s] = TP!JobRows(Batch(s))
           /\ s \in Indexers => TP!Continues(Batch(s).token, Batch(s).from)
<1>1. ASSUME NEW t \in Tokens, NEW f \in Blocks, NEW n \in Blocks, f <= n,
             RowsInv(s, t, f, n), s \in Procs
      PROVE  rows[s] = TP!JobRows([token |-> t, from |-> f, to |-> n])
  <2>1. \A r \in rows[s] : r.block \in Int
    BY <1>1, ChainConstants DEF SystemInv, BackfillInv, FetchTypeOK, Transfer
  <2>2. rows[s] = UNION {Canonical(t, b) : b \in f .. n}
    BY <1>1, <2>1, ChainConstants DEF RowsInv
  <2>3. UNION {TP!Canonical(t, b) : b \in f .. n}
          = UNION {Canonical(t, b) : b \in f .. n}
    BY SameWords
  <2> QED BY <2>2, <2>3 DEF TP!JobRows
<1>2. ASSUME NEW t \in Tokens, NEW f \in Blocks, NEW n \in Blocks
      PROVE  [token |-> t, from |-> f, to |-> n] \in TP!Job
  BY SameWords DEF TP!Job
<1>3. CASE s \in Indexers
  <2>1. /\ IndexerTypeOK /\ ChainTypeOK /\ pc[s] = "commit" /\ ProcInv(s)
        /\ s \in Procs
    BY <1>3, IndexerConstants DEF SystemInv, IndInv, TypeOK, Committing
  <2>2. PICK t, f, n : t = Token(s) /\ f = current[s] + 1 /\ n = toBlock[s]
    OBVIOUS
  <2>3. /\ t \in Tokens /\ f \in Blocks /\ n \in Blocks /\ f <= n /\ Final(n)
        /\ StartBlock <= f /\ current[s] \in Int
    BY <1>3, <2>1, <2>2, TokenType, BatchBounds
  <2>4. RowsInv(s, t, f, n) /\ \A b \in StartBlock .. current[s] : Covered(t, b)
    BY <2>1, <2>2 DEF ProcInv
  <2>5. Batch(s) = [token |-> t, from |-> f, to |-> n]
    BY <1>3, <2>2 DEF Batch
  <2>6. TP!Continues(t, f)
    <3> SUFFICES ASSUME NEW b \in StartBlock .. f - 1
                 PROVE  <<t, b>> \in {c \in Tokens \X Blocks : Covered(c[1], c[2])}
      BY <2>3, ChainConstants, StoreConstants DEF TP!Continues
    <3>1. f - 1 = current[s] /\ b \in Blocks
      BY <2>2, <2>3, ChainConstants, StoreConstants
    <3>2. Covered(t, b)
      BY <2>4, <3>1
    <3> QED BY <2>3, <3>1, <3>2
  <2> QED BY <1>1, <1>2, <2>1, <2>3, <2>4, <2>5, <2>6
<1>4. CASE s \in Workers
  <2>1. /\ s \notin Indexers /\ wpc[s] = "commit" /\ s \in Procs
        /\ ChainTypeOK /\ BackfillTypeOK /\ RunInv /\ ChunkInv(s)
    BY <1>4, TwoKinds, BackfillConstants
    DEF SystemInv, BackfillInv, Committing
  <2>2. PICK t, f, n :
          t = BackfillToken /\ f = chunk[s].from /\ n = chunk[s].to
    OBVIOUS
  <2>3. /\ t \in Tokens /\ f \in Blocks /\ n \in Blocks /\ f <= n /\ Final(n)
    BY <1>4, <2>1, <2>2, ChunkBounds, BackfillConstants
  <2>4. RowsInv(s, t, f, n)
    BY <2>1, <2>2 DEF ChunkInv
  <2>5. Batch(s) = [token |-> t, from |-> f, to |-> n]
    BY <2>1, <2>2 DEF Batch
  <2> QED BY <1>1, <1>2, <2>1, <2>3, <2>4, <2>5
<1> QED BY <1>3, <1>4 DEF Sessions

\* An open transaction works on the rows of its process.
LEMMA OpenTransactionInv ==
    ASSUME LinkInv, NEW s \in Sessions, stage[s] # "idle"
    PROVE  /\ Committing(s) /\ OpenJobs[s] = Batch(s)
           /\ pending[s] \subseteq rows[s] /\ held[s] \subseteq rows[s]
           /\ rows[s] \subseteq pending[s] \cup held[s] \cup transfers
           /\ stage[s] = "rows" <=> pending[s] # {}
<1>1. Committing(s) /\ OpenJobs[s] = Batch(s)
  BY DEF LinkInv, OpenWhileCommitting, OpenJobs
<1>2. rows[s] = TP!JobRows(Batch(s))
  BY <1>1, BatchIsJob DEF LinkInv
<1>3. TP!WriterInv(s)
  BY DEF LinkInv, TP!TransactionsInv
<1>4. /\ pending[s] \subseteq TP!JobRows(OpenJobs[s])
      /\ held[s] \subseteq TP!JobRows(OpenJobs[s])
      /\ TP!JobRows(OpenJobs[s]) \subseteq pending[s] \cup held[s] \cup transfers
      /\ stage[s] = "rows" <=> pending[s] # {}
  BY <1>3 DEF TP!WriterInv, TP!JobRows, OpenJobs
<1> QED BY <1>1, <1>2, <1>4

\* The rows of a batch are transfers of the chain, no two with one key.
LEMMA RowsHaveOwnKeys ==
    ASSUME SystemInv, NEW s \in Sessions, Committing(s),
           NEW x \in rows[s], NEW y \in rows[s], x.key = y.key
    PROVE  x = y
<1>1. ChainTypeOK /\ ChainInv
  BY DEF SystemInv, BackfillInv
<1>2. TP!ChainTypeOK /\ TP!ChainInv
  BY <1>1, SameWords
<1>3. PICK j \in TP!Job : rows[s] = TP!JobRows(j)
  BY BatchIsJob
<1>4. x \in TP!JobRows(j) /\ y \in TP!JobRows(j)
  BY <1>3
<1>5. TP!OnChain(x) /\ TP!OnChain(y)
  BY ONLY <1>2, <1>4, j \in TP!Job, TP!JobOnChain, InstanceConstants
<1> QED BY ONLY <1>2, <1>5, x.key = y.key, TP!OneOfAKind, InstanceConstants

\* What a transaction holds when it commits is what one INSERT of its rows
\* would write now.
LEMMA HeldIsInserted ==
    ASSUME LinkInv, NEW s \in Sessions, stage[s] = "commit"
    PROVE  held[s] = Inserted(rows[s])
<1>1. /\ Committing(s) /\ held[s] \subseteq rows[s]
      /\ rows[s] \subseteq held[s] \cup transfers
  BY OpenTransactionInv
<1>2. \A x \in held[s], y \in transfers : y.key # x.key
  BY DEF LinkInv, TP!KeysExclusive
<1>3. \A x, y \in rows[s] : x.key = y.key => x.block <= y.block
  <2> SUFFICES ASSUME NEW x \in rows[s], NEW y \in rows[s], x.key = y.key
               PROVE  x.block <= y.block
    OBVIOUS
  <2>1. x = y
    BY <1>1, RowsHaveOwnKeys DEF LinkInv
  <2>2. s \in Procs
    BY IndexerConstants, BackfillConstants DEF Sessions
  <2>3. x.block \in Int
    BY <2>2, ChainConstants DEF LinkInv, SystemInv, BackfillInv, FetchTypeOK, Transfer
  <2> QED BY <2>1, <2>3
<1>4. ASSUME NEW x \in held[s]
      PROVE  x \in Inserted(rows[s])
  BY <1>1, <1>2, <1>3 DEF Inserted
<1>5. ASSUME NEW x \in Inserted(rows[s])
      PROVE  x \in held[s]
  BY <1>1 DEF Inserted
<1> QED BY <1>4, <1>5

-----------------------------------------------------------------------------
(* Every step is a step of System, or none.                                *)

\* What a COMMIT writes is what the batch of System writes at once.
LEMMA CommitRowsWrites ==
    ASSUME LinkInv, NEW s \in Sessions, CommitRows(s)
    PROVE  /\ Committing(s) /\ stage[s] = "commit"
           /\ held[s] = Inserted(rows[s])
           /\ UpsertTransfers(rows[s]) /\ UNCHANGED tokens
           /\ RecordCoverage(Batch(s).token, Batch(s).from, Batch(s).to)
  BY HeldIsInserted DEF CommitRows, UpsertTransfers

\* The batch of an indexer is committed, seen or unseen.
LEMMA CommitBatchIsNext ==
    ASSUME LinkInv, NEW p \in Indexers, CommitBatch(p)
    PROVE  /\ Next /\ UNCHANGED backfillVars
           /\ BatchWrites(p) /\ pc[p] = "commit" /\ UNCHANGED chainVars
<1>1. p \in Sessions /\ CommitRows(p) /\ UNCHANGED backfillVars
  BY DEF Sessions, CommitBatch
<1>2. Batch(p) = [token |-> Token(p), from |-> current[p] + 1, to |-> toBlock[p]]
  BY DEF Batch
<1>3. pc[p] = "commit" /\ BatchWrites(p)
  BY <1>1, <1>2, CommitRowsWrites DEF Committing, BatchWrites, CommitBatch
<1>4. Commit(p) \/ LoseReply(p)
  BY <1>3 DEF CommitBatch, Commit, LoseReply
<1>5. IndexerNext(p)
  BY <1>4 DEF IndexerNext, Step, Fault
<1>6. UNCHANGED chainVars
  BY DEF CommitBatch, Committed, Raise
<1> QED BY <1>1, <1>3, <1>5, <1>6 DEF Next

\* The chunk of a worker is committed, seen or unseen.
LEMMA CommitChunkIsNext ==
    ASSUME LinkInv, NEW w \in Workers, CommitChunkRows(w)
    PROVE  /\ BackfillNext /\ UNCHANGED procVars
           /\ ChunkWrites(w) /\ wpc[w] = "commit" /\ UNCHANGED chainVars
<1>1. w \in Sessions /\ CommitRows(w) /\ UNCHANGED <<cursors, procVars>>
      /\ w \notin Indexers
  BY SystemConstants DEF Sessions, CommitChunkRows
<1>2. Batch(w) = [token |-> BackfillToken, from |-> chunk[w].from, to |-> chunk[w].to]
  BY <1>1 DEF Batch
<1>3. wpc[w] = "commit" /\ ChunkWrites(w) /\ held[w] = Inserted(rows[w])
  BY <1>1, <1>2, CommitRowsWrites DEF Committing, ChunkWrites
<1>4. CommitChunk(w) \/ LoseChunkReply(w)
  BY <1>3 DEF CommitChunkRows, CommitChunk, LoseChunkReply
<1>5. BackfillNext
  BY <1>4 DEF BackfillNext, WorkerStep
<1>6. UNCHANGED chainVars
  BY DEF CommitChunkRows, EndChunk
<1> QED BY <1>1, <1>3, <1>5, <1>6

\* A step of a process outside its transaction.
LEMMA QuietIsNext ==
    ASSUME QuietStep
    PROVE  SystemNext
<1>1. ASSUME NEW p \in Indexers, IndexerStep(p)
      PROVE  IndexerNext(p)
  BY <1>1 DEF IndexerStep, IndexerNext, Step, Fault
<1>2. ASSUME NEW w \in Workers, ChunkStep(w)
      PROVE  WorkerStep(w) \/ FailChunk(w)
  BY <1>2 DEF ChunkStep, WorkerStep
<1>3. CASE ChainNext /\ UNCHANGED <<storeVars, fetchVars, procVars, backfillVars>>
  BY <1>3 DEF SystemNext, Next
<1>4. CASE (\E p \in Indexers : IndexerStep(p)) /\ UNCHANGED backfillVars
  BY <1>1, <1>4 DEF SystemNext, Next
<1>5. CASE /\ \/ RunRange \/ RunGapScan \/ MainStep \/ Abort
              \/ \E w \in Workers : ChunkStep(w)
           /\ UNCHANGED procVars
  BY <1>2, <1>5 DEF SystemNext, BackfillNext
<1> QED BY <1>3, <1>4, <1>5 DEF QuietStep

\* One statement, or a client, moves no process.
LEMMA StatementsAreQuiet ==
    ASSUME \/ \E s \in Sessions : OpenTransaction(s) \/ Statement(s)
           \/ ClientStep
    PROVE  UNCHANGED systemVars
  BY DEF OpenTransaction, Statement, ClientStep

LEMMA DeploymentIsSystem ==
    ASSUME LinkInv, [DeploymentNext]_deploymentVars
    PROVE  [SystemNext]_systemVars
<1>1. CASE QuietStep
  BY <1>1, QuietIsNext
<1>2. ASSUME NEW p \in Indexers, CommitBatch(p)
      PROVE  SystemNext
  BY <1>2, CommitBatchIsNext DEF SystemNext
<1>3. ASSUME NEW w \in Workers, CommitChunkRows(w)
      PROVE  SystemNext
  BY <1>3, CommitChunkIsNext DEF SystemNext
<1>4. CASE (\E s \in Sessions : OpenTransaction(s) \/ Statement(s)) \/ ClientStep
  BY <1>4, StatementsAreQuiet
<1>5. CASE UNCHANGED deploymentVars
  BY <1>5 DEF deploymentVars
<1> QED BY <1>1, <1>2, <1>3, <1>4, <1>5 DEF DeploymentNext

-----------------------------------------------------------------------------
(* Every step is a step of the transactions, or none.                      *)

\* A process that is in its batch before and after a step is in the same one.
KeepsBatches ==
    \A s \in Sessions : Committing(s) /\ Committing(s)' => Batch(s)' = Batch(s)

\* An indexer outside its transaction: it touches no table but the tokens,
\* and does not come from one batch into another.
LEMMA IndexerStepKeeps ==
    ASSUME IndexerTypeOK, NEW p \in Indexers, IndexerStep(p),
           UNCHANGED backfillVars
    PROVE  /\ UNCHANGED <<chainVars, transfers, cursors, ranges>>
           /\ KeepsBatches
<1>1. UNCHANGED <<chainVars, transfers, cursors, ranges>>
  <2>1. CASE EnsureToken(p) \/ ReadCursor(p) \/ ReadHead(p) \/ BatchTop(p)
    BY <2>1 DEF EnsureToken, ReadCursor, ReadHead, BatchTop, storeVars
  <2>2. CASE Serve(p) \/ Bisect(p) \/ Times(p) \/ NextCycle(p) \/ Exit(p)
    BY <2>2 DEF Serve, Bisect, Times, NextCycle, Exit, storeVars
  <2>3. CASE \/ Fail(p) \/ (pc[p] = "ensure" /\ LoseReply(p))
             \/ Boot(p) \/ Signal(p) \/ Crash(p)
    BY <2>3 DEF Fail, LoseReply, Raise, Boot, Signal, Crash, storeVars
  <2> QED BY <2>1, <2>2, <2>3 DEF IndexerStep
<1>2. ASSUME NEW q \in Indexers, pc[q] = "commit", pc'[q] = "commit"
      PROVE  ti'[q] = ti[q] /\ current'[q] = current[q] /\ toBlock'[q] = toBlock[q]
  <2> USE DEF IndexerTypeOK, Goto, ForgetFrame
  <2>1. CASE \/ EnsureToken(p) \/ ReadCursor(p)
             \/ NextCycle(p) \/ Exit(p) \/ Boot(p) \/ Signal(p)
    BY <1>2, <2>1 DEF EnsureToken, ReadCursor, NextCycle, Exit, Boot, Signal,
                      StartCycle
  <2>2. CASE ReadHead(p) \/ BatchTop(p)
    BY <1>2, <2>2 DEF ReadHead, BatchTop, NextToken
  <2>3. CASE Serve(p) \/ Bisect(p) \/ Times(p)
    BY <1>2, <2>3 DEF Serve, Bisect, Times, procVars
  <2>4. CASE Fail(p) \/ (pc[p] = "ensure" /\ LoseReply(p)) \/ Crash(p)
    BY <1>2, <2>4 DEF Fail, LoseReply, Raise, Crash
  <2> QED BY <2>1, <2>2, <2>3, <2>4 DEF IndexerStep
<1>3. KeepsBatches
  BY <1>2, TwoKinds
  DEF KeepsBatches, Committing, Batch, Token, backfillVars, poolVars
<1> QED BY <1>1, <1>3

\* A backfill outside its transactions.
LEMMA BackfillStepKeeps ==
    ASSUME BackfillTypeOK, UNCHANGED procVars,
           \/ RunRange \/ RunGapScan \/ MainStep \/ Abort
           \/ \E w \in Workers : ChunkStep(w)
    PROVE  /\ UNCHANGED <<chainVars, transfers, cursors, ranges>>
           /\ KeepsBatches
<1>1. UNCHANGED <<chainVars, transfers, cursors, ranges>>
  <2>1. CASE RunRange \/ RunGapScan \/ ScanCursor \/ ScanGaps \/ CheckRange \/ Drain
    BY <2>1 DEF RunRange, RunGapScan, ScanCursor, ScanGaps, CheckRange, Drain,
                storeVars
  <2>2. CASE Finish \/ Abort
    BY <2>2 DEF Finish, Abort, Reset, storeVars
  <2>3. ASSUME NEW w \in Workers, ChunkStep(w)
        PROVE  UNCHANGED <<chainVars, transfers, cursors, ranges>>
    BY <2>3 DEF ChunkStep, TakeChunk, EnsureChunkToken, ServeChunk, BisectChunk,
                TimesOfChunk, FailChunk, EndChunk, storeVars
  <2> QED BY <2>1, <2>2, <2>3 DEF MainStep
<1>2. ASSUME NEW v \in Workers, wpc[v] = "commit", wpc'[v] = "commit"
      PROVE  chunk'[v] = chunk[v]
  <2>1. CASE RunRange \/ RunGapScan \/ ScanCursor \/ ScanGaps \/ CheckRange \/ Drain
    BY <2>1 DEF RunRange, RunGapScan, ScanCursor, ScanGaps, CheckRange, Drain,
                poolVars
  <2>2. CASE Finish \/ Abort
    BY <1>2, <2>2 DEF Finish, Abort, Reset
  <2>3. ASSUME NEW w \in Workers, ChunkStep(w)
        PROVE  chunk'[v] = chunk[v]
    <3> USE DEF BackfillTypeOK, WGoto
    <3>1. CASE TakeChunk(w) \/ EnsureChunkToken(w) \/ TimesOfChunk(w)
      BY <1>2, <3>1 DEF TakeChunk, EnsureChunkToken, TimesOfChunk
    <3>2. CASE ServeChunk(w) \/ BisectChunk(w)
      BY <3>2 DEF ServeChunk, BisectChunk, backfillVars, poolVars
    <3>3. CASE FailChunk(w)
      BY <1>2, <3>3 DEF FailChunk, EndChunk
    <3> QED BY <2>3, <3>1, <3>2, <3>3 DEF ChunkStep
  <2> QED BY <2>1, <2>2, <2>3 DEF MainStep
<1>3. KeepsBatches
  BY <1>2, TwoKinds DEF KeepsBatches, Committing, Batch, Token, procVars
<1> QED BY <1>1, <1>3

\* Whoever has left its batch has rolled back; the other transactions are as
\* they were.
LEMMA RestIsReleased ==
    ASSUME LinkInv, RollBackTheRest, KeepsBatches, NEW W \in SUBSET Sessions,
           \A s \in Sessions : s \in W <=> stage[s] # "idle" /\ ~Committing(s)'
    PROVE  /\ stage' = TP!Back(W, stage, "idle")
           /\ pending' = TP!Back(W, pending, {})
           /\ held' = TP!Back(W, held, {})
           /\ OpenJobs' = TP!Back(W, OpenJobs, TP!NoJob)
           /\ UNCHANGED chainVars => TP!Release(W)
<1>1. \A s \in Sessions :
        stage[s] = "idle" => pending[s] = {} /\ held[s] = {}
  BY DEF LinkInv, TP!TransactionsInv, TP!WriterInv
<1>2. \A s \in Sessions : stage'[s] = IF s \in W THEN "idle" ELSE stage[s]
  BY DEF RollBackTheRest, KeepOpen
<1>3. stage' = TP!Back(W, stage, "idle")
  BY DEF RollBackTheRest, KeepOpen, TP!Back
<1>4. pending' = TP!Back(W, pending, {}) /\ held' = TP!Back(W, held, {})
  BY <1>1 DEF RollBackTheRest, KeepOpen, TP!Back
<1>5. OpenJobs' = TP!Back(W, OpenJobs, TP!NoJob)
  <2>1. ASSUME NEW s \in Sessions, s \notin W, stage[s] # "idle"
        PROVE  Batch(s)' = Batch(s)
    BY <2>1 DEF LinkInv, OpenWhileCommitting, KeepsBatches
  <2>2. ASSUME NEW s \in Sessions
        PROVE  (IF stage[s] = "idle" THEN NoBatch ELSE Batch(s))'
                 = IF s \in W THEN NoBatch ELSE OpenJobs[s]
    BY <1>2, <2>1 DEF OpenJobs, NoBatch
  <2>3. OpenJobs' = [s \in Sessions |-> IF s \in W THEN NoBatch ELSE OpenJobs[s]]
    BY <2>2 DEF OpenJobs
  <2> QED BY <2>3, SameWords DEF TP!Back
<1>6. ASSUME UNCHANGED chainVars
      PROVE  TP!Release(W)
  BY <1>3, <1>4, <1>5, <1>6 DEF TP!Release, OpenJobs, TP!chainVars, chainVars
<1> QED BY <1>3, <1>4, <1>5, <1>6

\* When nobody has left its batch, nothing is rolled back.
LEMMA NothingReleased ==
    ASSUME LinkInv, RollBackTheRest, KeepsBatches,
           \A s \in Sessions : stage[s] # "idle" => Committing(s)'
    PROVE  UNCHANGED <<stage, pending, held, OpenJobs>>
<1>1. TP!WritersTypeOK
  BY DEF LinkInv, TP!TransactionsInv
<1>2. {} \in SUBSET Sessions
      /\ \A s \in Sessions : s \in {} <=> stage[s] # "idle" /\ ~Committing(s)'
  OBVIOUS
<1>3. /\ stage' = TP!Back({}, stage, "idle")
      /\ pending' = TP!Back({}, pending, {})
      /\ held' = TP!Back({}, held, {})
      /\ OpenJobs' = TP!Back({}, OpenJobs, TP!NoJob)
  BY <1>2, RestIsReleased
<1> QED BY <1>1, <1>3 DEF TP!Back, TP!WritersTypeOK, OpenJobs

\* The tables that the readers' view is made of stay as they are.
LEMMA LedgerSame ==
    ASSUME UNCHANGED <<transfers, cursors, ranges>>
    PROVE  UNCHANGED TP!ledgerVars
  BY SameTables DEF TP!ledgerVars, LedgerCovered, LedgerMark

\* Nor do the chain and the tables when no process moves.
LEMMA SystemStays ==
    ASSUME UNCHANGED systemVars, UNCHANGED <<stage, pending, held>>
    PROVE  UNCHANGED <<TP!chainVars, TP!ledgerVars, TP!writerVars>>
<1>1. /\ UNCHANGED <<head, fork, peak, transfers, cursors, ranges>>
      /\ UNCHANGED <<pc, ti, current, toBlock, wpc, chunk>>
  BY DEF systemVars, vars, chainVars, storeVars, procVars, backfillVars, poolVars
<1>2. OpenJobs' = OpenJobs
  BY <1>1 DEF OpenJobs, NoBatch, Batch, Token
<1>3. UNCHANGED TP!ledgerVars
  BY <1>1, LedgerSame
<1> QED BY <1>1, <1>2, <1>3 DEF TP!chainVars, TP!writerVars, OpenJobs

\* Those that have left their batch with a transaction open roll back.
LEMMA LeaversRollBack ==
    ASSUME LinkInv, RollBackTheRest, KeepsBatches,
           UNCHANGED <<chainVars, transfers, cursors, ranges>>,
           NEW W \in SUBSET Sessions, W # {},
           \A s \in Sessions : s \in W <=> stage[s] # "idle" /\ ~Committing(s)'
    PROVE  TP!Rollback(W)
<1>1. TP!Release(W)
  BY RestIsReleased
<1>2. TP!Discard(W)
  BY LedgerSame DEF TP!Discard, TP!chainVars, chainVars
<1>3. \A s \in W : stage[s] # "idle"
  OBVIOUS
<1> QED BY <1>1, <1>2, <1>3 DEF TP!Rollback

\* The processes move and no table does.
LEMMA ProcessesAreTransactions ==
    ASSUME LinkInv, RollBackTheRest, KeepsBatches, UNCHANGED clientVars,
           UNCHANGED <<chainVars, transfers, cursors, ranges>>
    PROVE  [TP!TransactionsNext]_TP!txVars
<1>1. PICK W \in SUBSET Sessions :
        \A s \in Sessions : s \in W <=> stage[s] # "idle" /\ ~Committing(s)'
  <2>1. {s \in Sessions : stage[s] # "idle" /\ ~Committing(s)'} \in SUBSET Sessions
    OBVIOUS
  <2> QED BY <2>1
<1>2. CASE W = {}
  <2>1. UNCHANGED <<stage, pending, held, OpenJobs>>
    BY <1>1, <1>2, NothingReleased
  <2>2. UNCHANGED TP!ledgerVars
    BY LedgerSame
  <2>3. UNCHANGED TP!txVars
    BY <2>1, <2>2 DEF TP!txVars, TP!apiVars, OpenJobs, TP!chainVars, chainVars,
                      TP!readerVars, TP!writerVars, clientVars
  <2> QED BY <2>3
<1>3. CASE W # {}
  <2>1. TP!Rollback(W)
    BY <1>1, <1>3, LeaversRollBack
  <2>2. UNCHANGED TP!readerVars
    BY DEF TP!readerVars, clientVars
  <2> QED BY <2>1, <2>2 DEF TP!TransactionsNext
<1> QED BY <1>2, <1>3

\* A step of a process outside its transactions, or of the chain.
LEMMA QuietIsTransactions ==
    ASSUME LinkInv, QuietStep, RollBackTheRest, UNCHANGED clientVars
    PROVE  [TP!TransactionsNext]_TP!txVars
<1>1. IndexerTypeOK /\ BackfillTypeOK
  BY DEF LinkInv, SystemInv, IndInv, TypeOK, BackfillInv
<1>2. CASE ChainNext /\ UNCHANGED <<storeVars, fetchVars, procVars, backfillVars>>
  <2> USE DEF TP!readerVars, TP!writerVars, clientVars
  <2>1. UNCHANGED <<transfers, cursors, ranges>>
    BY <1>2 DEF storeVars
  <2>2. KeepsBatches /\ \A s \in Sessions : Committing(s) => Committing(s)'
    BY <1>2 DEF KeepsBatches, Committing, Batch, Token, procVars, backfillVars,
                poolVars
  <2>3. UNCHANGED <<stage, pending, held, OpenJobs>>
    BY <2>2, NothingReleased DEF LinkInv, OpenWhileCommitting
  <2>4. UNCHANGED <<TP!ledgerVars, TP!readerVars, TP!writerVars>>
    BY <2>1, <2>3, LedgerSame DEF OpenJobs
  <2> QED BY <1>2, <2>4, SameChainSteps DEF TP!TransactionsNext
<1>3. CASE (\E p \in Indexers : IndexerStep(p)) /\ UNCHANGED backfillVars
  BY <1>1, <1>3, IndexerStepKeeps, ProcessesAreTransactions
<1>4. CASE /\ \/ RunRange \/ RunGapScan \/ MainStep \/ Abort
              \/ \E w \in Workers : ChunkStep(w)
           /\ UNCHANGED procVars
  BY <1>1, <1>4, BackfillStepKeeps, ProcessesAreTransactions
<1> QED BY <1>2, <1>3, <1>4 DEF QuietStep

\* A COMMIT, whatever the process makes of it.
LEMMA CommitIsTransaction ==
    ASSUME LinkInv, NEW s \in Sessions, CommitRows(s), RollBackTheRest,
           UNCHANGED chainVars, ~Committing(s)',
           \A u \in Sessions \ {s} :
              (Committing(u)' <=> Committing(u)) /\ Batch(u)' = Batch(u),
           cursors' = IF s \in Indexers
                      THEN [cursors EXCEPT ![Batch(s).token] = Batch(s).to]
                      ELSE cursors
    PROVE  TP!Commit(s)
<1>1. /\ Committing(s) /\ stage[s] = "commit" /\ OpenJobs[s] = Batch(s)
      /\ transfers' = transfers \cup held[s]
      /\ RecordCoverage(Batch(s).token, Batch(s).from, Batch(s).to)
  BY OpenTransactionInv DEF CommitRows
<1>2. PICK t \in Tokens, f \in Blocks, n \in Blocks :
        Batch(s) = [token |-> t, from |-> f, to |-> n]
  <2>1. Batch(s) \in TP!Job
    BY <1>1, BatchIsJob DEF LinkInv
  <2> QED BY <2>1, SameWords DEF TP!Job
<1>3. TP!Release({s})
  <2>1. {s} \in SUBSET Sessions
        /\ \A u \in Sessions : u \in {s} <=> stage[u] # "idle" /\ ~Committing(u)'
    BY <1>1 DEF LinkInv, OpenWhileCommitting
  <2>2. KeepsBatches
    BY DEF KeepsBatches
  <2> QED BY <2>1, <2>2, RestIsReleased
<1>4. LedgerCovered' = LedgerCovered \cup ({t} \X (f .. n))
  BY <1>1, <1>2, RecordCovers DEF LinkInv, SystemInv, BackfillInv, StoreTypeOK
<1>5. TP!JobBlocks(OpenJobs[s]) = {t} \X (f .. n)
  BY <1>1, <1>2 DEF TP!JobBlocks
<1>6. ranges' = ranges \cup {OpenJobs[s]}
  BY <1>1, <1>2 DEF RecordCoverage
<1>7. LedgerMark' = IF s \in Indexers
                    THEN [LedgerMark EXCEPT ![OpenJobs[s].token] = OpenJobs[s].to]
                    ELSE LedgerMark
  <2>1. CASE s \in Indexers
    <3>1. cursors' = [cursors EXCEPT ![t] = n] /\ n # NoCursor
      BY <1>2, <2>1, StoreConstants, ChainConstants
    <3>2. \A u \in Tokens : cursors'[u] = IF u = t THEN n ELSE cursors[u]
      BY <3>1 DEF LinkInv, SystemInv, BackfillInv, StoreTypeOK
    <3>3. LedgerMark' = [u \in Tokens |-> IF u = t THEN n ELSE LedgerMark[u]]
      BY <3>1, <3>2 DEF LedgerMark
    <3>4. LedgerMark' = [LedgerMark EXCEPT ![t] = n]
      BY <3>3 DEF LedgerMark
    <3> QED BY <1>1, <1>2, <2>1, <3>4
  <2>2. CASE s \notin Indexers
    BY <2>2 DEF LedgerMark
  <2> QED BY <2>1, <2>2
<1> QED BY <1>1, <1>3, <1>4, <1>5, <1>6, <1>7
        DEF TP!Commit, LedgerCovered, LedgerMark, OpenJobs

\* The process of a committed batch has left it, and nobody else has.
LEMMA BatchIsLeft ==
    ASSUME LinkInv, NEW s \in Sessions,
           (s \in Indexers /\ CommitBatch(s)) \/ (s \in Workers /\ CommitChunkRows(s))
    PROVE  /\ ~Committing(s)'
           /\ \A u \in Sessions \ {s} :
                 (Committing(u)' <=> Committing(u)) /\ Batch(u)' = Batch(u)
<1>1. IndexerTypeOK /\ BackfillTypeOK
  BY DEF LinkInv, SystemInv, IndInv, TypeOK, BackfillInv
<1>2. CASE s \in Indexers /\ CommitBatch(s)
  <2>1. /\ pc' = [pc EXCEPT ![s] = "batch"] \/ pc' = [pc EXCEPT ![s] = "wait"]
        /\ \A u \in Indexers \ {s} :
              ti'[u] = ti[u] /\ current'[u] = current[u] /\ toBlock'[u] = toBlock[u]
        /\ UNCHANGED backfillVars
    BY <1>1, <1>2 DEF CommitBatch, Committed, Raise, Goto, ForgetFrame, IndexerTypeOK
  <2> QED BY <1>1, <1>2, <2>1, TwoKinds
          DEF Committing, Batch, Token, backfillVars, poolVars, IndexerTypeOK
<1>3. CASE s \in Workers /\ CommitChunkRows(s)
  <2>1. /\ wpc' = [wpc EXCEPT ![s] = "idle"]
        /\ chunk' = [chunk EXCEPT ![s] = NoRange]
        /\ UNCHANGED procVars
    BY <1>3 DEF CommitChunkRows, EndChunk, WGoto
  <2> QED BY <1>1, <1>3, <2>1, TwoKinds
          DEF Committing, Batch, Token, procVars, BackfillTypeOK
<1> QED BY <1>2, <1>3

\* Its COMMIT is the COMMIT of its transaction.
LEMMA CommitStep ==
    ASSUME LinkInv, NEW s \in Sessions, RollBackTheRest, UNCHANGED clientVars,
           (s \in Indexers /\ CommitBatch(s)) \/ (s \in Workers /\ CommitChunkRows(s))
    PROVE  TP!TransactionsNext
<1>1. CommitRows(s) /\ UNCHANGED chainVars
  BY CommitBatchIsNext, CommitChunkIsNext DEF CommitBatch, CommitChunkRows
<1>2. cursors' = IF s \in Indexers
                 THEN [cursors EXCEPT ![Batch(s).token] = Batch(s).to]
                 ELSE cursors
  BY TwoKinds DEF CommitBatch, CommitChunkRows, SetCursor, Batch
<1>3. TP!Commit(s)
  BY <1>1, <1>2, BatchIsLeft, CommitIsTransaction
<1> QED BY <1>3 DEF TP!TransactionsNext, TP!WriterNext, TP!readerVars, clientVars

\* A transaction begins, one statement, or a client.
LEMMA StatementIsTransaction ==
    ASSUME LinkInv, NEW s \in Sessions, OpenTransaction(s) \/ Statement(s)
    PROVE  TP!TransactionsNext
<1>1. CASE OpenTransaction(s)
  <2>1. /\ Committing(s) /\ stage[s] = "idle" /\ UNCHANGED held
        /\ UNCHANGED systemVars /\ UNCHANGED clientVars
        /\ stage' = [stage EXCEPT ![s] = T!AfterRows(s, rows[s])]
        /\ pending' = [pending EXCEPT ![s] = rows[s]]
    BY <1>1 DEF OpenTransaction
  <2>2. /\ UNCHANGED <<head, fork, peak, transfers, cursors, ranges>>
        /\ UNCHANGED <<pc, ti, current, toBlock, wpc, chunk>>
    BY <2>1 DEF systemVars, vars, chainVars, storeVars, procVars, backfillVars, poolVars
  <2>3. TP!WritersTypeOK
    BY DEF LinkInv, TP!TransactionsInv
  <2>4. stage'[s] # "idle" /\ \A u \in Sessions \ {s} : stage'[u] = stage[u]
    BY <2>1, <2>3 DEF T!AfterRows, TP!WritersTypeOK
  <2>5. \A u \in Sessions : Batch(u)' = Batch(u)
    BY <2>2 DEF Batch, Token
  <2>6. OpenJobs' = [OpenJobs EXCEPT ![s] = Batch(s)]
    BY <2>4, <2>5 DEF OpenJobs, NoBatch
  <2>7. PICK j \in TP!Job :
          /\ j = Batch(s) /\ j.from <= j.to /\ Final(j.to)
          /\ rows[s] = TP!JobRows(j)
          /\ s \in Indexers => TP!Continues(j.token, j.from)
    BY <2>1, BatchIsJob DEF LinkInv
  <2>8. stage' = [stage EXCEPT ![s] = TP!AfterRows(s, TP!JobRows(j))]
    BY <2>1, <2>7 DEF T!AfterRows, TP!AfterRows
  <2>9. UNCHANGED <<TP!chainVars, TP!ledgerVars>>
    BY <2>2, LedgerSame DEF TP!chainVars
  <2>10. TP!Begin(s)
    BY <2>1, <2>2, <2>6, <2>7, <2>8, <2>9 DEF TP!Begin, OpenJobs, Final
  <2> QED BY <2>1, <2>10 DEF TP!TransactionsNext, TP!WriterNext, TP!readerVars, clientVars
<1>2. CASE Statement(s)
  <2>1. TP!InsertRow(s) \/ TP!WriteCursor(s) \/ TP!WriteRange(s)
    BY <1>2, SameWriterSteps DEF Statement
  <2> QED BY <1>2, <2>1
          DEF Statement, TP!TransactionsNext, TP!WriterNext, TP!readerVars, clientVars
<1> QED BY <1>1, <1>2

\* The deployment does to the tables what its transactions may do.
LEMMA DeploymentIsTransactions ==
    ASSUME LinkInv, [DeploymentNext]_deploymentVars
    PROVE  [TP!TransactionsNext]_TP!txVars
<1> USE DEF Sessions
<1>1. CASE QuietStep /\ RollBackTheRest /\ UNCHANGED clientVars
  BY <1>1, QuietIsTransactions
<1>2. ASSUME NEW s \in Sessions, OpenTransaction(s) \/ Statement(s)
      PROVE  TP!TransactionsNext
  BY <1>2, StatementIsTransaction
<1>3. ASSUME NEW p \in Indexers, CommitBatch(p), RollBackTheRest,
             UNCHANGED clientVars
      PROVE  TP!TransactionsNext
  BY <1>3, CommitStep
<1>4. ASSUME NEW w \in Workers, CommitChunkRows(w), RollBackTheRest,
             UNCHANGED clientVars
      PROVE  TP!TransactionsNext
  BY <1>4, CommitStep
<1>5. CASE ClientStep
  <2>1. PICK r \in Readers : TP!ReaderNext(r)
    BY <1>5, SameReaderSteps DEF ClientStep
  <2>2. UNCHANGED systemVars /\ UNCHANGED <<stage, pending, held>>
    BY <1>5 DEF ClientStep, sessionVars
  <2>3. UNCHANGED <<TP!chainVars, TP!ledgerVars, TP!writerVars>>
    BY <2>2, SystemStays
  <2> QED BY <2>1, <2>3 DEF TP!TransactionsNext
<1>6. CASE UNCHANGED deploymentVars
  <2>1. UNCHANGED systemVars /\ UNCHANGED <<stage, pending, held>>
        /\ UNCHANGED clientVars
    BY <1>6 DEF deploymentVars, sessionVars
  <2>2. UNCHANGED <<TP!chainVars, TP!ledgerVars, TP!writerVars>>
    BY <2>1, SystemStays
  <2> QED BY <2>1, <2>2 DEF TP!txVars, TP!apiVars, TP!readerVars, clientVars,
          TP!chainVars, TP!ledgerVars, TP!writerVars
<1> QED BY <1>1, <1>2, <1>3, <1>4, <1>5, <1>6 DEF DeploymentNext

-----------------------------------------------------------------------------
(* The two descriptions hold together.                                     *)

LEMMA LinkBegins ==
    ASSUME DeploymentInit
    PROVE  LinkInv /\ TP!TransactionsInit
<1>1. SystemInit /\ stage = [s \in Sessions |-> "idle"]
      /\ pending = [s \in Sessions |-> {}] /\ held = [s \in Sessions |-> {}]
      /\ T!ReadersInit
  BY DEF DeploymentInit
<1>2. SystemInv
  BY <1>1, SystemBegins
<1>3. /\ ChainInit /\ transfers = {} /\ ranges = {}
      /\ cursors = [t \in Tokens |-> NoCursor]
  BY <1>1 DEF SystemInit, Init, StoreInit
<1>4. TP!ChainInit
  BY <1>3 DEF ChainInit, TP!ChainInit, AnyFork, TP!AnyFork, Blocks, TP!Blocks
<1>5. LedgerCovered = {}
  BY <1>3 DEF LedgerCovered, Covered
<1>6. LedgerMark = [t \in Tokens |-> StartBlock - 1]
  BY <1>3 DEF LedgerMark
<1>7. TP!LedgerInit
  BY <1>3, <1>4, <1>5, <1>6 DEF TP!LedgerInit, LedgerCovered, LedgerMark
<1>8. TP!ReadersInit
  BY <1>1 DEF T!ReadersInit, TP!ReadersInit, T!NothingKnown, TP!NothingKnown,
              T!NoQuery, TP!NoQuery
<1>9. OpenJobs = [s \in Sessions |-> NoBatch]
  BY <1>1 DEF OpenJobs
<1>10. TP!WritersInit
  BY <1>1, <1>3, <1>9, SameWords DEF TP!WritersInit, OpenJobs
<1>11. TP!TransactionsInit
  BY <1>7, <1>8, <1>10 DEF TP!TransactionsInit, TP!ApiInit
<1>12. TP!TransactionsInv
  BY ONLY <1>11, TP!TransactionsBegin, InstanceConstants
<1>13. TP!KeysExclusive /\ OpenWhileCommitting
  BY <1>1 DEF TP!KeysExclusive, OpenWhileCommitting
<1> QED BY <1>2, <1>11, <1>12, <1>13 DEF LinkInv

\* A transaction that is open after a step belongs to a process in its batch.
LEMMA OpenStep ==
    ASSUME LinkInv, [DeploymentNext]_deploymentVars
    PROVE  OpenWhileCommitting'
<1>1. CASE RollBackTheRest
  BY <1>1 DEF RollBackTheRest, KeepOpen, OpenWhileCommitting
<1>2. ASSUME UNCHANGED systemVars
      PROVE  \A s \in Sessions : Committing(s)' <=> Committing(s)
  BY <1>2 DEF systemVars, vars, procVars, backfillVars, poolVars, Committing
<1>3. ASSUME NEW s \in Sessions, OpenTransaction(s)
      PROVE  OpenWhileCommitting'
  <2>1. TP!WritersTypeOK
    BY DEF LinkInv, TP!TransactionsInv
  <2>2. /\ Committing(s) /\ UNCHANGED systemVars
        /\ stage' = [stage EXCEPT ![s] = T!AfterRows(s, rows[s])]
    BY <1>3 DEF OpenTransaction
  <2>3. \A u \in Sessions : u # s => stage'[u] = stage[u]
    BY <2>1, <2>2 DEF TP!WritersTypeOK
  <2> QED BY <1>2, <2>2, <2>3 DEF LinkInv, OpenWhileCommitting
<1>4. ASSUME NEW s \in Sessions, Statement(s)
      PROVE  OpenWhileCommitting'
  <2>1. TP!WritersTypeOK
    BY DEF LinkInv, TP!TransactionsInv
  <2>2. UNCHANGED systemVars /\ stage[s] # "idle"
        /\ \E x : stage' = [stage EXCEPT ![s] = x]
    BY <1>4, <2>1
    DEF Statement, T!InsertRow, T!WriteCursor, T!WriteRange, T!Runs, TP!WritersTypeOK
  <2>3. \A u \in Sessions : u # s => stage'[u] = stage[u]
    BY <2>1, <2>2 DEF TP!WritersTypeOK
  <2> QED BY <1>2, <2>2, <2>3 DEF LinkInv, OpenWhileCommitting
<1>5. CASE UNCHANGED systemVars /\ UNCHANGED sessionVars
  BY <1>2, <1>5 DEF LinkInv, OpenWhileCommitting, sessionVars
<1> QED BY <1>1, <1>3, <1>4, <1>5
        DEF DeploymentNext, ClientStep, deploymentVars

LEMMA LinkStep ==
    ASSUME ReorgDepth <= Buffer, LinkInv, [DeploymentNext]_deploymentVars
    PROVE  LinkInv'
<1>1. SystemInv'
  BY DeploymentIsSystem, SystemKeepsInv DEF LinkInv
<1>2. TP!TransactionsInv' /\ TP!KeysExclusive'
  BY DeploymentIsTransactions, TransactionsGoOn DEF LinkInv
<1>3. OpenWhileCommitting'
  BY OpenStep
<1> QED BY <1>1, <1>2, <1>3 DEF LinkInv

\* The link is kept in every behaviour.
LEMMA DeploymentLinked ==
    ASSUME ReorgDepth <= Buffer
    PROVE  DeploymentSpec => []LinkInv
<1>1. DeploymentInit => LinkInv
  BY LinkBegins
<1>2. LinkInv /\ [DeploymentNext]_deploymentVars => LinkInv'
  BY LinkStep
<1> QED BY <1>1, <1>2, PTL DEF DeploymentSpec

(***************************************************************************)
(* An open transaction belongs to a process in its batch, holds keys that  *)
(* nobody else has written, and commits exactly the rows one statement     *)
(* would write at that moment, whatever ran between its statements.        *)
(***************************************************************************)
THEOREM DeploymentInvariant ==
    ASSUME ReorgDepth <= Buffer
    PROVE  DeploymentSpec => []DeploymentInv
<1>1. LinkInv => DeploymentInv
  BY HeldIsInserted, SameTransactions DEF LinkInv, DeploymentInv, CountsExact
<1> QED BY <1>1, DeploymentLinked, PTL

(***************************************************************************)
(* The deployment, row by row, does what System does in single steps, and  *)
(* what Transactions allows: all that is proved of the two holds of it.    *)
(***************************************************************************)
THEOREM DeploymentRowByRow ==
    ASSUME ReorgDepth <= Buffer
    PROVE  DeploymentSpec => RowByRow
<1>1. DeploymentInit => SystemInit /\ T!TransactionsInit
  BY LinkBegins, SameTransactions DEF DeploymentInit
<1>2. LinkInv /\ [DeploymentNext]_deploymentVars
        => [SystemNext]_systemVars /\ [T!TransactionsNext]_T!txVars
  BY DeploymentIsSystem, DeploymentIsTransactions, SameTransactions
<1> QED BY <1>1, <1>2, DeploymentLinked, PTL
        DEF DeploymentSpec, RowByRow, SystemSpec, T!TransactionsSpec

\* The cursor of the live indexer never passes a transfer that is not on
\* record, with transactions that interleave row by row.
THEOREM DeploymentNoSkips ==
    ASSUME ReorgDepth <= Buffer
    PROVE  DeploymentSpec => []NothingSkipped
  BY DeploymentRowByRow, SystemNoSkips, PTL DEF RowByRow

\* Nothing on record left the chain again.
THEOREM DeploymentNoOrphans ==
    ASSUME ReorgDepth <= Buffer
    PROVE  DeploymentSpec => []NothingOrphaned
  BY DeploymentRowByRow, SystemNoOrphans, PTL DEF RowByRow

\* With one indexer per token, cursors go forward only.
THEOREM DeploymentCursorNeverBack ==
    ASSUME ReorgDepth <= Buffer, OneIndexer
    PROVE  DeploymentSpec => CursorMonotone
  BY DeploymentRowByRow, SystemCursorNeverBack, PTL DEF RowByRow

\* The pages a client has got, between whatever statements of the indexers
\* and the workers, hold all there is up to the block /health named.
THEOREM DeploymentPagesComplete ==
    ASSUME ReorgDepth <= Buffer
    PROVE  DeploymentSpec => []PagesComplete
<1>1. TP!TransactionsSpec => TP!AtomicToReaders
  BY ONLY TP!TransactionsAreAtomic, InstanceConstants
<1>2. TP!ApiSpec => []TP!CompleteUpToMark
  BY ONLY TP!PagingCompleteUpToMark, InstanceConstants
<1>3. TP!CompleteUpToMark => PagesComplete
  BY DEF PagesComplete, T!CompleteUpToMark, TP!CompleteUpToMark,
         T!Returned, TP!Returned, T!Canonical, TP!Canonical, T!Matches, TP!Matches
<1>4. DeploymentInit => TP!TransactionsInit
  BY LinkBegins
<1>5. LinkInv /\ [DeploymentNext]_deploymentVars => [TP!TransactionsNext]_TP!txVars
  BY DeploymentIsTransactions
<1> QED BY <1>1, <1>2, <1>3, <1>4, <1>5, DeploymentLinked, PTL
        DEF DeploymentSpec, TP!TransactionsSpec, TP!AtomicToReaders

\* No set of open transactions waits for itself.
THEOREM DeploymentNeverDeadlocked ==
    ASSUME ReorgDepth <= Buffer, IsFiniteSet(Sessions)
    PROVE  DeploymentSpec => []T!NoWaitCycle
<1>1. TP!IsFiniteSet(Sessions)
  BY DEF TP!IsFiniteSet, IsFiniteSet
<1>2. TP!TransactionsSpec => []TP!NoWaitCycle
  BY ONLY <1>1, TP!NeverDeadlocked, InstanceConstants
<1>3. ASSUME NEW w, NEW u
      PROVE  T!WaitsFor(w, u) <=> TP!WaitsFor(w, u)
  BY DEF T!WaitsFor, TP!WaitsFor, T!Row, TP!Row, T!Blocks, TP!Blocks,
         T!NextRow, TP!NextRow, T!Above, TP!Above, T!Taken, TP!Taken,
         T!Holds, TP!Holds,
         T!HoldsCursor, TP!HoldsCursor, T!HoldsRange, TP!HoldsRange
<1>4. TP!NoWaitCycle => T!NoWaitCycle
  BY <1>3 DEF T!NoWaitCycle, TP!NoWaitCycle
<1>5. DeploymentInit => TP!TransactionsInit
  BY LinkBegins
<1>6. LinkInv /\ [DeploymentNext]_deploymentVars => [TP!TransactionsNext]_TP!txVars
  BY DeploymentIsTransactions
<1> QED BY <1>2, <1>4, <1>5, <1>6, DeploymentLinked, PTL
        DEF DeploymentSpec, TP!TransactionsSpec

\* The idempotency assertion of a backfill holds.
THEOREM DeploymentIdempotency ==
    ASSUME ReorgDepth <= Buffer
    PROVE  DeploymentSpec => []IdempotencyHolds
  BY DeploymentRowByRow, SystemIdempotency, PTL DEF RowByRow

\* A run accounts for every block of its target.
THEOREM DeploymentAccount ==
    ASSUME ReorgDepth <= Buffer
    PROVE  DeploymentSpec => []RunAccountsForTarget
  BY DeploymentRowByRow, SystemAccount, PTL DEF RowByRow

\* Every COMMIT is one step of the abstract ledger, and nothing else is.
THEOREM DeploymentImplementsLedger ==
    ASSUME ReorgDepth <= Buffer
    PROVE  DeploymentSpec => LedgerRefined
  BY DeploymentRowByRow, SystemImplementsLedger, PTL DEF RowByRow

=============================================================================
