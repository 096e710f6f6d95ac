------------------------------- MODULE Ranges -------------------------------
(***************************************************************************)
(* The range arithmetic of backfill/core.py: compute_gaps and              *)
(* Backfiller._chunks.  A range is a record [from, to], both ends included.*)
(***************************************************************************)
EXTENDS Integers, SequencesExt

RangeOf(f, n) == [from |-> f, to |-> n]
In(b, r) == r.from <= b /\ b <= r.to

\* Block b is in one of the ranges of a sequence.
Holds(m, b) == \E i \in 1 .. Len(m) : In(b, m[i])

\* Python's order on tuples, used by sorted(covered).
Before(r, s) == r.from < s.from \/ (r.from = s.from /\ r.to < s.to)

\* Mutant: a range that ends inside the last one shortens it.
ExtendShrinking(merged, r) ==
    IF merged # <<>> /\ r.from <= Last(merged).to + 1
    THEN Front(merged) \o <<RangeOf(Last(merged).from, r.to)>>
    ELSE Append(merged, r)

\* One step of the merge loop: r touches the last merged range or opens one.
Extend(merged, r) ==
    IF merged # <<>> /\ r.from <= Last(merged).to + 1
    THEN Front(merged) \o
            <<RangeOf(Last(merged).from, Max({Last(merged).to, r.to}))>>
    ELSE Append(merged, r)

\* sorted(covered): at i is the range with i - 1 ranges before it.
Sorted(covered) ==
    [i \in 1 .. Cardinality(covered) |->
        CHOOSE r \in covered :
            Cardinality({s \in covered : Before(s, r)}) = i - 1]

\* The merge loop, over a sorted sequence of ranges.
MergeLoop(s) ==
    LET merge[i \in 0 .. Len(s)] ==
            IF i = 0 THEN <<>> ELSE Extend(merge[i - 1], s[i])
    IN merge[Len(s)]

Merged(covered) == MergeLoop(Sorted(covered))

\* Mutant: a covered range right at the position leaves an empty gap.
NextGapEmpty(s, r, n) ==
    IF s.pos > n THEN s
    ELSE [gaps |-> IF r.from >= s.pos
                   THEN Append(s.gaps, RangeOf(s.pos, Min({r.from - 1, n})))
                   ELSE s.gaps,
          pos  |-> Max({s.pos, r.to + 1})]

\* One step of the gap loop, which breaks once pos is past the end block n.
NextGap(s, r, n) ==
    IF s.pos > n THEN s
    ELSE [gaps |-> IF r.from > s.pos
                   THEN Append(s.gaps, RangeOf(s.pos, Min({r.from - 1, n})))
                   ELSE s.gaps,
          pos  |-> Max({s.pos, r.to + 1})]

\* The gap loop, over merged ranges.
GapLoop(merged, f, n) ==
    LET scan[i \in 0 .. Len(merged)] ==
            IF i = 0 THEN [gaps |-> <<>>, pos |-> f]
            ELSE NextGap(scan[i - 1], merged[i], n)
    IN scan[Len(merged)]

\* compute_gaps(f, n, covered).
ComputeGaps(f, n, covered) ==
    IF n < f THEN <<>>
    ELSE LET end == GapLoop(Merged(covered), f, n)
         IN IF end.pos <= n
            THEN Append(end.gaps, RangeOf(end.pos, n)) ELSE end.gaps

CeilDiv(a, b) == (a + b - 1) \div b

\* Mutant: the rounding of the chunk size is dropped.
ChunkSizeFloor(total, workers, batch) ==
    IF workers = 1 THEN batch ELSE Max({batch, total \div (workers * 8)})

\* A lone worker takes batches; a pool gets about eight chunks of
\* the range per worker.
ChunkSize(total, workers, batch) ==
    IF workers = 1 THEN batch ELSE Max({batch, CeilDiv(total, workers * 8)})

\* Mutant: the last chunk is not cut at the end of the range.
ChunksUncut(f, n, workers, batch) ==
    LET size == ChunkSize(n - f + 1, workers, batch)
    IN [i \in 1 .. CeilDiv(n - f + 1, size) |->
           RangeOf(f + (i - 1) * size, f + i * size - 1)]

\* _chunks(f, n): range(f, n + 1, size), each start with its end.
Chunks(f, n, workers, batch) ==
    LET size == ChunkSize(n - f + 1, workers, batch)
    IN [i \in 1 .. CeilDiv(n - f + 1, size) |->
           RangeOf(f + (i - 1) * size, Min({f + i * size - 1, n}))]

=============================================================================
