--------------------------- MODULE BucketAllocator ---------------------------
(***************************************************************************)
(* Bucket arithmetic of M5 (services/management/internal/allocation): how  *)
(* many hash buckets a traffic percentage stands for, and which contiguous *)
(* gap of a layer an experiment receives.                                  *)
(*                                                                         *)
(* Buckets are numbered 0 .. total-1; a range is a record with an          *)
(* inclusive start and end.  Percentages are in hundredths (100 = 1.0).    *)
(* The gap search is stated as a relation, so that nothing here is         *)
(* recursive and the modules above can be proved about; AllocatorScan      *)
(* shows that the loops of the code compute it.                            *)
(***************************************************************************)
EXTENDS Integers

\* traffic_percentage of an experiment; an absent, malformed or out-of-range
\* value (0 stands for each of them) means all of the traffic.
extractTrafficPercentage(pct) == IF pct <= 0 \/ pct > 100 THEN 100 ELSE pct

\* total * pct / 100 rounded half-up, at least 1 and at most total.
BucketsFromPercentage(total, pct) ==
    LET n == (2 * total * pct + 100) \div 200
    IN  IF pct <= 0 \/ n < 1 THEN 1 ELSE IF n > total THEN total ELSE n

Disjoint(a, b) == a.end < b.start \/ b.end < a.start

\* sorted[i].Start <= sorted[i-1].End for some i.
OverlappingRanges(occupied) ==
    \E a, b \in occupied : a # b /\ ~Disjoint(a, b)

\* A gap starts at bucket 0 or right behind an occupied range ...
GapStarts(occupied) == {0} \cup {a.end + 1 : a \in occupied}

\* Mutant: the end of the gap is off by one.
FitsOneMore(total, occupied, needed, s) ==
    /\ s \in GapStarts(occupied)
    /\ s + needed <= total
    /\ \A a \in occupied : a.start >= s => a.start + 1 >= s + needed

\* ... and extends to the next occupied range, or to the end of the layer.
Fits(total, occupied, needed, s) ==
    /\ s \in GapStarts(occupied)
    /\ s + needed <= total
    /\ \A a \in occupied : a.start >= s => a.start >= s + needed

\* FindContiguousGap returns [start, end]: the first gap that fits.
FindContiguousGap(total, occupied, needed, gap) ==
    /\ 0 < needed /\ needed <= total
    /\ ~OverlappingRanges(occupied)
    /\ Fits(total, occupied, needed, gap.start)
    /\ \A s \in GapStarts(occupied) :
          Fits(total, occupied, needed, s) => gap.start <= s
    /\ gap.end = gap.start + needed - 1

\* FindContiguousGap returns an error (ErrInsufficientCapacity or
\* ErrOverlappingRanges).
NoContiguousGap(total, occupied, needed) ==
    \/ needed <= 0 \/ needed > total
    \/ OverlappingRanges(occupied)
    \/ \A s \in GapStarts(occupied) : ~Fits(total, occupied, needed, s)
=============================================================================
