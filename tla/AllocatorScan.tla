---------------------------- MODULE AllocatorScan ----------------------------
(***************************************************************************)
(* FindContiguousGap of internal/allocation/allocator.go step by step: the *)
(* early returns, the sort, the overlap loop, the gap before the first     *)
(* range, the loop over the gaps between ranges, the gap after the last.   *)
(* BucketAllocator states the same function as a relation; here the loops  *)
(* are compared with that relation and with a brute-force first fit.       *)
(***************************************************************************)
EXTENDS Machine, BucketAllocator

CONSTANTS Total,        \* buckets of the layer
          MaxRanges     \* bound on the number of occupied ranges

ASSUME ScanAssumption == Total \in Nat \ {0} /\ MaxRanges \in Nat

OccupiedRange == {r \in [start : 0 .. Total - 1, end : 0 .. Total - 1] : r.start <= r.end}
NoGap == [start |-> -1, end |-> -1]

\* occupied, needed: the arguments; sorted: the sorted copy; i: the loop
\* counter, one higher than the code's index; at: where the function is;
\* result: the range it returned.
ScanInit ==
    \E n \in 0 .. MaxRanges : \E occupied \in [1 .. n -> OccupiedRange], needed \in 0 .. Total + 1 :
        st = [algo |-> "scan", occupied |-> occupied, needed |-> needed, sorted |-> <<>>,
              i |-> 0, at |-> "check", result |-> NoGap]

ScanAt(place) == Running("scan") /\ st.at = place
Give(r) == st' = [st EXCEPT !.at = "done", !.result = r]
GapFrom(s) == [start |-> s, end |-> s + st.needed - 1]
InLayer == 0 < st.needed /\ st.needed <= Total

\* bucketsNeeded out of range, or an empty layer.
CheckArguments ==
    /\ ScanAt("check")
    /\ \/ ~InLayer /\ Give(NoGap)
       \/ InLayer /\ Len(st.occupied) = 0 /\ Give(GapFrom(0))

\* sort.Slice is not stable: ranges with one start come in any order.
Orders(n) == {p \in [1 .. n -> 1 .. n] : \A i, j \in 1 .. n : i # j => p[i] # p[j]}
Sorted(s) ==
    {t \in {[i \in 1 .. Len(s) |-> s[p[i]]] : p \in Orders(Len(s))} :
        \A i, j \in 1 .. Len(s) : i < j => t[i].start <= t[j].start}

SortRanges ==
    /\ ScanAt("check")
    /\ InLayer /\ Len(st.occupied) > 0
    /\ \E s \in Sorted(st.occupied) : st' = [st EXCEPT !.sorted = s, !.at = "overlap", !.i = 2]

DetectOverlap ==
    /\ ScanAt("overlap")
    /\ \/ st.i <= Len(st.sorted) /\ st.sorted[st.i].start <= st.sorted[st.i - 1].end /\ Give(NoGap)
       \/ /\ st.i <= Len(st.sorted) /\ st.sorted[st.i].start > st.sorted[st.i - 1].end
          /\ st' = [st EXCEPT !.i = @ + 1]
       \/ st.i > Len(st.sorted) /\ st' = [st EXCEPT !.at = "first"]

GapBeforeFirst ==
    /\ ScanAt("first")
    /\ \/ st.sorted[1].start >= st.needed /\ Give(GapFrom(0))
       \/ st.sorted[1].start < st.needed /\ st' = [st EXCEPT !.at = "between", !.i = 1]

GapSize(k) == (st.sorted[k + 1].start - 1) - (st.sorted[k].end + 1) + 1

GapBetween ==
    /\ ScanAt("between")
    /\ \/ st.i < Len(st.sorted) /\ GapSize(st.i) >= st.needed /\ Give(GapFrom(st.sorted[st.i].end + 1))
       \/ st.i < Len(st.sorted) /\ GapSize(st.i) < st.needed /\ st' = [st EXCEPT !.i = @ + 1]
       \/ st.i >= Len(st.sorted) /\ st' = [st EXCEPT !.at = "last"]

GapAfterLast ==
    LET lastEnd == st.sorted[Len(st.sorted)].end
    IN  /\ ScanAt("last")
        /\ Give(IF Total - 1 - lastEnd >= st.needed THEN GapFrom(lastEnd + 1) ELSE NoGap)

ScanNext ==
    \/ CheckArguments
    \/ SortRanges
    \/ DetectOverlap
    \/ GapBeforeFirst
    \/ GapBetween
    \/ GapAfterLast

-----------------------------------------------------------------------------
\* The input as rows: equal ranges of different rows stay apart.
InputRows == {[row |-> k, start |-> st.occupied[k].start, end |-> st.occupied[k].end] :
                k \in DOMAIN st.occupied}

\* The loops of FindContiguousGap compute the relation the lifecycle uses: it
\* returns a range exactly when the relation has one, and then that range.
ScanMatchesRelation ==
    ScanAt("done") =>
       IF st.result = NoGap
       THEN NoContiguousGap(Total, InputRows, st.needed)
       ELSE FindContiguousGap(Total, InputRows, st.needed, st.result)

FreeAt(s) == \A k \in DOMAIN st.occupied :
                s + st.needed - 1 < st.occupied[k].start \/ st.occupied[k].end < s

\* Against brute force: for ranges that do not overlap, the result is the
\* lowest position at which all the needed buckets are free, and an error
\* means that there is none.
ScanIsFirstFit ==
    (ScanAt("done") /\ st.needed > 0 /\ ~OverlappingRanges(InputRows)) =>
       LET positions == {s \in 0 .. Total - st.needed : FreeAt(s)}
       IN  IF positions = {} THEN st.result = NoGap
           ELSE /\ st.result.start \in positions
                /\ st.result.end = st.result.start + st.needed - 1
                /\ \A s \in positions : st.result.start <= s
=============================================================================
