---------------------------- MODULE BucketReuse ----------------------------
(***************************************************************************)
(* The bucket allocator of the Rust management service: explicit ranges of *)
(* one layer, half-open, released into a cooldown.  allocate is four       *)
(* statements outside a transaction - the layer, the active overlaps, the  *)
(* overlaps in cooldown, the insert - and every statement is a step.       *)
(***************************************************************************)
EXTENDS Machine

CONSTANTS
    Allocatees,      \* experiments
    Ranges,          \* requested [start, end)
    TotalBuckets,    \* the layer's total_buckets
    Cooldown,        \* bucket_reuse_cooldown_seconds
    MaxHour,         \* bound: the database clock
    MaxRows          \* bound: rows of layer_allocations

ASSUME ReuseAssumption == Ranges \subseteq [start : Int, end : Int] /\ Cooldown \in Nat

NoCall == [phase |-> "idle"]

ReuseInit ==
    st = [algo |-> "reuse", now |-> 0, rows |-> <<>>,
          call |-> [e \in Allocatees |-> NoCall]]

Overlap(a, b) == a.start < b.end /\ b.start < a.end

\* The rows a check_overlap query selects: another experiment's, active or
\* released less than the cooldown ago.
Active(i) == st.rows[i].released = -1
Cooling(i) == ~Active(i) /\ st.rows[i].reusable > st.now
check_overlap(e, range, in_cooldown) ==
    \E i \in 1 .. Len(st.rows) :
        /\ st.rows[i].experiment # e
        /\ IF in_cooldown THEN Cooling(i) ELSE Active(i)
        /\ Overlap(st.rows[i], range)

ValidRange(r) == r.start < r.end /\ r.start >= 0 /\ r.end <= TotalBuckets

\* allocate: the layer and the range.
allocate(e, r) ==
    /\ st.call[e].phase = "idle" /\ Len(st.rows) < MaxRows
    /\ ValidRange(r)
    /\ st' = [st EXCEPT !.call[e] = [phase |-> "first", range |-> r, seen |-> 0]]

\* Mutant: the rows in cooldown are read before the active ones.
CooldownFirst(phase) == phase = "first"

\* The two queries: the active rows first, then the rows in cooldown; seen
\* is history: the rows there at the first.
InCooldown(phase) == phase = "second"
Check(e, phase, next) ==
    /\ st.call[e].phase = phase
    /\ st' = [st EXCEPT !.call[e] =
                IF check_overlap(e, @.range, InCooldown(phase)) THEN NoCall
                ELSE [phase |-> next, range |-> @.range,
                      seen |-> IF phase = "first" THEN Len(st.rows) ELSE @.seen]]

\* The insert, which no constraint of the table refuses.
InsertAllocation(e) ==
    LET c == st.call[e] IN
    /\ c.phase = "insert" /\ Len(st.rows) < MaxRows
    /\ st' = [st EXCEPT !.call[e] = NoCall,
                        !.rows = Append(@, [experiment |-> e, start |-> c.range.start,
                                            end |-> c.range.end, at |-> st.now, since |-> c.seen,
                                            released |-> -1, reusable |-> -1])]

\* release: every active row of the experiment starts its cooldown.
release(e) ==
    /\ \E i \in 1 .. Len(st.rows) : Active(i) /\ st.rows[i].experiment = e
    /\ st' = [st EXCEPT !.rows = [i \in 1 .. Len(@) |->
                IF Active(i) /\ @[i].experiment = e
                THEN [@[i] EXCEPT !.released = st.now, !.reusable = st.now + Cooldown] ELSE @[i]]]

DatabaseTick == st.now < MaxHour /\ st' = [st EXCEPT !.now = @ + 1]

ReuseNext ==
    /\ Running("reuse")
    /\ \/ \E e \in Allocatees :
            \/ \E r \in Ranges : allocate(e, r)
            \/ Check(e, "first", "second") \/ Check(e, "second", "insert") \/ InsertAllocation(e)
            \/ release(e)
       \/ DatabaseTick

ReuseSpec == ReuseInit /\ [][ReuseNext]_st

-----------------------------------------------------------------------------
(* Properties.                                                             *)

\* A bucket held by one experiment is given to another only when the first
\* has released it and the cooldown is over, whatever releases fall between
\* the statements - unless the first was inserted after the other call's
\* query for active rows.  Such an overlap stays: the comment of allocate
\* leaves it to a unique constraint, which layer_allocations does not have.
CooldownIsKept ==
    Running("reuse") =>
        \A i, j \in 1 .. Len(st.rows) :
            /\ i <= st.rows[j].since
            /\ st.rows[i].experiment # st.rows[j].experiment
            /\ Overlap(st.rows[i], st.rows[j])
            => st.rows[i].released # -1 /\ st.rows[j].at >= st.rows[i].released + Cooldown
=============================================================================
