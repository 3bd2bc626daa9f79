--------------------- MODULE ExperimentLifecycleProofs ---------------------
(***************************************************************************)
(* Proofs about ExperimentLifecycle, for any number of experiments, layers *)
(* and concurrent requests, any layer size, cooldown and percentages, and  *)
(* any subset of the failures: the safety invariants, what a start may be  *)
(* refused for, and the refinement of ExperimentContract.                  *)
(***************************************************************************)
EXTENDS ExperimentLifecycle, WellFoundedInduction, TLAPS

-----------------------------------------------------------------------------
(* The bucket arithmetic                                                   *)

\* A traffic percentage always asks for at least one bucket and never for
\* more than the layer has (BucketsFromPercentage clamps both ways).
LEMMA NeedInLayer ==
    ASSUME NEW total \in Nat \ {0}, NEW pct \in Int
    PROVE  BucketsFromPercentage(total, extractTrafficPercentage(pct)) \in 1 .. total
<1> DEFINE p == extractTrafficPercentage(pct)
           n == (2 * total * p + 100) \div 200
<1>1. p \in Int
  BY DEF extractTrafficPercentage
<1>2. 2 * total * p \in Int
  BY <1>1
<1>3. n \in Int
  BY <1>2
<1> QED
  BY <1>1, <1>3 DEF BucketsFromPercentage

\* The gap that FindContiguousGap returns has the size asked for and shares no
\* bucket with a range it was told is occupied.
LEMMA GapIsFree ==
    ASSUME NEW total \in Nat, NEW needed \in Nat, NEW occupied,
           \A a \in occupied : a.start \in Nat /\ a.end \in Nat /\ a.start <= a.end,
           NEW gap, gap.start \in Nat, gap.end \in Nat,
           FindContiguousGap(total, occupied, needed, gap)
    PROVE  /\ gap.end - gap.start + 1 = needed
           /\ \A a \in occupied : Disjoint(a, gap)
<1>1. gap.end = gap.start + needed - 1 /\ needed > 0
  BY DEF FindContiguousGap
<1>2. ASSUME NEW a \in occupied PROVE Disjoint(a, gap)
  <2>1. CASE a.start >= gap.start
    BY <1>1, <2>1 DEF FindContiguousGap, Fits, Disjoint
  <2>2. CASE a.start < gap.start
    <3>1. PICK b \in occupied : gap.start = b.end + 1
      BY <2>2 DEF FindContiguousGap, Fits, GapStarts
    <3>2. a = b \/ Disjoint(a, b)
      BY DEF FindContiguousGap, OverlappingRanges
    <3> QED
      BY <2>2, <3>1, <3>2 DEF Disjoint
  <2> QED
    BY <2>1, <2>2
<1> QED
  BY <1>1, <1>2

\* A set of natural numbers that is not empty has a least element.
LEMMA LeastElement ==
    ASSUME NEW T, T \subseteq Nat, T # {}
    PROVE  \E m \in T : \A x \in T : m <= x
<1>1. PICK m \in T : \A x \in T : ~(<<x, m>> \in OpToRel(<, Nat))
  BY NatLessThanWellFounded, WFMin
<1>2. \A x \in T : ~(x < m)
  BY <1>1 DEF OpToRel
<1> QED
  BY <1>2

\* Wherever a block of the size asked for is free, the search has a gap start
\* at or before it that fits, although it tries only bucket 0 and the buckets
\* behind an occupied range.
LEMMA SearchFindsBlocks ==
    ASSUME NEW total \in Nat, NEW needed \in Nat \ {0}, NEW occupied,
           \A a \in occupied : a.start \in Nat /\ a.end \in Nat /\ a.start <= a.end,
           NEW s \in Nat, s + needed <= total,
           \A a \in occupied : a.end < s \/ s + needed <= a.start
    PROVE  \E g \in GapStarts(occupied) : g <= s /\ Fits(total, occupied, needed, g)
<1> DEFINE Free(x) == \A a \in occupied : a.end < x \/ x + needed <= a.start
           T == {x \in Nat : Free(x)}
<1>1. PICK m \in T : \A x \in T : m <= x
  <2>1. s \in T
    OBVIOUS
  <2> HIDE DEF T
  <2>2. T \subseteq Nat
    BY DEF T
  <2> QED
    BY <2>1, <2>2, LeastElement
<1>2. m \in Nat /\ Free(m) /\ m <= s
  BY <1>1
<1>3. m \in GapStarts(occupied)
  <2>1. CASE m = 0
    BY <2>1 DEF GapStarts
  <2>2. CASE m # 0
    <3>1. m - 1 \in Nat /\ ~Free(m - 1)
      BY <1>1, <1>2, <2>2
    <3>2. PICK a \in occupied : ~(a.end < m - 1) /\ ~(m - 1 + needed <= a.start)
      BY <3>1
    <3>3. a.end < m \/ m + needed <= a.start
      BY <1>2
    <3>4. m = a.end + 1
      BY <1>2, <3>2, <3>3
    <3> QED
      BY <3>4 DEF GapStarts
  <2> QED
    BY <2>1, <2>2
<1>4. m + needed <= total
  BY <1>2
<1>5. \A a \in occupied : a.start >= m => a.start >= m + needed
  BY <1>2
<1> QED
  BY <1>2, <1>3, <1>4, <1>5 DEF Fits

\* The search has exactly one outcome: a gap inside the layer, or an error.
THEOREM SearchIsTotal ==
    ASSUME NEW total \in Nat \ {0}, NEW needed \in Nat, NEW occupied,
           \A a \in occupied : a.start \in Nat /\ a.end \in Nat
    PROVE  ~NoContiguousGap(total, occupied, needed)
             <=> \E g \in [start : 0 .. total - 1, end : 0 .. total - 1] :
                    FindContiguousGap(total, occupied, needed, g)
<1>1. ASSUME ~NoContiguousGap(total, occupied, needed)
      PROVE  \E g \in [start : 0 .. total - 1, end : 0 .. total - 1] :
                FindContiguousGap(total, occupied, needed, g)
  <2> DEFINE T == {x \in GapStarts(occupied) : Fits(total, occupied, needed, x)}
  <2>1. 0 < needed /\ needed <= total /\ ~OverlappingRanges(occupied) /\ T # {}
    BY <1>1 DEF NoContiguousGap
  <2>2. GapStarts(occupied) \subseteq Nat
    BY DEF GapStarts
  <2>3. PICK m \in T : \A x \in T : m <= x
    <3>1. T \subseteq Nat
      BY <2>2
    <3> HIDE DEF T
    <3> QED
      BY <2>1, <3>1, LeastElement
  <2>4. m \in Nat /\ m + needed <= total /\ Fits(total, occupied, needed, m)
    BY <2>2, <2>3 DEF Fits
  <2>5. m \in 0 .. total - 1 /\ m + needed - 1 \in 0 .. total - 1
    BY <2>1, <2>4
  <2>6. PICK g : g = [start |-> m, end |-> m + needed - 1]
    OBVIOUS
  <2>7. g.start = m /\ g.end = m + needed - 1
    BY <2>6
  <2>8. g \in [start : 0 .. total - 1, end : 0 .. total - 1]
    BY <2>5, <2>6
  <2>9. FindContiguousGap(total, occupied, needed, g)
    BY <2>1, <2>3, <2>4, <2>7 DEF FindContiguousGap
  <2> QED
    BY <2>8, <2>9
<1>2. ASSUME NEW g, FindContiguousGap(total, occupied, needed, g)
      PROVE  ~NoContiguousGap(total, occupied, needed)
  BY <1>2 DEF FindContiguousGap, NoContiguousGap, Fits
<1> QED
  BY <1>1, <1>2

\* An experiment asks for at least one bucket and at most the whole layer.
LEMMA BucketsNeededInLayer ==
    ASSUME TypeOK, NEW e \in Exps
    PROVE  BucketsNeeded(e) \in 1 .. TotalBuckets
<1>1. config[e] \in Configs
  BY DEF TypeOK
<1>2. config[e].pct \in Int
  BY <1>1 DEF Configs
<1> QED
  BY <1>2, NeedInLayer, ConstantsAssumption DEF BucketsNeeded, ConstantsAssumption

-----------------------------------------------------------------------------
(* What a step leaves alone                                                *)

\* A request's step changes its own record only.
LEMMA GotoFrame ==
    ASSUME TypeOK, NEW r \in Reqs, NEW step \in Steps, Goto(r, step)
    PROVE  /\ req' \in [Reqs -> Requests]
           /\ \A q \in Reqs : q # r => req'[q] = req[q]
           /\ req'[r].pc = step
           /\ req'[r].exp = req[r].exp
           /\ req'[r].now = req[r].now
           /\ req'[r].gap = req[r].gap
BY DEF TypeOK, Goto, Requests

\* Ending request r makes it idle and leaves the other requests alone.
LEMMA FinishFrame ==
    ASSUME TypeOK, NEW r \in Reqs, Finish(r)
    PROVE  /\ req' \in [Reqs -> Requests]
           /\ \A q \in Reqs : q # r => req'[q] = req[q]
           /\ req'[r].pc = "idle"
           /\ req'[r].now = 0
<1>1. Idle \in Requests
  BY ConstantsAssumption DEF Idle, Requests, Steps, Ranges, Buckets, ConstantsAssumption
<1> QED
  BY <1>1 DEF TypeOK, Finish, Idle

\* A state change touches one experiment, whose old and new state are known.
LEMMA TransitionFrame ==
    ASSUME TypeOK, NEW e \in Exps, NEW from \in States, NEW to \in States,
           TransitionState(e, from, to)
    PROVE  /\ state' \in [Exps -> States]
           /\ audit' \in [Exps -> [prev : States, new : States]]
           /\ state[e] = from
           /\ state'[e] = to
           /\ \A f \in Exps : f # e => state'[f] = state[f]
BY DEF TypeOK, TransitionState, Entry

\* Ending r's transaction takes no lock away from another request.
LEMMA ReleaseFrame ==
    ASSUME TypeOK, NEW r \in Reqs, ReleaseLocks(r)
    PROVE  /\ expLock' \in [Exps -> Reqs \cup {None}]
           /\ layerLock' \in [Layers -> Reqs \cup {None}]
           /\ \A e \in Exps, q \in Reqs : q # r /\ expLock[e] = q => expLock'[e] = q
           /\ \A l \in Layers, q \in Reqs : q # r /\ layerLock[l] = q => layerLock'[l] = q
BY DEF TypeOK, ReleaseLocks

\* The invariant holds initially.
LEMMA InitInv == Init => IndInv
<1> SUFFICES ASSUME Init PROVE IndInv
  OBVIOUS
<1>1. Idle \in Requests
  BY ConstantsAssumption DEF Idle, Requests, Steps, Ranges, Buckets, ConstantsAssumption
<1>2. TypeOK
  BY <1>1, ConstantsAssumption DEF Init, TypeOK, Configs, States, Entry
<1>3. \A r \in Reqs : req[r].pc = "idle" /\ req[r].now = 0
  BY DEF Init, Idle
<1>4. RequestsOK
  BY <1>3 DEF Init, RequestsOK
<1>5. SingleDriver
  BY <1>3 DEF SingleDriver, StartSteps, ConcludeSteps
<1>6. LocksOK
  BY <1>3 DEF LocksOK, HoldsExp, HoldsLayer
<1>7. RowsOK
  BY DEF Init, RowsOK
<1>8. StagedOK
  BY <1>3 DEF StagedOK
<1>9. ReuseAfterCooldown
  BY DEF Init, ReuseAfterCooldown
<1> QED
  BY <1>2, <1>4, <1>5, <1>6, <1>7, <1>8, <1>9 DEF IndInv

-----------------------------------------------------------------------------
(* Every step preserves the invariant                                      *)

\* Steps that leave the tables and the clock alone cannot disturb the rows.
LEMMA RowsUnchanged ==
    ASSUME IndInv, UNCHANGED <<state, config, allocs, clock>>
    PROVE  RowsOK' /\ ReuseAfterCooldown'
BY DEF IndInv, RowsOK, ReuseAfterCooldown, BucketsNeeded

\* A step of request r that leaves the tables and the clock alone, releases no
\* lock of another request, and neither stages a range nor takes a lock.
LEMMA ControlStep ==
    ASSUME IndInv, NEW r \in Reqs,
           UNCHANGED <<state, config, allocs, audit, clock>>,
           notices' \subseteq Exps \X PublishSteps,
           req' \in [Reqs -> Requests],
           \A q \in Reqs : q # r => req'[q] = req[q],
           expLock' \in [Exps -> Reqs \cup {None}],
           layerLock' \in [Layers -> Reqs \cup {None}],
           \A e \in Exps, q \in Reqs : q # r /\ expLock[e] = q => expLock'[e] = q,
           \A l \in Layers, q \in Reqs : q # r /\ layerLock[l] = q => layerLock'[l] = q,
           req'[r].now <= clock,
           req'[r].pc # "idle" => req'[r].exp = req[r].exp /\ req[r].pc # "idle",
           req'[r].pc \in StartSteps => req[r].pc \in StartSteps,
           req'[r].pc \in ConcludeSteps => req[r].pc \in ConcludeSteps,
           req'[r].pc \in HoldsExp => expLock'[req[r].exp] = r,
           req'[r].pc \in HoldsLayer => layerLock'[config[req[r].exp].layer] = r,
           req'[r].pc = "s_commit" =>
              /\ req'[r].gap.end - req'[r].gap.start + 1 = BucketsNeeded(req[r].exp)
              /\ \A a \in GetActiveAllocations(config[req[r].exp].layer, req'[r].now) :
                   Disjoint(a, req'[r].gap)
    PROVE  IndInv'
<1> USE DEF IndInv
<1>1. TypeOK'
  BY DEF TypeOK
<1>2. RequestsOK'
  BY DEF RequestsOK, TypeOK
<1>3. SingleDriver'
  BY DEF SingleDriver, RequestsOK, StartSteps, ConcludeSteps
<1>4. \A q \in Reqs : req[q].pc \in HoldsExp =>
         req[q].exp \in Exps /\ config[req[q].exp].layer \in Layers
  BY DEF RequestsOK, RowsOK, HoldsExp
<1>5. LocksOK'
  BY <1>4 DEF LocksOK, HoldsExp, HoldsLayer
<1>6. RowsOK' /\ ReuseAfterCooldown'
  BY RowsUnchanged
<1>7. StagedOK'
  BY DEF StagedOK, GetActiveAllocations, BucketsNeeded
<1> QED
  BY <1>1, <1>2, <1>3, <1>5, <1>6, <1>7

\* The verdict on metrics and type config only moves control.
LEMMA ValidateInv ==
    ASSUME IndInv, NEW r \in Reqs, ValidateForStart(r)
    PROVE  IndInv'
<1> USE DEF IndInv
<1>1. PICK step \in {"s_begin", "rollback"} : Goto(r, step)
  BY DEF ValidateForStart
<1>2. /\ req' \in [Reqs -> Requests]
      /\ \A q \in Reqs : q # r => req'[q] = req[q]
      /\ req'[r].pc = step /\ req'[r].exp = req[r].exp /\ req'[r].now = req[r].now
  BY <1>1, GotoFrame DEF Steps, StartSteps
<1>3. req[r].pc = "validate" /\ UNCHANGED <<state, config, allocs, audit, locks, notices, clock>>
  BY DEF ValidateForStart, At
<1> QED
  BY <1>2, <1>3, ControlStep
     DEF TypeOK, RequestsOK, StartSteps, ConcludeSteps, HoldsExp, HoldsLayer, locks

\* BEGIN reads the clock, or the handler gives up without a lock.
LEMMA BeginInv ==
    ASSUME IndInv, NEW r \in Reqs, NEW from, NEW to,
           <<from, to>> \in {<<"s_begin", "s_exp">>, <<"c_begin", "c_exp">>},
           BeginTx2(r, from, to)
    PROVE  IndInv'
<1> USE DEF IndInv
<1>1. req[r].pc = from /\ UNCHANGED <<state, config, allocs, audit, locks, notices, clock>>
  BY DEF BeginTx2, At
<1>2. CASE req' = [req EXCEPT ![r].pc = to, ![r].now = clock]
  <2>1. /\ req' \in [Reqs -> Requests]
        /\ \A q \in Reqs : q # r => req'[q] = req[q]
        /\ req'[r].pc = to /\ req'[r].exp = req[r].exp /\ req'[r].now = clock
    BY <1>2 DEF TypeOK, Requests, Steps, StartSteps, ConcludeSteps
  <2> QED
    BY <1>1, <2>1, ControlStep
       DEF TypeOK, StartSteps, ConcludeSteps, HoldsExp, HoldsLayer, locks
<1>3. CASE Finish(r)
  <2>1. /\ req' \in [Reqs -> Requests]
        /\ \A q \in Reqs : q # r => req'[q] = req[q]
        /\ req'[r].pc = "idle" /\ req'[r].now = 0
    BY <1>3, FinishFrame
  <2> QED
    BY <1>1, <2>1, ControlStep
       DEF TypeOK, StartSteps, ConcludeSteps, HoldsExp, HoldsLayer, locks
<1> QED
  BY <1>2, <1>3 DEF BeginTx2

\* A free experiment row is locked by the one request that asked for it.
LEMMA LockExperimentInv ==
    ASSUME IndInv, NEW r \in Reqs, NEW from, NEW to,
           <<from, to>> \in {<<"s_exp", "s_layer">>, <<"c_exp", "c_layer">>},
           LockExperiment(r, from, to)
    PROVE  IndInv'
<1> USE DEF IndInv
<1>1. /\ req[r].pc = from /\ Goto(r, to)
      /\ expLock[req[r].exp] = None
      /\ expLock' = [expLock EXCEPT ![req[r].exp] = r]
      /\ UNCHANGED <<state, config, allocs, audit, layerLock, notices, clock>>
  BY DEF LockExperiment, At
<1>2. /\ req' \in [Reqs -> Requests]
      /\ \A q \in Reqs : q # r => req'[q] = req[q]
      /\ req'[r].pc = to /\ req'[r].exp = req[r].exp /\ req'[r].now = req[r].now
  BY <1>1, GotoFrame DEF Steps, StartSteps, ConcludeSteps
<1>3. req[r].exp \in Exps /\ None \notin Reqs
  BY <1>1, ConstantsAssumption DEF RequestsOK, ConstantsAssumption
<1>4. /\ expLock' \in [Exps -> Reqs \cup {None}]
      /\ \A e \in Exps, q \in Reqs : q # r /\ expLock[e] = q => expLock'[e] = q
      /\ expLock'[req[r].exp] = r
  BY <1>1, <1>3 DEF TypeOK
<1> QED
  BY <1>1, <1>2, <1>4, ControlStep
     DEF TypeOK, RequestsOK, StartSteps, ConcludeSteps, HoldsExp, HoldsLayer

\* A free layer row is locked by the one request that asked for it.
LEMMA LockLayerInv ==
    ASSUME IndInv, NEW r \in Reqs, NEW from, NEW to,
           <<from, to>> \in {<<"s_layer", "allocate">>, <<"c_layer", "c_commit">>},
           LockLayer(r, from, to)
    PROVE  IndInv'
<1> USE DEF IndInv
<1> DEFINE l == config[req[r].exp].layer
<1>1. /\ req[r].pc = from /\ Goto(r, to)
      /\ layerLock[l] = None
      /\ layerLock' = [layerLock EXCEPT ![l] = r]
      /\ UNCHANGED <<state, config, allocs, audit, expLock, notices, clock>>
  BY DEF LockLayer, At
<1>2. /\ req' \in [Reqs -> Requests]
      /\ \A q \in Reqs : q # r => req'[q] = req[q]
      /\ req'[r].pc = to /\ req'[r].exp = req[r].exp /\ req'[r].now = req[r].now
  BY <1>1, GotoFrame DEF Steps, StartSteps, ConcludeSteps
<1>3. l \in Layers /\ None \notin Reqs /\ expLock[req[r].exp] = r
  BY <1>1, ConstantsAssumption DEF RequestsOK, RowsOK, LocksOK, HoldsExp, ConstantsAssumption
<1>4. /\ layerLock' \in [Layers -> Reqs \cup {None}]
      /\ \A k \in Layers, q \in Reqs : q # r /\ layerLock[k] = q => layerLock'[k] = q
      /\ layerLock'[l] = r
  BY <1>1, <1>3 DEF TypeOK
<1> QED
  BY <1>1, <1>2, <1>3, <1>4, ControlStep
     DEF TypeOK, RequestsOK, StartSteps, ConcludeSteps, HoldsExp, HoldsLayer

\* The gap search runs under the layer lock, on what the transaction can see:
\* by GapIsFree the staged range is clear of every row held at its NOW().
LEMMA AllocateInv ==
    ASSUME IndInv, NEW r \in Reqs, Allocate(r)
    PROVE  IndInv'
<1> USE DEF IndInv
<1> DEFINE e == req[r].exp
           occupied == GetActiveAllocations(config[e].layer, req[r].now)
<1>1. PICK g \in Ranges :
         /\ req[r].pc = "allocate"
         /\ FindContiguousGap(TotalBuckets, occupied, BucketsNeeded(e), g)
         /\ req' = [req EXCEPT ![r].pc = "s_commit", ![r].gap = g]
         /\ UNCHANGED <<state, config, allocs, audit, locks, notices, clock>>
  BY DEF Allocate, At
<1>2. /\ req' \in [Reqs -> Requests]
      /\ \A q \in Reqs : q # r => req'[q] = req[q]
      /\ req'[r].pc = "s_commit" /\ req'[r].exp = e /\ req'[r].now = req[r].now
      /\ req'[r].gap = g
  BY <1>1 DEF TypeOK, Requests, Steps, StartSteps
<1>3. e \in Exps /\ BucketsNeeded(e) \in Nat /\ TotalBuckets \in Nat
  BY <1>1, BucketsNeededInLayer, ConstantsAssumption DEF RequestsOK, ConstantsAssumption
<1>4. \A a \in occupied : a.start \in Nat /\ a.end \in Nat /\ a.start <= a.end
  <2> SUFFICES ASSUME NEW a \in occupied
               PROVE  a.start \in Nat /\ a.end \in Nat /\ a.start <= a.end
    OBVIOUS
  <2>1. a \in allocs /\ a \in Rows
    BY DEF GetActiveAllocations, TypeOK
  <2>2. a.exp \in Exps /\ a.start \in Nat /\ a.end \in Nat
    BY <2>1 DEF Rows, Buckets
  <2>3. a.end - a.start + 1 = BucketsNeeded(a.exp) /\ BucketsNeeded(a.exp) \in 1 .. TotalBuckets
    BY <2>1, <2>2, BucketsNeededInLayer DEF RowsOK
  <2> QED
    BY <2>2, <2>3, <1>3
<1>5. g.start \in Nat /\ g.end \in Nat
  BY DEF Ranges, Buckets
<1>6. /\ g.end - g.start + 1 = BucketsNeeded(e)
      /\ \A a \in occupied : Disjoint(a, g)
  <2> HIDE DEF e, occupied
  <2> QED
    BY <1>1, <1>3, <1>4, <1>5, GapIsFree
<1>7. expLock[e] = r /\ layerLock[config[e].layer] = r
  BY <1>1 DEF LocksOK, HoldsExp, HoldsLayer
<1> QED
  BY <1>1, <1>2, <1>6, <1>7, ControlStep
     DEF TypeOK, RequestsOK, StartSteps, ConcludeSteps, HoldsExp, HoldsLayer, locks

\* Rolling back transaction 2 drops the staged range with the locks.
LEMMA AbandonStartInv ==
    ASSUME IndInv, NEW r \in Reqs, AbandonStart(r)
    PROVE  IndInv'
<1> USE DEF IndInv
<1>1. /\ req[r].pc \in {"s_exp", "s_layer", "allocate", "s_commit"}
      /\ Goto(r, "rollback") /\ ReleaseLocks(r)
      /\ UNCHANGED <<state, config, allocs, audit, notices, clock>>
  BY DEF AbandonStart, At
<1>2. /\ req' \in [Reqs -> Requests]
      /\ \A q \in Reqs : q # r => req'[q] = req[q]
      /\ req'[r].pc = "rollback" /\ req'[r].exp = req[r].exp /\ req'[r].now = req[r].now
  BY <1>1, GotoFrame DEF Steps, StartSteps
<1> QED
  BY <1>1, <1>2, ReleaseFrame, ControlStep
     DEF TypeOK, RequestsOK, StartSteps, ConcludeSteps, HoldsExp, HoldsLayer

\* A handler that returns from transaction 2 with an error changes no row.
LEMMA GiveUpInv ==
    ASSUME IndInv, NEW r \in Reqs, CommitStartFails(r) \/ ConcludeFails(r)
    PROVE  IndInv'
<1> USE DEF IndInv
<1>1. /\ Finish(r) /\ ReleaseLocks(r)
      /\ UNCHANGED <<state, config, allocs, audit, notices, clock>>
  BY DEF CommitStartFails, ConcludeFails
<1>2. /\ req' \in [Reqs -> Requests]
      /\ \A q \in Reqs : q # r => req'[q] = req[q]
      /\ req'[r].pc = "idle" /\ req'[r].now = 0
  BY <1>1, FinishFrame
<1> QED
  BY <1>1, <1>2, ReleaseFrame, ControlStep
     DEF TypeOK, StartSteps, ConcludeSteps, HoldsExp, HoldsLayer

\* Publish touches only the notification queue and ends the request.
LEMMA PublishInv ==
    ASSUME IndInv, NEW r \in Reqs, Publish(r)
    PROVE  IndInv'
<1> USE DEF IndInv
<1>1. /\ Finish(r) /\ UNCHANGED <<state, config, allocs, audit, locks, clock>>
      /\ req[r].pc \in PublishSteps
      /\ notices' = notices \/ notices' = notices \cup {<<req[r].exp, req[r].pc>>}
  BY DEF Publish
<1>2. req[r].exp \in Exps
  BY <1>1 DEF RequestsOK, PublishSteps
<1>3. notices' \subseteq Exps \X PublishSteps
  BY <1>1, <1>2 DEF TypeOK
<1>4. /\ req' \in [Reqs -> Requests]
      /\ \A q \in Reqs : q # r => req'[q] = req[q]
      /\ req'[r].pc = "idle" /\ req'[r].now = 0
  BY <1>1, FinishFrame
<1> QED
  BY <1>1, <1>3, <1>4, ControlStep
     DEF TypeOK, StartSteps, ConcludeSteps, HoldsExp, HoldsLayer, locks

\* A client that goes away changes no row and no lock.
LEMMA CancelInv ==
    ASSUME IndInv, NEW r \in Reqs, Cancel(r)
    PROVE  IndInv'
<1> USE DEF IndInv
<1>1. /\ req[r].pc # "idle" /\ req' = [req EXCEPT ![r].cancelled = TRUE]
      /\ UNCHANGED <<state, config, allocs, audit, locks, notices, clock>>
  BY DEF Cancel, At
<1>2. /\ req' \in [Reqs -> Requests]
      /\ \A q \in Reqs : q # r => req'[q] = req[q]
      /\ req'[r].pc = req[r].pc /\ req'[r].exp = req[r].exp
      /\ req'[r].now = req[r].now /\ req'[r].gap = req[r].gap
  BY <1>1 DEF TypeOK, Requests
<1> QED
  BY <1>1, <1>2, ControlStep DEF TypeOK, RequestsOK, LocksOK, StagedOK, locks

\* A crash ends every request and frees every lock; committed rows stay.
LEMMA CrashInv ==
    ASSUME IndInv, Crash
    PROVE  IndInv'
<1> USE DEF IndInv
<1>1. Idle \in Requests /\ Idle.pc = "idle" /\ Idle.now = 0
  BY ConstantsAssumption DEF Idle, Requests, Steps, Ranges, Buckets, ConstantsAssumption
<1>2. /\ \A r \in Reqs : req'[r].pc = "idle" /\ req'[r].now = 0
      /\ UNCHANGED <<state, config, allocs, audit, notices, clock>>
  BY <1>1 DEF Crash
<1>3. TypeOK'
  BY <1>1 DEF Crash, TypeOK
<1>4. RequestsOK' /\ SingleDriver' /\ LocksOK' /\ StagedOK'
  BY <1>2 DEF RequestsOK, SingleDriver, LocksOK, StagedOK, TypeOK,
              StartSteps, ConcludeSteps, HoldsExp, HoldsLayer
<1> QED
  BY <1>2, <1>3, <1>4, RowsUnchanged

\* The first transactions of StartExperiment and concludeByID, and the only
\* ones of PauseExperiment, ResumeExperiment and ArchiveExperiment.
FirstTransactions ==
    {<<"DRAFT", "STARTING", "validate">>, <<"RUNNING", "CONCLUDING", "c_begin">>,
     <<"RUNNING", "RUNNING", "upsert">>, <<"CONCLUDED", "ARCHIVED", "delete">>}

\* First transactions of the handlers: one guarded state change, one new driver.
LEMMA AcceptedInv ==
    ASSUME IndInv, NEW r \in Reqs, NEW e \in Exps, NEW from, NEW to, NEW step,
           <<from, to, step>> \in FirstTransactions,
           Accepted(r, e, step), TransitionState(e, from, to),
           UNCHANGED <<config, allocs, locks, notices, clock>>
    PROVE  IndInv'
<1> USE DEF IndInv
<1>1. /\ state' \in [Exps -> States]
      /\ audit' \in [Exps -> [prev : States, new : States]]
      /\ state[e] = from /\ state'[e] = to
      /\ \A f \in Exps : f # e => state'[f] = state[f]
  BY TransitionFrame DEF FirstTransactions, States
<1>2. req[r].pc = "idle" /\ step \in Steps
  BY DEF Accepted, At, FirstTransactions, Steps, StartSteps, ConcludeSteps, PublishSteps
<1>3. /\ req' \in [Reqs -> Requests]
      /\ \A q \in Reqs : q # r => req'[q] = req[q]
      /\ \/ req'[r] = req[r]
         \/ req'[r].pc = step /\ req'[r].exp = e /\ req'[r].now = 0
  <2>1. Idle \in Requests
    BY ConstantsAssumption DEF Idle, Requests, Steps, Ranges, Buckets, ConstantsAssumption
  <2>2. CASE req' = [req EXCEPT ![r] = [Idle EXCEPT !.pc = step, !.exp = e]]
    <3>1. [Idle EXCEPT !.pc = step, !.exp = e] \in Requests
      BY <1>2, <2>1 DEF Requests
    <3>2. /\ [Idle EXCEPT !.pc = step, !.exp = e].pc = step
          /\ [Idle EXCEPT !.pc = step, !.exp = e].exp = e
          /\ [Idle EXCEPT !.pc = step, !.exp = e].now = 0
      BY DEF Idle
    <3> QED
      BY <2>2, <3>1, <3>2 DEF TypeOK
  <2>3. CASE UNCHANGED req
    BY <2>3 DEF TypeOK
  <2> QED
    BY <2>2, <2>3 DEF Accepted
<1>4. TypeOK'
  BY <1>1, <1>3 DEF TypeOK, locks
<1>5. RequestsOK'
  BY <1>1, <1>2, <1>3 DEF RequestsOK, TypeOK, FirstTransactions
<1>6. \A q \in Reqs : req[q].pc \in StartSteps \cup ConcludeSteps => req[q].exp # e
  BY <1>1 DEF SingleDriver, FirstTransactions
<1>7. SingleDriver'
  BY <1>1, <1>2, <1>3, <1>6
     DEF SingleDriver, RequestsOK, FirstTransactions, StartSteps, ConcludeSteps
<1>8. LocksOK'
  BY <1>2, <1>3 DEF LocksOK, FirstTransactions, HoldsExp, HoldsLayer, locks
<1>9. RowsOK'
  BY <1>1 DEF RowsOK, BucketsNeeded, FirstTransactions, TypeOK, Rows
<1>10. StagedOK'
  BY <1>2, <1>3 DEF StagedOK, GetActiveAllocations, BucketsNeeded, FirstTransactions
<1>11. ReuseAfterCooldown'
  BY DEF ReuseAfterCooldown
<1> QED
  BY <1>4, <1>5, <1>7, <1>8, <1>9, <1>10, <1>11

\* rollbackToDraft ends the only driver of a STARTING experiment.
LEMMA RollbackInv ==
    ASSUME IndInv, NEW r \in Reqs, rollbackToDraft(r)
    PROVE  IndInv'
<1> USE DEF IndInv
<1> DEFINE e == req[r].exp
<1>1. /\ req[r].pc = "rollback" /\ Finish(r)
      /\ UNCHANGED <<config, allocs, locks, notices, clock>>
      /\ TransitionState(e, "STARTING", "DRAFT") \/ UNCHANGED <<state, audit>>
  BY DEF rollbackToDraft, At
<1>2. /\ req' \in [Reqs -> Requests]
      /\ \A q \in Reqs : q # r => req'[q] = req[q]
      /\ req'[r].pc = "idle" /\ req'[r].now = 0
  BY <1>1, FinishFrame
<1>3. CASE UNCHANGED <<state, audit>>
  BY <1>1, <1>2, <1>3, ControlStep
     DEF TypeOK, StartSteps, ConcludeSteps, HoldsExp, HoldsLayer, locks
<1>4. CASE TransitionState(e, "STARTING", "DRAFT")
  <2>1. e \in Exps
    BY <1>1 DEF RequestsOK
  <2>2. /\ state' \in [Exps -> States]
        /\ audit' \in [Exps -> [prev : States, new : States]]
        /\ state[e] = "STARTING" /\ state'[e] = "DRAFT"
        /\ \A f \in Exps : f # e => state'[f] = state[f]
    BY <1>4, <2>1, TransitionFrame DEF States
  <2>3. TypeOK'
    BY <1>1, <1>2, <2>2 DEF TypeOK, locks
  <2>4. RequestsOK'
    BY <1>1, <1>2, <2>2 DEF RequestsOK, TypeOK
  <2>5. \A q \in Reqs : q # r /\ req[q].pc \in StartSteps \cup ConcludeSteps => req[q].exp # e
    BY <1>1 DEF SingleDriver, StartSteps
  <2>6. SingleDriver'
    BY <1>2, <2>2, <2>5 DEF SingleDriver, RequestsOK, StartSteps, ConcludeSteps
  <2>7. LocksOK'
    BY <1>1, <1>2 DEF LocksOK, HoldsExp, HoldsLayer, locks
  <2>8. RowsOK'
    BY <1>1, <2>2 DEF RowsOK, BucketsNeeded, TypeOK, Rows
  <2>9. StagedOK'
    BY <1>1, <1>2 DEF StagedOK, GetActiveAllocations, BucketsNeeded
  <2>10. ReuseAfterCooldown'
    BY <1>1 DEF ReuseAfterCooldown
  <2> QED
    BY <2>3, <2>4, <2>6, <2>7, <2>8, <2>9, <2>10
<1> QED
  BY <1>1, <1>3, <1>4

\* CreateExperiment and UpdateExperiment write the configuration of an
\* experiment that has no allocation row and no request driving it.
LEMMA WriteConfigInv ==
    ASSUME IndInv, NEW e \in Exps, NEW l \in Layers, NEW p \in Percentages,
           CreateExperiment(e, l, p) \/ UpdateExperiment(e, l, p)
    PROVE  IndInv'
<1> USE DEF IndInv
<1>1. /\ config' = [config EXCEPT ![e] = [layer |-> l, pct |-> p]]
      /\ UNCHANGED <<allocs, locks, req, notices, clock>>
      /\ \E from \in {"ABSENT", "DRAFT"} : TransitionState(e, from, "DRAFT")
  BY DEF CreateExperiment, UpdateExperiment
<1>2. /\ state' \in [Exps -> States]
      /\ audit' \in [Exps -> [prev : States, new : States]]
      /\ state[e] \in {"ABSENT", "DRAFT"} /\ state'[e] = "DRAFT"
      /\ \A f \in Exps : f # e => state'[f] = state[f]
  BY <1>1, TransitionFrame DEF States
<1>3. p \in Int
  BY ConstantsAssumption DEF ConstantsAssumption
<1>4. /\ config' \in [Exps -> Configs]
      /\ config'[e].layer = l
      /\ \A f \in Exps : f # e => config'[f] = config[f]
  BY <1>1, <1>3 DEF TypeOK, Configs
<1>5. TypeOK'
  BY <1>1, <1>2, <1>4 DEF TypeOK, locks
<1>6. RequestsOK'
  BY <1>1, <1>2 DEF RequestsOK
<1>7. \A q \in Reqs : req[q].pc \in StartSteps \cup ConcludeSteps =>
         req[q].exp # e /\ req[q].exp \in Exps
  BY <1>2 DEF SingleDriver, RequestsOK, StartSteps, ConcludeSteps
<1>8. SingleDriver'
  BY <1>1, <1>2, <1>7 DEF SingleDriver
<1>9. LocksOK'
  BY <1>1, <1>4, <1>7 DEF LocksOK, HoldsExp, HoldsLayer, StartSteps, ConcludeSteps, locks
<1>10. \A a \in allocs : a.exp # e /\ a.exp \in Exps
  BY <1>2 DEF RowsOK, TypeOK, Rows
<1>11. RowsOK'
  BY <1>1, <1>2, <1>4, <1>10 DEF RowsOK, BucketsNeeded
<1>12. StagedOK'
  BY <1>1, <1>4, <1>7 DEF StagedOK, GetActiveAllocations, BucketsNeeded, StartSteps
<1>13. ReuseAfterCooldown'
  BY <1>1 DEF ReuseAfterCooldown
<1> QED
  BY <1>5, <1>6, <1>8, <1>9, <1>11, <1>12, <1>13

\* Time only moves forward, so what was free at NOW() stays free.
LEMMA TickInv ==
    ASSUME IndInv, Tick
    PROVE  IndInv'
<1> USE DEF IndInv
<1>1. clock' = clock + 1 /\ UNCHANGED <<state, config, allocs, audit, locks, req, notices>>
  BY DEF Tick
<1>2. TypeOK' /\ SingleDriver' /\ LocksOK' /\ ReuseAfterCooldown'
  BY <1>1 DEF TypeOK, SingleDriver, LocksOK, ReuseAfterCooldown, locks
<1>3. RequestsOK'
  BY <1>1 DEF RequestsOK, TypeOK, Requests
<1>4. RowsOK'
  BY <1>1 DEF RowsOK, BucketsNeeded, TypeOK, Rows
<1>5. StagedOK'
  BY <1>1 DEF StagedOK, GetActiveAllocations, BucketsNeeded
<1> QED
  BY <1>2, <1>3, <1>4, <1>5

\* After a commit the request goes on, or ends because the answer was lost;
\* either way it is past its locks.
LEMMA CommittedFrame ==
    ASSUME TypeOK, NEW r \in Reqs, NEW step \in PublishSteps, Committed(r, step)
    PROVE  /\ req' \in [Reqs -> Requests]
           /\ \A q \in Reqs : q # r => req'[q] = req[q]
           /\ \/ req'[r].pc = "idle" /\ req'[r].now = 0
              \/ req'[r].pc = step /\ req'[r].exp = req[r].exp /\ req'[r].now = req[r].now
BY GotoFrame, FinishFrame DEF Committed, Steps

\* While a request holds a layer's row, no other request can commit rows of
\* that layer: this is what keeps staged ranges clear.
LEMMA OneCommitter ==
    ASSUME IndInv, NEW r \in Reqs, NEW q \in Reqs, q # r,
           req[r].pc \in HoldsLayer, req[q].pc \in HoldsLayer
    PROVE  /\ config[req[r].exp].layer # config[req[q].exp].layer
           /\ req[r].exp # req[q].exp
BY DEF IndInv, LocksOK

\* Committing the start adds the staged range as the experiment's only row.
LEMMA CommitStartInv ==
    ASSUME IndInv, NEW r \in Reqs, CommitStart(r)
    PROVE  IndInv'
<1> USE DEF IndInv
<1> DEFINE e == req[r].exp
           new == [exp |-> e, layer |-> config[e].layer,
                   start |-> req[r].gap.start, end |-> req[r].gap.end,
                   activated |-> req[r].now, released |-> FALSE, reusable |-> 0]
<1>1. /\ req[r].pc = "s_commit" /\ TransitionState(e, "STARTING", "RUNNING")
      /\ allocs' = allocs \cup {new}
      /\ ReleaseLocks(r) /\ Committed(r, "upsert")
      /\ UNCHANGED <<config, notices, clock>>
  BY DEF CommitStart, At
<1>2. e \in Exps /\ config[e].layer \in Layers /\ req[r].now \in Nat /\ req[r].now <= clock
  BY <1>1 DEF RequestsOK, RowsOK, TypeOK, Requests
<1>3. /\ state' \in [Exps -> States]
      /\ audit' \in [Exps -> [prev : States, new : States]]
      /\ state[e] = "STARTING" /\ state'[e] = "RUNNING"
      /\ \A f \in Exps : f # e => state'[f] = state[f]
  BY <1>1, <1>2, TransitionFrame DEF States
<1>4. /\ req' \in [Reqs -> Requests]
      /\ \A q \in Reqs : q # r => req'[q] = req[q]
      /\ \/ req'[r].pc = "idle" /\ req'[r].now = 0
         \/ req'[r].pc = "upsert" /\ req'[r].exp = e /\ req'[r].now = req[r].now
  BY <1>1, CommittedFrame DEF PublishSteps
<1>5. /\ new \in Rows /\ new.exp = e /\ new.layer = config[e].layer /\ ~new.released
      /\ new.start = req[r].gap.start /\ new.end = req[r].gap.end
      /\ new.activated = req[r].now
  BY <1>2 DEF Rows, TypeOK, Requests, Ranges
<1> HIDE DEF new
<1>6. TypeOK'
  BY <1>1, <1>3, <1>4, <1>5, ReleaseFrame DEF TypeOK
<1>7. RequestsOK'
  BY <1>1, <1>2, <1>3, <1>4 DEF RequestsOK, TypeOK
<1>8. \A q \in Reqs : q # r /\ req[q].pc \in StartSteps \cup ConcludeSteps => req[q].exp # e
  BY <1>1 DEF SingleDriver, StartSteps
<1>9. SingleDriver'
  BY <1>3, <1>4, <1>8 DEF SingleDriver, RequestsOK, StartSteps, ConcludeSteps
<1>10. \A q \in Reqs : req[q].pc \in HoldsExp =>
         req[q].exp \in Exps /\ config[req[q].exp].layer \in Layers
  BY DEF RequestsOK, RowsOK, HoldsExp
<1>11. LocksOK'
  BY <1>1, <1>4, <1>10, ReleaseFrame DEF LocksOK, HoldsExp, HoldsLayer
<1>12. \A a \in allocs : a.exp # e /\ a.exp \in Exps
  BY <1>3 DEF RowsOK, TypeOK, Rows
<1>13. new.end - new.start + 1 = BucketsNeeded(e)
  BY <1>1, <1>5 DEF StagedOK
<1>14. RowsOK'
  BY <1>1, <1>2, <1>3, <1>5, <1>12, <1>13 DEF RowsOK, BucketsNeeded
<1>15. StagedOK'
  <2> SUFFICES ASSUME NEW q \in Reqs, req'[q].pc = "s_commit"
               PROVE  /\ req'[q].gap.end - req'[q].gap.start + 1 = BucketsNeeded(req[q].exp)'
                      /\ \A a \in GetActiveAllocations(config[req[q].exp].layer, req[q].now)' :
                            Disjoint(a, req'[q].gap)
    BY <1>1, <1>4 DEF StagedOK
  <2>1. q # r /\ req'[q] = req[q] /\ req[q].pc = "s_commit"
    BY <1>4
  <2>2. config[req[q].exp].layer # new.layer
    BY <1>1, <1>5, <2>1, OneCommitter DEF HoldsLayer
  <2> QED
    BY <1>1, <1>5, <2>1, <2>2 DEF StagedOK, GetActiveAllocations, BucketsNeeded
<1>16. \A a \in allocs : a.layer = new.layer =>
          Disjoint(a, new) \/ (a.released /\ a.reusable <= new.activated)
  <2> SUFFICES ASSUME NEW a \in allocs, a.layer = new.layer,
                      ~(a.released /\ a.reusable <= new.activated)
               PROVE  Disjoint(a, new)
    OBVIOUS
  <2>1. a.reusable \in Nat /\ new.activated \in Nat
    BY <1>2, <1>5 DEF TypeOK, Rows
  <2>2. a \in GetActiveAllocations(config[e].layer, req[r].now)
    BY <1>5, <2>1 DEF GetActiveAllocations
  <2> QED
    BY <1>1, <1>5, <2>2 DEF StagedOK, Disjoint
<1>17. ReuseAfterCooldown'
  BY <1>1, <1>16 DEF ReuseAfterCooldown, Disjoint
<1> QED
  BY <1>6, <1>7, <1>9, <1>11, <1>14, <1>15, <1>17

\* Committing the conclusion releases exactly the experiment's row.
LEMMA CommitConcludeInv ==
    ASSUME IndInv, NEW r \in Reqs, CommitConclude(r)
    PROVE  IndInv'
<1> USE DEF IndInv
<1> DEFINE e == req[r].exp
           Freed(a) == IF a.exp = e /\ ~a.released
                       THEN [a EXCEPT !.released = TRUE, !.reusable = req[r].now + Cooldown]
                       ELSE a
<1>1. /\ req[r].pc = "c_commit" /\ TransitionState(e, "CONCLUDING", "CONCLUDED")
      /\ allocs' = {Freed(a) : a \in allocs}
      /\ ReleaseLocks(r) /\ Committed(r, "delete")
      /\ UNCHANGED <<config, notices, clock>>
  BY DEF CommitConclude, ReleaseAllocation, At
<1>2. e \in Exps /\ req[r].now \in Nat /\ req[r].now + Cooldown \in Nat
  <2>1. e \in Exps /\ req[r].now \in Nat
    BY <1>1 DEF RequestsOK, TypeOK, Requests
  <2>2. Cooldown \in Nat
    BY ConstantsAssumption DEF ConstantsAssumption
  <2> QED
    BY <2>1, <2>2
<1>3. /\ state' \in [Exps -> States]
      /\ audit' \in [Exps -> [prev : States, new : States]]
      /\ state[e] = "CONCLUDING" /\ state'[e] = "CONCLUDED"
      /\ \A f \in Exps : f # e => state'[f] = state[f]
  BY <1>1, <1>2, TransitionFrame DEF States
<1>4. /\ req' \in [Reqs -> Requests]
      /\ \A q \in Reqs : q # r => req'[q] = req[q]
      /\ \/ req'[r].pc = "idle" /\ req'[r].now = 0
         \/ req'[r].pc = "delete" /\ req'[r].exp = e /\ req'[r].now = req[r].now
  BY <1>1, CommittedFrame DEF PublishSteps
<1>5. \A a \in allocs :
         /\ Freed(a) \in Rows
         /\ Freed(a).exp = a.exp /\ Freed(a).layer = a.layer
         /\ Freed(a).start = a.start /\ Freed(a).end = a.end
         /\ Freed(a).activated = a.activated
         /\ a.exp = e => Freed(a).released
         /\ a.exp # e => Freed(a) = a
         /\ a.released => Freed(a) = a
  <2> SUFFICES ASSUME NEW a \in allocs
               PROVE  /\ Freed(a) \in Rows
                      /\ Freed(a).exp = a.exp /\ Freed(a).layer = a.layer
                      /\ Freed(a).start = a.start /\ Freed(a).end = a.end
                      /\ Freed(a).activated = a.activated
                      /\ a.exp = e => Freed(a).released
                      /\ a.exp # e => Freed(a) = a
                      /\ a.released => Freed(a) = a
    OBVIOUS
  <2>1. a \in Rows
    BY DEF TypeOK
  <2>2. CASE a.exp = e /\ ~a.released
    <3>1. Freed(a) = [a EXCEPT !.released = TRUE, !.reusable = req[r].now + Cooldown]
      BY <2>2
    <3> QED
      BY <1>2, <2>1, <2>2, <3>1 DEF Rows
  <2>3. CASE ~(a.exp = e /\ ~a.released)
    <3>1. Freed(a) = a
      BY <2>3
    <3> QED
      BY <2>1, <2>3, <3>1
  <2> QED
    BY <2>2, <2>3
<1> HIDE DEF Freed
<1>6. TypeOK'
  BY <1>1, <1>3, <1>4, <1>5, ReleaseFrame DEF TypeOK
<1>7. RequestsOK'
  BY <1>1, <1>2, <1>3, <1>4 DEF RequestsOK, TypeOK
<1>8. \A q \in Reqs : q # r /\ req[q].pc \in StartSteps \cup ConcludeSteps => req[q].exp # e
  BY <1>1 DEF SingleDriver, ConcludeSteps
<1>9. SingleDriver'
  BY <1>3, <1>4, <1>8 DEF SingleDriver, RequestsOK, StartSteps, ConcludeSteps
<1>10. \A q \in Reqs : req[q].pc \in HoldsExp =>
         req[q].exp \in Exps /\ config[req[q].exp].layer \in Layers
  BY DEF RequestsOK, RowsOK, HoldsExp
<1>11. LocksOK'
  BY <1>1, <1>4, <1>10, ReleaseFrame DEF LocksOK, HoldsExp, HoldsLayer
<1>12. \A a \in allocs : a.exp \in Exps
  BY DEF TypeOK, Rows
<1>13. RowsOK'
  <2>1. \A f \in Exps : state'[f] # "ABSENT" => config'[f].layer \in Layers
    BY <1>1, <1>3 DEF RowsOK
  <2>2. \A f \in Exps : state'[f] \in {"RUNNING", "CONCLUDING"} =>
           \E a \in allocs' : a.exp = f
    BY <1>1, <1>3, <1>5 DEF RowsOK
  <2>3. ASSUME NEW a \in allocs
        PROVE  /\ state'[a.exp] \in {"RUNNING", "CONCLUDING", "CONCLUDED", "ARCHIVED"}
               /\ Freed(a).released <=> state'[a.exp] \in {"CONCLUDED", "ARCHIVED"}
               /\ a.layer = config'[a.exp].layer
               /\ a.end - a.start + 1 = BucketsNeeded(a.exp)'
               /\ a.activated <= clock'
    BY <1>1, <1>3, <1>5, <1>12 DEF RowsOK, BucketsNeeded
  <2>4. \A a, b \in allocs : a.exp = b.exp => a = b
    BY DEF RowsOK
  <2> QED
    BY <1>1, <1>5, <2>1, <2>2, <2>3, <2>4 DEF RowsOK
<1>14. StagedOK'
  <2> SUFFICES ASSUME NEW q \in Reqs, req'[q].pc = "s_commit"
               PROVE  /\ req'[q].gap.end - req'[q].gap.start + 1 = BucketsNeeded(req[q].exp)'
                      /\ \A a \in GetActiveAllocations(config[req[q].exp].layer, req[q].now)' :
                            Disjoint(a, req'[q].gap)
    BY <1>1, <1>4 DEF StagedOK
  <2>1. q # r /\ req'[q] = req[q] /\ req[q].pc = "s_commit"
    BY <1>4
  <2>2. config[req[q].exp].layer # config[e].layer
    BY <1>1, <2>1, OneCommitter DEF HoldsLayer
  <2>3. \A a \in allocs : a.layer = config[req[q].exp].layer => Freed(a) = a
    BY <1>5, <2>2 DEF RowsOK
  <2> QED
    BY <1>1, <1>5, <2>1, <2>3 DEF StagedOK, GetActiveAllocations, BucketsNeeded
<1>15. ReuseAfterCooldown'
  BY <1>1, <1>5 DEF ReuseAfterCooldown, Disjoint
<1> QED
  BY <1>6, <1>7, <1>9, <1>11, <1>13, <1>14, <1>15

-----------------------------------------------------------------------------
(* The theorems                                                            *)

\* Every step of the handlers and of their environment keeps the invariant.
LEMMA NextInv == IndInv /\ [Next]_vars => IndInv'
<1> SUFFICES ASSUME IndInv, [Next]_vars PROVE IndInv'
  OBVIOUS
<1>1. CASE Call
  <2>1. PICK e \in Exps :
          \/ \E l \in Layers, p \in Percentages :
                CreateExperiment(e, l, p) \/ UpdateExperiment(e, l, p)
          \/ \E r \in Reqs : \/ StartTx1(r, e) \/ ConcludeTx1(r, e)
                             \/ PauseOrResumeExperiment(r, e) \/ ArchiveExperiment(r, e)
    BY <1>1 DEF Call
  <2>2. CASE \E l \in Layers, p \in Percentages :
                CreateExperiment(e, l, p) \/ UpdateExperiment(e, l, p)
    BY <2>2, WriteConfigInv
  <2>3. ASSUME NEW r \in Reqs,
               \/ StartTx1(r, e) \/ ConcludeTx1(r, e)
               \/ PauseOrResumeExperiment(r, e) \/ ArchiveExperiment(r, e)
        PROVE  IndInv'
    <3>1. \E from, to, step :
            /\ <<from, to, step>> \in FirstTransactions
            /\ Accepted(r, e, step) /\ TransitionState(e, from, to)
            /\ UNCHANGED <<config, allocs, locks, notices, clock>>
      BY <2>3 DEF StartTx1, ConcludeTx1, PauseOrResumeExperiment, ArchiveExperiment,
                  FirstTransactions
    <3> QED
      BY <3>1, AcceptedInv
  <2> QED
    BY <2>1, <2>2, <2>3
<1>2. ASSUME NEW r \in Reqs, Step(r) PROVE IndInv'
  <2>1. CASE \/ ValidateForStart(r) \/ Allocate(r) \/ AbandonStart(r) \/ CommitStart(r)
             \/ CommitStartFails(r) \/ rollbackToDraft(r) \/ CommitConclude(r)
             \/ ConcludeFails(r) \/ Publish(r)
    BY <2>1, ValidateInv, AllocateInv, AbandonStartInv, CommitStartInv, GiveUpInv,
       RollbackInv, CommitConcludeInv, PublishInv
  <2>2. CASE BeginTx2(r, "s_begin", "s_exp") \/ BeginTx2(r, "c_begin", "c_exp")
    BY <2>2, BeginInv
  <2>3. CASE \/ LockExperiment(r, "s_exp", "s_layer")
             \/ LockExperiment(r, "c_exp", "c_layer")
    BY <2>3, LockExperimentInv
  <2>4. CASE \/ LockLayer(r, "s_layer", "allocate")
             \/ LockLayer(r, "c_layer", "c_commit")
    BY <2>4, LockLayerInv
  <2> QED
    BY <1>2, <2>1, <2>2, <2>3, <2>4 DEF Step
<1>3. CASE UNCHANGED vars
  BY <1>3 DEF vars, IndInv, TypeOK, RequestsOK, SingleDriver, LocksOK, RowsOK, StagedOK,
              ReuseAfterCooldown, GetActiveAllocations, BucketsNeeded
<1> QED
  BY <1>1, <1>2, <1>3, CancelInv, CrashInv, TickInv DEF Next, Quiescent

\* The inductive invariant holds in every reachable state of the handlers,
\* whatever fails: locks match control, rows match states, staged ranges are
\* clear.
THEOREM LifecycleInvariant == Spec => []IndInv
<1>1. Init => IndInv
  BY InitInv
<1>2. IndInv /\ [Next]_vars => IndInv'
  BY NextInv
<1> QED
  BY <1>1, <1>2, PTL DEF Spec

\* The database columns and the handlers' variables keep their types.
THEOREM TypeCorrect == Spec => []TypeOK
<1>1. IndInv => TypeOK
  BY DEF IndInv
<1> QED
  BY <1>1, LifecycleInvariant, PTL

\* Over the whole history a bucket is reused only after the cooldown of its
\* previous owner, however the two transactions of the handlers interleave.
THEOREM CooldownIsRespected == Spec => []ReuseAfterCooldown
<1>1. IndInv => ReuseAfterCooldown
  BY DEF IndInv
<1> QED
  BY <1>1, LifecycleInvariant, PTL

\* Two allocations that are active or cooling down never share a bucket of a
\* layer (ADR-009).
THEOREM AllocationsDoNotOverlap == Spec => []NoOverlap
<1>1. IndInv => NoOverlap
  <2> SUFFICES ASSUME IndInv, NEW a \in allocs, NEW b \in allocs,
                      a # b, a.layer = b.layer, Holding(a, clock), Holding(b, clock)
               PROVE  Disjoint(a, b)
    BY DEF NoOverlap
  <2>1. /\ a.reusable \in Nat /\ b.reusable \in Nat /\ clock \in Nat
        /\ a.activated \in Nat /\ b.activated \in Nat
        /\ a.activated <= clock /\ b.activated <= clock
    BY DEF IndInv, TypeOK, Rows, RowsOK
  <2>2. \/ Disjoint(a, b)
        \/ a.released /\ a.reusable <= b.activated
        \/ b.released /\ b.reusable <= a.activated
    BY DEF IndInv, ReuseAfterCooldown
  <2> QED
    BY <2>1, <2>2 DEF Holding
<1> QED
  BY <1>1, LifecycleInvariant, PTL

\* Exactly the live experiments hold buckets, as many as they asked for.
THEOREM LiveHoldBuckets == Spec => []LiveExperimentsHoldBuckets
<1>1. IndInv => LiveExperimentsHoldBuckets
  BY DEF IndInv, RowsOK, LiveExperimentsHoldBuckets, TypeOK, Rows
<1> QED
  BY <1>1, LifecycleInvariant, PTL

\* No two requests ever drive the same experiment through a transitional state,
\* and the one that does always finds the state it left.
THEOREM OneDriver == Spec => []SingleDriver
<1>1. IndInv => SingleDriver
  BY DEF IndInv
<1> QED
  BY <1>1, LifecycleInvariant, PTL
\* What a request may be refused for, once it holds both locks: no block of the
\* size it asks for is clear of the rows it read; or two of these rows overlap,
\* because NOW() is the time its transaction began: while it waited for its
\* locks the cooldown of one row ran out and the other took over its buckets.
RefusalsAreJustified ==
    \A r \in Reqs :
       LET occupied == GetActiveAllocations(config[req[r].exp].layer, req[r].now)
           needed   == BucketsNeeded(req[r].exp)
       IN  (At(r, "allocate") /\ NoContiguousGap(TotalBuckets, occupied, needed)) =>
              \/ \A s \in 0 .. TotalBuckets - needed : \E a \in occupied :
                    ~Disjoint(a, [start |-> s, end |-> s + needed - 1])
              \/ \E a, b \in occupied :
                    /\ a.released /\ req[r].now < a.reusable
                    /\ a.reusable <= b.activated /\ ~Disjoint(a, b)

\* StartExperiment gives up on an experiment only for lack of room or for a
\* cooldown that ran out while it waited: FindContiguousGap misses no block.
THEOREM RefusalsJustified == Spec => []RefusalsAreJustified
<1>1. IndInv => RefusalsAreJustified
  <2> SUFFICES ASSUME IndInv, NEW r \in Reqs, NEW occupied, NEW needed,
                      occupied = GetActiveAllocations(config[req[r].exp].layer, req[r].now),
                      needed = BucketsNeeded(req[r].exp), At(r, "allocate"),
                      NoContiguousGap(TotalBuckets, occupied, needed),
                      NEW s \in 0 .. TotalBuckets - needed,
                      \A a \in occupied : Disjoint(a, [start |-> s, end |-> s + needed - 1])
               PROVE  \E a, b \in occupied :
                         /\ a.released /\ req[r].now < a.reusable
                         /\ a.reusable <= b.activated /\ ~Disjoint(a, b)
    BY Zenon DEF RefusalsAreJustified
  <2>1. req[r].exp \in Exps /\ TotalBuckets \in Nat \ {0}
    BY ConstantsAssumption DEF At, IndInv, RequestsOK, ConstantsAssumption
  <2>2. needed \in 1 .. TotalBuckets
    BY <2>1, BucketsNeededInLayer DEF IndInv
  <2>3. /\ occupied \subseteq allocs /\ allocs \subseteq Rows
        /\ \A a \in occupied : ~a.released \/ a.reusable > req[r].now
        /\ \A a, b \in occupied : a.layer = b.layer
    BY DEF GetActiveAllocations, IndInv, TypeOK
  <2>4. \A a \in occupied : a.start \in Nat /\ a.end \in Nat
    BY <2>3, <2>1 DEF Rows, Buckets
  <2>5. \A a \in occupied : a.start <= a.end
    <3>1. ASSUME NEW a \in occupied PROVE a.start <= a.end
      <4>1. a.end - a.start + 1 = BucketsNeeded(a.exp) /\ a.exp \in Exps
        BY <2>3 DEF IndInv, RowsOK, Rows
      <4>2. BucketsNeeded(a.exp) \in 1 .. TotalBuckets
        BY <4>1, BucketsNeededInLayer DEF IndInv
      <4>3. ASSUME NEW x \in Nat, NEW y \in Nat, NEW n \in 1 .. TotalBuckets, y - x + 1 = n
            PROVE  x <= y
        BY <4>3, <2>1
      <4> QED
        BY <4>1, <4>2, <4>3, <2>4
    <3> QED
      BY <3>1
  <2>6. OverlappingRanges(occupied)
    <3>1. s \in Nat /\ s + needed <= TotalBuckets /\ needed \in Nat \ {0}
      BY <2>1, <2>2
    <3>2. ASSUME NEW a \in occupied PROVE a.end < s \/ s + needed <= a.start
      <4>1. a.end < s \/ s + needed - 1 < a.start
        BY DEF Disjoint
      <4> QED
        BY <4>1, <3>1, <2>4
    <3>3. PICK g \in GapStarts(occupied) : Fits(TotalBuckets, occupied, needed, g)
      BY <3>1, <3>2, <2>1, <2>4, <2>5, SearchFindsBlocks
    <3> QED
      BY <3>1, <3>3, <2>1, <2>2 DEF NoContiguousGap
  <2>7. PICK a \in occupied, b \in occupied : a # b /\ ~Disjoint(a, b)
    BY <2>6 DEF OverlappingRanges
  <2>8. ~Disjoint(b, a)
    BY <2>7 DEF Disjoint
  <2>9. \/ a.released /\ a.reusable <= b.activated
        \/ b.released /\ b.reusable <= a.activated
    BY <2>3, <2>7 DEF IndInv, ReuseAfterCooldown
  <2>10. a.reusable \in Nat /\ b.reusable \in Nat /\ req[r].now \in Nat
    BY <2>3 DEF IndInv, TypeOK, Rows, Requests
  <2> QED
    BY <2>3, <2>7, <2>8, <2>9, <2>10
<1> QED
  BY <1>1, LifecycleInvariant, PTL

-----------------------------------------------------------------------------
(* The handlers implement ExperimentContract                               *)

\* BucketOwner says of every bucket whose row occupies it.
Owned ==
    /\ BucketOwner \in [Layers -> [Buckets -> Exps \cup {None}]]
    /\ \A l \in Layers, b \in Buckets, a \in allocs :
         Occupies(a, l, b) => BucketOwner[l][b] = a.exp
    /\ \A l \in Layers, b \in Buckets :
         (\A a \in allocs : ~Occupies(a, l, b)) => BucketOwner[l][b] = None

\* No two rows occupy the same bucket, so the CHOOSE of BucketOwner has no choice.
LEMMA OwnerIsUnique == TypeOK /\ NoOverlap => Owned
<1> SUFFICES ASSUME TypeOK, NoOverlap PROVE Owned
  OBVIOUS
<1>1. ASSUME NEW l \in Layers, NEW b \in Buckets,
             NEW a \in allocs, NEW c \in allocs, Occupies(a, l, b), Occupies(c, l, b)
      PROVE  a = c
  <2>1. /\ a.layer = c.layer /\ Holding(a, clock) /\ Holding(c, clock)
        /\ b \in a.start .. a.end /\ b \in c.start .. c.end
    BY <1>1 DEF Occupies
  <2>2. a \in Rows /\ c \in Rows
    BY DEF TypeOK
  <2>3. a.start \in Int /\ a.end \in Int /\ c.start \in Int /\ c.end \in Int /\ b \in Int
    BY <2>2, ConstantsAssumption DEF Rows, Buckets, ConstantsAssumption
  <2>4. ~Disjoint(a, c)
    BY <2>1, <2>3 DEF Disjoint
  <2> QED
    BY <2>1, <2>4 DEF NoOverlap
<1>2. ASSUME NEW l \in Layers, NEW b \in Buckets, NEW a \in allocs, Occupies(a, l, b)
      PROVE  BucketOwner[l][b] = a.exp
  <2>1. PICK c : c = (CHOOSE x \in allocs : Occupies(x, l, b))
    OBVIOUS
  <2>2. c \in allocs /\ Occupies(c, l, b)
    BY <1>2, <2>1
  <2>3. BucketOwner[l][b] = c.exp
    BY <1>2, <2>1 DEF BucketOwner
  <2> QED
    BY <1>1, <1>2, <2>2, <2>3
<1>3. ASSUME NEW l \in Layers, NEW b \in Buckets, \A a \in allocs : ~Occupies(a, l, b)
      PROVE  BucketOwner[l][b] = None
  BY <1>3 DEF BucketOwner
<1>4. \A a \in allocs : a.exp \in Exps
  BY DEF TypeOK, Rows
<1>5. \A l \in Layers, b \in Buckets : BucketOwner[l][b] \in Exps \cup {None}
  BY <1>2, <1>3, <1>4
<1>6. BucketOwner \in [Layers -> [Buckets -> Exps \cup {None}]]
  BY <1>5 DEF BucketOwner
<1> QED
  BY <1>2, <1>3, <1>6 DEF Owned

\* While rows and clock stay, the owners stay.
LEMMA OwnersStay ==
    ASSUME UNCHANGED <<allocs, clock>>
    PROVE  BucketOwner' = BucketOwner
BY DEF BucketOwner, Occupies, Holding

\* A change of state that leaves rows and clock alone is a transition of the
\* state machine, or none at all.
LEMMA TransitionStep ==
    ASSUME TypeOK, NEW e \in Exps, NEW from \in States, NEW to \in States,
           TransitionState(e, from, to), UNCHANGED <<allocs, clock>>,
           from = to \/ <<from, to>> \in Contract!validTransitions
    PROVE  [Contract!ContractNext]_(Contract!contractVars)
<1>1. BucketOwner' = BucketOwner
  BY OwnersStay
<1>2. state[e] = from /\ state' = [state EXCEPT ![e] = to]
  BY DEF TransitionState
<1>3. CASE from = to
  <2>1. state' = state
    BY <1>2, <1>3 DEF TypeOK
  <2> QED
    BY <1>1, <2>1 DEF Contract!contractVars
<1>4. CASE <<from, to>> \in Contract!validTransitions
  <2>1. Contract!Transition(e, to)
    BY <1>1, <1>2, <1>4 DEF Contract!Transition
  <2>2. to \in {"DRAFT", "STARTING", "CONCLUDING", "CONCLUDED", "ARCHIVED"}
    BY <1>4 DEF Contract!validTransitions
  <2> QED
    BY <2>1, <2>2 DEF Contract!ContractNext
<1> QED
  BY <1>3, <1>4

\* A step that leaves states, rows and clock alone is none of the contract.
LEMMA SilentStep ==
    ASSUME UNCHANGED <<state, allocs, clock>>
    PROVE  [Contract!ContractNext]_(Contract!contractVars)
BY OwnersStay DEF Contract!contractVars

\* The clock: the rows whose cooldown runs out belong to finished experiments.
LEMMA TickStep ==
    ASSUME IndInv, Owned, Owned', Tick
    PROVE  Contract!ContractNext
<1> DEFINE done == {e \in Exps : \E a \in allocs :
                      a.exp = e /\ Holding(a, clock) /\ ~Holding(a, clock')}
<1>1. clock' = clock + 1 /\ clock \in Nat /\ allocs' = allocs /\ state' = state
  BY DEF Tick, IndInv, TypeOK
<1>2. \A a \in allocs : a.reusable \in Nat /\ a.released \in BOOLEAN /\ a.exp \in Exps
  BY DEF IndInv, TypeOK, Rows
<1>3. \A a \in allocs : Holding(a, clock') => Holding(a, clock)
  BY <1>1, <1>2 DEF Holding
<1>4. ASSUME NEW a \in allocs, Holding(a, clock), ~Holding(a, clock')
      PROVE  state[a.exp] \in {"CONCLUDED", "ARCHIVED"}
  BY <1>4 DEF Holding, IndInv, RowsOK
<1>5. done \in SUBSET {e \in Exps : state[e] \in {"CONCLUDED", "ARCHIVED"}}
  BY <1>4
<1>6. ASSUME NEW l \in Layers, NEW b \in Buckets
      PROVE  BucketOwner'[l][b] = IF BucketOwner[l][b] \in done THEN None
                                                               ELSE BucketOwner[l][b]
  <2>1. CASE \E a \in allocs : Occupies(a, l, b)
    <3>1. PICK a \in allocs : Occupies(a, l, b)
      BY <2>1
    <3>2. BucketOwner[l][b] = a.exp
      BY <3>1 DEF Owned
    <3>3. a.layer = l /\ Holding(a, clock) /\ b \in a.start .. a.end
      BY <3>1 DEF Occupies
    <3>4. CASE Holding(a, clock')
      <4>1. Occupies(a, l, b)'
        BY <3>3, <3>4 DEF Occupies, Holding
      <4>2. BucketOwner'[l][b] = a.exp
        BY <4>1, <1>1 DEF Owned
      <4>3. \A c \in allocs : c.exp = a.exp => c = a
        BY DEF IndInv, RowsOK
      <4>4. a.exp \notin done
        BY <4>3, <3>4
      <4> QED
        BY <3>2, <4>2, <4>4
    <3>5. CASE ~Holding(a, clock')
      <4>1. a.exp \in done
        BY <3>3, <3>5, <1>2
      <4>2. ASSUME NEW c \in allocs, Occupies(c, l, b)' PROVE FALSE
        <5>1. Holding(c, clock') /\ c.layer = l /\ b \in c.start .. c.end
          BY <4>2 DEF Occupies, Holding
        <5>2. Occupies(c, l, b)
          BY <5>1, <1>3 DEF Occupies
        <5>3. c.exp = a.exp
          BY <5>2, <3>2 DEF Owned
        <5>4. c = a
          BY <5>3 DEF IndInv, RowsOK
        <5> QED
          BY <5>1, <5>4, <3>5
      <4>3. BucketOwner'[l][b] = None
        BY <4>2, <1>1 DEF Owned
      <4> QED
        BY <3>2, <4>1, <4>3
    <3> QED
      BY <3>4, <3>5
  <2>2. CASE \A a \in allocs : ~Occupies(a, l, b)
    <3>1. BucketOwner[l][b] = None
      BY <2>2 DEF Owned
    <3>2. ASSUME NEW c \in allocs, Occupies(c, l, b)' PROVE FALSE
      <4>1. Holding(c, clock') /\ c.layer = l /\ b \in c.start .. c.end
        BY <3>2 DEF Occupies, Holding
      <4> QED
        BY <4>1, <1>3, <2>2 DEF Occupies
    <3>3. BucketOwner'[l][b] = None
      BY <3>2, <1>1 DEF Owned
    <3> QED
      BY <3>1, <3>3
  <2> QED
    BY <2>1, <2>2
<1>7. BucketOwner' = [l \in Layers |-> [b \in Contract!LayerBuckets |->
          IF BucketOwner[l][b] \in done THEN None ELSE BucketOwner[l][b]]]
  <2>1. BucketOwner' \in [Layers -> [Buckets -> Exps \cup {None}]]
    BY DEF Owned
  <2>2. Contract!LayerBuckets = Buckets
    BY DEF Contract!LayerBuckets, Buckets
  <2> HIDE DEF done
  <2> QED
    BY <1>6, <2>1, <2>2
<1>8. Contract!Reclaim
  <2> HIDE DEF done
  <2> QED
    BY <1>1, <1>5, <1>7 DEF Contract!Reclaim
<1> QED
  BY <1>8 DEF Contract!ContractNext

\* The commit of a start gives the experiment buckets that nobody holds: the
\* staged range is clear of the rows held when the transaction began, and
\* those include the rows held now.
LEMMA CommitStartStep ==
    ASSUME IndInv, Owned, Owned', NEW r \in Reqs, CommitStart(r)
    PROVE  Contract!ContractNext
<1> DEFINE e == req[r].exp
           g == req[r].gap
           k == config[e].layer
<1>0. PICK new : new = [exp |-> e, layer |-> k, start |-> g.start, end |-> g.end,
                   activated |-> req[r].now, released |-> FALSE, reusable |-> 0]
  OBVIOUS
<1>1. /\ req[r].pc = "s_commit" /\ TransitionState(e, "STARTING", "RUNNING")
      /\ allocs' = allocs \cup {new} /\ clock' = clock
  BY <1>0 DEF CommitStart, At
<1>2. /\ req[r] \in Requests /\ clock \in Nat /\ allocs \subseteq Rows
  BY DEF IndInv, TypeOK
<1>3. /\ e \in Exps /\ req[r].now <= clock /\ state[e] # "ABSENT"
  BY <1>1 DEF IndInv, RequestsOK
<1>4. k \in Layers
  BY <1>3 DEF IndInv, RowsOK
<1>5. req[r].now \in Nat /\ g.start \in Buckets /\ g.end \in Buckets
  BY <1>2 DEF Requests, Ranges
<1>6. Buckets \subseteq Int /\ g.start \in Int /\ g.end \in Int
  BY <1>5, ConstantsAssumption DEF Buckets, ConstantsAssumption
<1>7. g.start <= g.end
  <2>1. g.end - g.start + 1 = BucketsNeeded(e)
    BY <1>1 DEF IndInv, StagedOK
  <2>2. BucketsNeeded(e) \in 1 .. TotalBuckets
    BY <1>3, BucketsNeededInLayer DEF IndInv
  <2>3. ASSUME NEW x \in Int, NEW y \in Int, NEW n \in 1 .. TotalBuckets, y - x + 1 = n
        PROVE  x <= y
    BY <2>3, ConstantsAssumption DEF ConstantsAssumption
  <2> QED
    BY <2>1, <2>2, <2>3, <1>6
<1>8. ASSUME NEW b \in g.start .. g.end, NEW a \in allocs PROVE ~Occupies(a, k, b)
  <2> SUFFICES ASSUME Occupies(a, k, b) PROVE FALSE
    OBVIOUS
  <2>1. a.layer = k /\ Holding(a, clock) /\ b \in a.start .. a.end
    BY DEF Occupies
  <2>2. a.reusable \in Nat /\ a.start \in Int /\ a.end \in Int
    BY <1>2, <1>6 DEF Rows
  <2>3. a \in GetActiveAllocations(k, req[r].now)
    BY <2>1, <2>2, <1>2, <1>3, <1>5 DEF GetActiveAllocations, Holding
  <2>4. Disjoint(a, g)
    BY <2>3, <1>1 DEF IndInv, StagedOK
  <2>5. b \in Int /\ g.start <= b /\ b <= g.end
    BY <1>6
  <2> HIDE DEF g
  <2> QED
    BY <2>1, <2>2, <2>4, <2>5, <1>6 DEF Disjoint
<1>9. \A b \in g.start .. g.end : b \in Buckets
  BY <1>5, ConstantsAssumption DEF Buckets, ConstantsAssumption
<1>10. \A b \in g.start .. g.end : BucketOwner[k][b] = None
  BY <1>4, <1>8, <1>9 DEF Owned
<1>11. new.layer = k /\ new.start = g.start /\ new.end = g.end /\ ~new.released /\ new.exp = e
  BY <1>0
<1>12. \A a, l, b : Occupies(a, l, b)' <=> Occupies(a, l, b)
  BY <1>1 DEF Occupies, Holding
<1>13. \A l, b : Occupies(new, l, b) <=> l = k /\ b \in g.start .. g.end
  BY <1>11 DEF Occupies, Holding
<1>14. ASSUME NEW l \in Layers, NEW b \in Buckets
       PROVE  BucketOwner'[l][b] = IF l = k /\ b \in g.start .. g.end
                                   THEN e ELSE BucketOwner[l][b]
  <2>1. CASE l = k /\ b \in g.start .. g.end
    <3>1. Occupies(new, l, b)' /\ new \in allocs'
      BY <2>1, <1>1, <1>12, <1>13
    <3>2. BucketOwner'[l][b] = new.exp
      BY <3>1 DEF Owned
    <3> QED
      BY <2>1, <3>2, <1>11
  <2>2. CASE ~(l = k /\ b \in g.start .. g.end)
    <3>1. ~Occupies(new, l, b)'
      BY <2>2, <1>12, <1>13
    <3>2. CASE \E a \in allocs : Occupies(a, l, b)
      <4>1. PICK a \in allocs : Occupies(a, l, b)
        BY <3>2
      <4>2. a \in allocs' /\ Occupies(a, l, b)'
        BY <4>1, <1>1, <1>12
      <4>3. BucketOwner[l][b] = a.exp /\ BucketOwner'[l][b] = a.exp
        BY <4>1, <4>2 DEF Owned
      <4> QED
        BY <4>3, <2>2
    <3>3. CASE \A a \in allocs : ~Occupies(a, l, b)
      <4>1. \A a \in allocs' : ~Occupies(a, l, b)'
        BY <3>1, <3>3, <1>1, <1>12
      <4>2. BucketOwner[l][b] = None /\ BucketOwner'[l][b] = None
        BY <3>3, <4>1 DEF Owned
      <4> QED
        BY <4>2, <2>2
    <3> QED
      BY <3>2, <3>3
  <2> QED
    BY <2>1, <2>2
<1>15. BucketOwner' = [BucketOwner EXCEPT ![k] =
          [b \in Contract!LayerBuckets |->
             IF b \in g.start .. g.end THEN e ELSE BucketOwner[k][b]]]
  <2>1. /\ BucketOwner' \in [Layers -> [Buckets -> Exps \cup {None}]]
        /\ BucketOwner \in [Layers -> [Buckets -> Exps \cup {None}]]
    BY DEF Owned
  <2>2. Contract!LayerBuckets = Buckets
    BY DEF Contract!LayerBuckets, Buckets
  <2> HIDE DEF e, g, k
  <2> QED
    BY <1>4, <1>14, <2>1, <2>2
<1>16. Contract!Activate(e, k, g.start, g.end)
  <2>1. state[e] = "STARTING" /\ state' = [state EXCEPT ![e] = "RUNNING"]
    BY <1>1 DEF TransitionState
  <2> HIDE DEF e, g, k
  <2> QED
    BY <1>7, <1>10, <1>15, <2>1 DEF Contract!Activate
<1>17. g.start \in Contract!LayerBuckets /\ g.end \in Contract!LayerBuckets
  BY <1>5 DEF Contract!LayerBuckets, Buckets
<1> HIDE DEF e, g, k
<1> QED
  BY <1>3, <1>4, <1>16, <1>17 DEF Contract!ContractNext

\* The commit of a conclusion releases the experiment's only row.  Its buckets
\* stay owned while they cool down; a cooldown that has run out already frees
\* them in the same step.
LEMMA CommitConcludeStep ==
    ASSUME IndInv, Owned, Owned', NEW r \in Reqs, CommitConclude(r)
    PROVE  Contract!ContractNext
<1> DEFINE e == req[r].exp
           t == req[r].now
<1>1. /\ req[r].pc = "c_commit" /\ ReleaseAllocation(e, t)
      /\ TransitionState(e, "CONCLUDING", "CONCLUDED") /\ clock' = clock
  BY DEF CommitConclude, At
<1>2. /\ e \in Exps /\ t \in Nat /\ clock \in Nat /\ Cooldown \in Nat
      /\ allocs \subseteq Rows
  BY <1>1, ConstantsAssumption
     DEF IndInv, RequestsOK, TypeOK, Requests, ConstantsAssumption
<1>3. state[e] = "CONCLUDING" /\ state' = [state EXCEPT ![e] = "CONCLUDED"]
  BY <1>1 DEF TransitionState
<1>4. PICK old \in allocs : old.exp = e
  BY <1>2, <1>3 DEF IndInv, RowsOK
<1>5. ~old.released /\ \A a \in allocs : a.exp = e => a = old
  BY <1>3, <1>4 DEF IndInv, RowsOK
<1>6. old \in Rows
  BY <1>2, <1>4
<1>7. PICK row : row = [old EXCEPT !.released = TRUE, !.reusable = t + Cooldown]
  OBVIOUS
<1>8. /\ row.exp = e /\ row.layer = old.layer /\ row.start = old.start /\ row.end = old.end
      /\ row.released = TRUE /\ row.reusable = t + Cooldown
  BY <1>4, <1>6, <1>7 DEF Rows
<1>9. allocs' = (allocs \ {old}) \cup {row}
  <2>1. ASSUME NEW a \in allocs
        PROVE  (IF a.exp = e /\ ~a.released
                THEN [a EXCEPT !.released = TRUE, !.reusable = t + Cooldown]
                ELSE a) = IF a = old THEN row ELSE a
    BY <1>4, <1>5, <1>7
  <2> HIDE DEF e, t
  <2>2. allocs' = {IF a = old THEN row ELSE a : a \in allocs}
    BY <1>1, <2>1 DEF ReleaseAllocation
  <2> QED
    BY <1>4, <2>2
<1>10. \A a, l, b : Occupies(a, l, b)' <=> Occupies(a, l, b)
  BY <1>1 DEF Occupies, Holding
<1>11. \A l, b : Occupies(row, l, b) <=> t + Cooldown > clock /\ Occupies(old, l, b)
  BY <1>5, <1>8 DEF Occupies, Holding
<1>12. \A l \in Layers, b \in Buckets : Occupies(old, l, b) => BucketOwner[l][b] = e
  BY <1>4 DEF Owned
<1>13. ASSUME NEW l \in Layers, NEW b \in Buckets, ~Occupies(old, l, b)
       PROVE  BucketOwner'[l][b] = BucketOwner[l][b] /\ BucketOwner[l][b] # e
  <2>1. ~Occupies(row, l, b)
    BY <1>11, <1>13
  <2>2. CASE \E a \in allocs : Occupies(a, l, b)
    <3>1. PICK a \in allocs : Occupies(a, l, b)
      BY <2>2
    <3>2. a # old
      BY <3>1, <1>13
    <3>3. a \in allocs' /\ Occupies(a, l, b)'
      BY <3>1, <3>2, <1>9, <1>10
    <3>4. BucketOwner[l][b] = a.exp /\ BucketOwner'[l][b] = a.exp
      BY <3>1, <3>3 DEF Owned
    <3>5. a.exp # e
      BY <3>2, <1>5
    <3> QED
      BY <3>4, <3>5
  <2>3. CASE \A a \in allocs : ~Occupies(a, l, b)
    <3>1. \A a \in allocs' : ~Occupies(a, l, b)'
      BY <2>1, <2>3, <1>9, <1>10
    <3>2. BucketOwner[l][b] = None /\ BucketOwner'[l][b] = None
      BY <2>3, <3>1 DEF Owned
    <3>3. None # e
      BY <1>2, ConstantsAssumption DEF ConstantsAssumption
    <3> QED
      BY <3>2, <3>3
  <2> QED
    BY <2>2, <2>3
<1>14. /\ BucketOwner' \in [Layers -> [Buckets -> Exps \cup {None}]]
       /\ BucketOwner \in [Layers -> [Buckets -> Exps \cup {None}]]
       /\ Contract!LayerBuckets = Buckets
  BY DEF Owned, Contract!LayerBuckets, Buckets
<1>15. CASE t + Cooldown > clock
  <2>1. ASSUME NEW l \in Layers, NEW b \in Buckets
        PROVE  BucketOwner'[l][b] = BucketOwner[l][b]
    <3>1. CASE Occupies(old, l, b)
      <4>1. row \in allocs' /\ Occupies(row, l, b)'
        BY <3>1, <1>9, <1>10, <1>11, <1>15
      <4>2. BucketOwner'[l][b] = row.exp
        BY <4>1 DEF Owned
      <4> QED
        BY <4>2, <3>1, <1>8, <1>12
    <3> QED
      BY <3>1, <1>13
  <2>2. BucketOwner' = BucketOwner
    BY <2>1, <1>14
  <2>3. Contract!Transition(e, "CONCLUDED")
    BY <1>3, <2>2 DEF Contract!Transition, Contract!validTransitions
  <2> QED
    BY <1>2, <2>3 DEF Contract!ContractNext
<1>16. CASE ~(t + Cooldown > clock)
  <2>1. ASSUME NEW l \in Layers, NEW b \in Buckets
        PROVE  BucketOwner'[l][b] = IF BucketOwner[l][b] = e THEN None
                                                            ELSE BucketOwner[l][b]
    <3>1. CASE Occupies(old, l, b)
      <4>1. ASSUME NEW a \in allocs', Occupies(a, l, b)' PROVE FALSE
        <5>1. Occupies(a, l, b) /\ ~Occupies(row, l, b)
          BY <4>1, <1>10, <1>11, <1>16
        <5>2. a \in allocs /\ a # old
          BY <5>1, <1>9
        <5>3. a.exp = e
          BY <5>1, <5>2, <3>1, <1>12 DEF Owned
        <5> QED
          BY <5>2, <5>3, <1>5
      <4>2. BucketOwner'[l][b] = None
        BY <4>1 DEF Owned
      <4> QED
        BY <4>2, <3>1, <1>12
    <3> QED
      BY <3>1, <1>13
  <2>2. BucketOwner' = [l \in Layers |-> [b \in Contract!LayerBuckets |->
            IF BucketOwner[l][b] = e THEN None ELSE BucketOwner[l][b]]]
    <3> HIDE DEF e
    <3> QED
      BY <2>1, <1>14
  <2>3. Contract!ConcludeAndReclaim(e)
    BY <1>3, <2>2 DEF Contract!ConcludeAndReclaim
  <2> QED
    BY <1>2, <2>3 DEF Contract!ContractNext
<1> QED
  BY <1>15, <1>16

\* Every step of the handlers and of their environment is a step of the
\* contract, or leaves the contract's state alone.
LEMMA StepImplements ==
    ASSUME IndInv, Owned, Owned', [Next]_vars
    PROVE  [Contract!ContractNext]_(Contract!contractVars)
<1> USE DEF IndInv
<1>1. CASE Call
  <2>1. PICK e \in Exps :
          \/ \E l \in Layers, p \in Percentages :
                CreateExperiment(e, l, p) \/ UpdateExperiment(e, l, p)
          \/ \E r \in Reqs : \/ StartTx1(r, e) \/ ConcludeTx1(r, e)
                             \/ PauseOrResumeExperiment(r, e) \/ ArchiveExperiment(r, e)
    BY <1>1 DEF Call
  <2>2. \E from, to \in States :
          /\ TransitionState(e, from, to) /\ UNCHANGED <<allocs, clock>>
          /\ from = to \/ <<from, to>> \in Contract!validTransitions
    BY <2>1 DEF CreateExperiment, UpdateExperiment, StartTx1, ConcludeTx1,
                PauseOrResumeExperiment, ArchiveExperiment, States,
                Contract!validTransitions
  <2> QED
    BY <2>2, TransitionStep
<1>2. ASSUME NEW r \in Reqs, Step(r)
      PROVE  [Contract!ContractNext]_(Contract!contractVars)
  <2>1. CASE CommitStart(r) \/ CommitConclude(r)
    BY <2>1, CommitStartStep, CommitConcludeStep
  <2>2. CASE rollbackToDraft(r)
    <3>1. UNCHANGED <<allocs, clock>> /\ req[r].exp \in Exps
      BY <2>2 DEF rollbackToDraft, At, RequestsOK
    <3>2. CASE TransitionState(req[r].exp, "STARTING", "DRAFT")
      BY <3>1, <3>2, TransitionStep DEF States, Contract!validTransitions
    <3>3. CASE state' = state
      BY <3>1, <3>3, SilentStep
    <3> QED
      BY <2>2, <3>2, <3>3 DEF rollbackToDraft
  <2>3. CASE UNCHANGED <<state, allocs, clock>>
    BY <2>3, SilentStep
  <2> QED
    BY <1>2, <2>1, <2>2, <2>3
       DEF Step, ValidateForStart, BeginTx2, LockExperiment, LockLayer, Allocate,
           AbandonStart, CommitStartFails, ConcludeFails, Publish
<1>3. CASE Tick
  BY <1>3, TickStep
<1>4. CASE UNCHANGED <<state, allocs, clock>>
  BY <1>4, SilentStep
<1> QED
  BY <1>1, <1>2, <1>3, <1>4 DEF Next, Cancel, Crash, Quiescent, vars

\* With the owner of a bucket read off the allocation rows, every behaviour of
\* the handlers, their failures included, is a behaviour of ExperimentContract:
\* buckets are acquired free and in one block by the step to RUNNING, kept until
\* CONCLUDED, and change hands only by being free first.
THEOREM LifecycleImplementsContract == Spec => ImplementsContract
<1>1. Init => Contract!ContractInit
  <2> SUFFICES ASSUME Init PROVE Contract!ContractInit
    OBVIOUS
  <2>1. BucketOwner = [l \in Layers |-> [b \in Contract!LayerBuckets |-> None]]
    BY DEF Init, BucketOwner, Contract!LayerBuckets, Buckets
  <2> QED
    BY <2>1 DEF Init, Contract!ContractInit
<1>2. IndInv => TypeOK
  BY DEF IndInv
<1>3. TypeOK /\ NoOverlap => Owned
  BY OwnerIsUnique
<1>4. IndInv /\ Owned /\ Owned' /\ [Next]_vars
        => [Contract!ContractNext]_(Contract!contractVars)
  BY StepImplements
<1> QED
  BY <1>1, <1>2, <1>3, <1>4, LifecycleInvariant, AllocationsDoNotOverlap, PTL
     DEF Spec, ImplementsContract, Contract!ContractSpec
=============================================================================
