------------------------ MODULE ExperimentLifecycle ------------------------
(***************************************************************************)
(* M5's experiment lifecycle (services/management): the handlers that move *)
(* an experiment through                                                   *)
(*                                                                         *)
(*   DRAFT -> STARTING -> RUNNING -> CONCLUDING -> CONCLUDED -> ARCHIVED   *)
(*                                                                         *)
(* and that give it hash buckets of a layer, run concurrently against one  *)
(* PostgreSQL database.  A request is a process.  StartExperiment and      *)
(* concludeByID use two transactions each, so other requests, the clock,   *)
(* a cancelled client or a crash come between them; the second transaction *)
(* locks the experiment row, then the layer row (SELECT ... FOR UPDATE).   *)
(* A transaction that locks one row and cannot wait again is one action.   *)
(* NOW() is the time at which a transaction began.                         *)
(***************************************************************************)
EXTENDS BucketAllocator

CONSTANTS
    Exps,           \* experiment ids
    Layers,         \* layer ids
    Reqs,           \* request slots: how many handlers run at once
    TotalBuckets,   \* layers.total_buckets
    Cooldown,       \* layers.bucket_reuse_cooldown_seconds, in clock ticks
    Percentages,    \* traffic percentages a client may write
    MaxTime,        \* bound on the clock
    Failures,       \* which failures happen: a subset of FailureKinds
    None            \* no request, no experiment, no layer

\* "db": a statement or a commit returns an error; "cancel": the client goes
\* away, so every later database call of its request fails; "crash": the M5
\* process dies and PostgreSQL aborts its open transactions.
FailureKinds == {"db", "cancel", "crash"}

ASSUME ConstantsAssumption ==
    /\ TotalBuckets \in Nat \ {0}
    /\ Cooldown \in Nat
    /\ MaxTime \in Nat
    /\ Percentages \subseteq Int
    /\ Failures \subseteq FailureKinds
    /\ None \notin Exps \cup Layers \cup Reqs

VARIABLES
    state,      \* experiments.state
    config,     \* layer_id and traffic_percentage of the experiment
    allocs,     \* rows of layer_allocations
    audit,      \* newest audit_trail row of each experiment
    expLock,    \* the request that holds the experiment's row lock
    layerLock,  \* the request that holds the layer's row lock
    req,        \* the requests in progress
    notices,    \* pg_notify payloads sent and not yet delivered
    clock

vars == <<state, config, allocs, audit, expLock, layerLock, req, notices, clock>>

locks == <<expLock, layerLock>>

States == {"ABSENT", "DRAFT", "STARTING", "RUNNING",
           "CONCLUDING", "CONCLUDED", "ARCHIVED"}

\* Where a request is: the step it takes next.
StartSteps    == {"validate", "s_begin", "s_exp", "s_layer", "allocate",
                  "s_commit", "rollback"}
ConcludeSteps == {"c_begin", "c_exp", "c_layer", "c_commit"}
PublishSteps  == {"upsert", "delete"}
Steps         == {"idle"} \cup StartSteps \cup ConcludeSteps \cup PublishSteps

Buckets == 0 .. TotalBuckets - 1
Ranges  == [start : Buckets, end : Buckets]

\* now is NOW() of the open transaction, gap the range it has inserted and not
\* committed, cancelled tells that the client is gone.
Requests == [pc : Steps, exp : Exps \cup {None}, now : Nat, gap : Ranges,
             cancelled : BOOLEAN]

Idle == [pc |-> "idle", exp |-> None, now |-> 0,
         gap |-> [start |-> 0, end |-> 0], cancelled |-> FALSE]

\* activated is activated_at; released tells that released_at is set, and then
\* reusable is reusable_after.
Rows == [exp : Exps, layer : Layers, start : Buckets, end : Buckets,
         activated : Nat, released : BOOLEAN, reusable : Nat]

Configs == [layer : Layers \cup {None}, pct : Int]

Entry(from, to) == [prev |-> from, new |-> to]

\* What the database columns and the handlers' variables may hold.
TypeOK ==
    /\ state \in [Exps -> States]
    /\ config \in [Exps -> Configs]
    /\ allocs \subseteq Rows
    /\ audit \in [Exps -> [prev : States, new : States]]
    /\ expLock \in [Exps -> Reqs \cup {None}]
    /\ layerLock \in [Layers -> Reqs \cup {None}]
    /\ req \in [Reqs -> Requests]
    /\ notices \subseteq Exps \X PublishSteps
    /\ clock \in Nat

Init ==
    /\ state = [e \in Exps |-> "ABSENT"]
    /\ config = [e \in Exps |-> [layer |-> None, pct |-> 0]]
    /\ allocs = {}
    /\ audit = [e \in Exps |-> Entry("ABSENT", "ABSENT")]
    /\ expLock = [e \in Exps |-> None]
    /\ layerLock = [l \in Layers |-> None]
    /\ req = [r \in Reqs |-> Idle]
    /\ notices = {}
    /\ clock = 0

-----------------------------------------------------------------------------
(* Pieces the handlers share                                               *)

\* Mutant: the UPDATE lost its "AND state = from".
TransitionAnyState(e, from, to) ==
    /\ state' = [state EXCEPT ![e] = to]
    /\ audit' = [audit EXCEPT ![e] = Entry(from, to)]

\* UPDATE experiments SET state = to WHERE state = from, and its audit row.
TransitionState(e, from, to) ==
    /\ state[e] = from
    /\ state' = [state EXCEPT ![e] = to]
    /\ audit' = [audit EXCEPT ![e] = Entry(from, to)]

\* Mutant: rows in cooldown count as free.
IgnoreCooldown(l, t) == {a \in allocs : a.layer = l /\ ~a.released}

\* The rows of a layer that are held, or still cooling down at time t.
GetActiveAllocations(l, t) ==
    {a \in allocs : a.layer = l /\ (~a.released \/ a.reusable > t)}

BucketsNeeded(e) ==
    BucketsFromPercentage(TotalBuckets, extractTrafficPercentage(config[e].pct))

At(r, step) == req[r].pc = step
Goto(r, step) == req' = [req EXCEPT ![r].pc = step]
Finish(r) == req' = [req EXCEPT ![r] = Idle]

\* The end of a transaction, whether it commits or rolls back.
ReleaseLocks(r) ==
    /\ expLock' = [e \in Exps |-> IF expLock[e] = r THEN None ELSE expLock[e]]
    /\ layerLock' =
         [l \in Layers |-> IF layerLock[l] = r THEN None ELSE layerLock[l]]

\* A database call of request r succeeds only while its context is alive, and
\* may fail if it is cancelled or the database is unreliable.
CallSucceeds(r) == ~req[r].cancelled
CallFails(r)    == req[r].cancelled \/ "db" \in Failures

\* COMMIT took effect; the answer may be lost on the way back, and then the
\* handler returns an error and does nothing more.
Committed(r, step) ==
    \/ Goto(r, step)
    \/ "db" \in Failures /\ Finish(r)

\* An idle request slot takes up a call for experiment e whose first
\* transaction commits: the handler goes on at step.
Accepted(r, e, step) ==
    /\ At(r, "idle")
    /\ expLock[e] = None
    /\ \/ req' = [req EXCEPT ![r] = [Idle EXCEPT !.pc = step, !.exp = e]]
       \/ "db" \in Failures /\ UNCHANGED req

-----------------------------------------------------------------------------
(* Handlers of one transaction                                             *)

CreateExperiment(e, l, p) ==
    /\ TransitionState(e, "ABSENT", "DRAFT")
    /\ config' = [config EXCEPT ![e] = [layer |-> l, pct |-> p]]
    /\ UNCHANGED <<allocs, locks, req, notices, clock>>

UpdateExperiment(e, l, p) ==
    /\ expLock[e] = None
    /\ TransitionState(e, "DRAFT", "DRAFT")
    /\ config' = [config EXCEPT ![e] = [layer |-> l, pct |-> p]]
    /\ UNCHANGED <<allocs, locks, req, notices, clock>>

\* PauseExperiment and ResumeExperiment: the state stays RUNNING.
PauseOrResumeExperiment(r, e) ==
    /\ Accepted(r, e, "upsert")
    /\ TransitionState(e, "RUNNING", "RUNNING")
    /\ UNCHANGED <<config, allocs, locks, notices, clock>>

ArchiveExperiment(r, e) ==
    /\ Accepted(r, e, "delete")
    /\ TransitionState(e, "CONCLUDED", "ARCHIVED")
    /\ UNCHANGED <<config, allocs, locks, notices, clock>>

\* notifier.Publish after the commit; its errors are only logged.
Publish(r) ==
    /\ req[r].pc \in PublishSteps
    /\ \/ CallSucceeds(r) /\ notices' = notices \cup {<<req[r].exp, req[r].pc>>}
       \/ CallFails(r) /\ UNCHANGED notices
    /\ Finish(r)
    /\ UNCHANGED <<state, config, allocs, audit, locks, clock>>

-----------------------------------------------------------------------------
(* StartExperiment                                                         *)

\* Transaction 1: DRAFT -> STARTING.
StartTx1(r, e) ==
    /\ Accepted(r, e, "validate")
    /\ TransitionState(e, "DRAFT", "STARTING")
    /\ UNCHANGED <<config, allocs, locks, notices, clock>>

\* validateMetricsForStart and validateTypeConfigForStart read the metric
\* definitions: either verdict is possible, and a failed read is a refusal.
ValidateForStart(r) ==
    /\ At(r, "validate")
    /\ \/ CallSucceeds(r) /\ Goto(r, "s_begin")
       \/ Goto(r, "rollback")
    /\ UNCHANGED <<state, config, allocs, audit, locks, notices, clock>>

\* BEGIN of transaction 2 of either handler; without it the handler returns
\* and leaves the experiment in its transitional state.
BeginTx2(r, from, to) ==
    /\ At(r, from)
    /\ \/ /\ CallSucceeds(r)
          /\ req' = [req EXCEPT ![r].pc = to, ![r].now = clock]
       \/ CallFails(r) /\ Finish(r)
    /\ UNCHANGED <<state, config, allocs, audit, locks, notices, clock>>

\* Mutant: the SELECT lost its FOR UPDATE.
ReadLayer(r, from, to) ==
    /\ At(r, from) /\ CallSucceeds(r)
    /\ Goto(r, to)
    /\ UNCHANGED <<state, config, allocs, audit, locks, notices, clock>>

\* SELECT ... FROM experiments ... FOR UPDATE.
LockExperiment(r, from, to) ==
    /\ At(r, from) /\ CallSucceeds(r)
    /\ expLock[req[r].exp] = None
    /\ expLock' = [expLock EXCEPT ![req[r].exp] = r]
    /\ Goto(r, to)
    /\ UNCHANGED <<state, config, allocs, audit, layerLock, notices, clock>>

\* SELECT ... FROM layers ... FOR UPDATE.
LockLayer(r, from, to) ==
    /\ At(r, from) /\ CallSucceeds(r)
    /\ layerLock[config[req[r].exp].layer] = None
    /\ layerLock' = [layerLock EXCEPT ![config[req[r].exp].layer] = r]
    /\ Goto(r, to)
    /\ UNCHANGED <<state, config, allocs, audit, expLock, notices, clock>>

\* Under both locks: read the occupied ranges and insert the first gap.
Allocate(r) ==
    LET e == req[r].exp
        occupied == GetActiveAllocations(config[e].layer, req[r].now)
    IN  /\ At(r, "allocate") /\ CallSucceeds(r)
        /\ \E g \in Ranges :
             /\ FindContiguousGap(TotalBuckets, occupied, BucketsNeeded(e), g)
             /\ req' = [req EXCEPT ![r].pc = "s_commit", ![r].gap = g]
        /\ UNCHANGED <<state, config, allocs, audit, locks, notices, clock>>

\* Mutant: without a gap the handler returns and forgets rollbackToDraft.
AbandonWithoutRollback(r) ==
    LET e == req[r].exp
        occupied == GetActiveAllocations(config[e].layer, req[r].now)
    IN  /\ At(r, "allocate") /\ CallSucceeds(r)
        /\ NoContiguousGap(TotalBuckets, occupied, BucketsNeeded(e))
        /\ Finish(r)
        /\ ReleaseLocks(r)
        /\ UNCHANGED <<state, config, allocs, audit, notices, clock>>

\* No gap, or a statement of transaction 2 up to the state change fails: roll
\* back, which frees the locks, and go to DRAFT in a transaction of its own.
AbandonStart(r) ==
    LET e == req[r].exp
        occupied == GetActiveAllocations(config[e].layer, req[r].now)
    IN  /\ \/ /\ At(r, "allocate") /\ CallSucceeds(r)
              /\ NoContiguousGap(TotalBuckets, occupied, BucketsNeeded(e))
           \/ At(r, "s_commit") /\ state[e] # "STARTING"
           \/ /\ req[r].pc \in {"s_exp", "s_layer", "allocate", "s_commit"}
              /\ CallFails(r)
        /\ Goto(r, "rollback")
        /\ ReleaseLocks(r)
        /\ UNCHANGED <<state, config, allocs, audit, notices, clock>>

\* STARTING -> RUNNING with the audit row; the inserted range becomes visible.
CommitStart(r) ==
    LET e == req[r].exp IN
    /\ At(r, "s_commit") /\ CallSucceeds(r)
    /\ TransitionState(e, "STARTING", "RUNNING")
    /\ allocs' = allocs \cup
         {[exp |-> e, layer |-> config[e].layer,
           start |-> req[r].gap.start, end |-> req[r].gap.end,
           activated |-> req[r].now, released |-> FALSE, reusable |-> 0]}
    /\ ReleaseLocks(r)
    /\ Committed(r, "upsert")
    /\ UNCHANGED <<config, notices, clock>>

\* The audit row or COMMIT fails: the handler returns without going to DRAFT.
CommitStartFails(r) ==
    /\ At(r, "s_commit") /\ CallFails(r)
    /\ Finish(r)
    /\ ReleaseLocks(r)
    /\ UNCHANGED <<state, config, allocs, audit, notices, clock>>

\* Its own errors are only logged.
rollbackToDraft(r) ==
    LET e == req[r].exp IN
    /\ At(r, "rollback")
    /\ \/ /\ CallSucceeds(r) /\ expLock[e] = None
          /\ IF state[e] = "STARTING" THEN TransitionState(e, "STARTING", "DRAFT")
                                      ELSE UNCHANGED <<state, audit>>
       \/ CallFails(r) /\ UNCHANGED <<state, audit>>
    /\ Finish(r)
    /\ UNCHANGED <<config, allocs, locks, notices, clock>>

-----------------------------------------------------------------------------
(* concludeByID, for the ConcludeExperiment call and the auto-conclude      *)
(* consumer.  Between its transactions it calls the analysis and policy     *)
(* services, best effort: their answers change nothing here.                *)

\* Mutant: the handler publishes the deletion and leaves out transaction 2.
ConcludeWithoutTx2(r, e) ==
    /\ Accepted(r, e, "delete")
    /\ TransitionState(e, "RUNNING", "CONCLUDING")
    /\ UNCHANGED <<config, allocs, locks, notices, clock>>

\* Transaction 1: RUNNING -> CONCLUDING.
ConcludeTx1(r, e) ==
    /\ Accepted(r, e, "c_begin")
    /\ TransitionState(e, "RUNNING", "CONCLUDING")
    /\ UNCHANGED <<config, allocs, locks, notices, clock>>

\* Mutant: concluding forgets the release.
ReleaseNothing(e, t) == allocs' = allocs

\* UPDATE layer_allocations ... WHERE experiment_id = e AND released_at IS NULL.
ReleaseAllocation(e, t) ==
    allocs' = {IF a.exp = e /\ ~a.released
               THEN [a EXCEPT !.released = TRUE, !.reusable = t + Cooldown]
               ELSE a : a \in allocs}

\* CONCLUDING -> CONCLUDED with the audit row, and the release of the buckets.
CommitConclude(r) ==
    LET e == req[r].exp IN
    /\ At(r, "c_commit") /\ CallSucceeds(r)
    /\ ReleaseAllocation(e, req[r].now)
    /\ TransitionState(e, "CONCLUDING", "CONCLUDED")
    /\ ReleaseLocks(r)
    /\ Committed(r, "delete")
    /\ UNCHANGED <<config, notices, clock>>

\* Any statement of transaction 2 fails: the handler returns, and nothing
\* moves the experiment out of CONCLUDING.
ConcludeFails(r) ==
    /\ req[r].pc \in {"c_exp", "c_layer", "c_commit"}
    /\ CallFails(r) \/ (At(r, "c_commit") /\ state[req[r].exp] # "CONCLUDING")
    /\ Finish(r)
    /\ ReleaseLocks(r)
    /\ UNCHANGED <<state, config, allocs, audit, notices, clock>>

-----------------------------------------------------------------------------
(* The environment                                                         *)

\* The client of request r disconnects or times out.
Cancel(r) ==
    /\ "cancel" \in Failures
    /\ ~At(r, "idle") /\ ~req[r].cancelled
    /\ req' = [req EXCEPT ![r].cancelled = TRUE]
    /\ UNCHANGED <<state, config, allocs, audit, locks, notices, clock>>

\* The M5 process dies; open transactions are aborted.
Crash ==
    /\ "crash" \in Failures
    /\ req' = [r \in Reqs |-> Idle]
    /\ expLock' = [e \in Exps |-> None]
    /\ layerLock' = [l \in Layers |-> None]
    /\ UNCHANGED <<state, config, allocs, audit, notices, clock>>

Tick ==
    /\ clock < MaxTime
    /\ clock' = clock + 1
    /\ UNCHANGED <<state, config, allocs, audit, locks, req, notices>>

\* No request is in progress and none need come.
Quiescent ==
    /\ \A r \in Reqs : At(r, "idle")
    /\ UNCHANGED vars

\* One step of a request in progress.
Step(r) ==
    \/ ValidateForStart(r)
    \/ BeginTx2(r, "s_begin", "s_exp")
    \/ BeginTx2(r, "c_begin", "c_exp")
    \/ LockExperiment(r, "s_exp", "s_layer")
    \/ LockExperiment(r, "c_exp", "c_layer")
    \/ LockLayer(r, "s_layer", "allocate")
    \/ LockLayer(r, "c_layer", "c_commit")
    \/ Allocate(r)
    \/ AbandonStart(r)
    \/ CommitStart(r)
    \/ CommitStartFails(r)
    \/ rollbackToDraft(r)
    \/ CommitConclude(r)
    \/ ConcludeFails(r)
    \/ Publish(r)

\* A client's call.
Call ==
    \E e \in Exps :
       \/ \E l \in Layers, p \in Percentages : CreateExperiment(e, l, p)
       \/ \E l \in Layers, p \in Percentages : UpdateExperiment(e, l, p)
       \/ \E r \in Reqs : \/ StartTx1(r, e)
                          \/ ConcludeTx1(r, e)
                          \/ PauseOrResumeExperiment(r, e)
                          \/ ArchiveExperiment(r, e)

Next ==
    \/ Call
    \/ \E r \in Reqs : Step(r) \/ Cancel(r)
    \/ Crash
    \/ Tick
    \/ Quiescent

Spec == Init /\ [][Next]_vars

\* The server's goroutines run, and PostgreSQL grants a row lock in turn: a
\* request in progress takes its next step, and one that waits for a lock
\* that is free again and again gets it.  Nothing makes a client call, cancel
\* or the clock fair.
FairSpec ==
    /\ Spec
    /\ \A r \in Reqs :
         /\ WF_vars(Step(r))
         /\ SF_vars(LockExperiment(r, "s_exp", "s_layer"))
         /\ SF_vars(LockExperiment(r, "c_exp", "c_layer"))
         /\ SF_vars(LockLayer(r, "s_layer", "allocate"))
         /\ SF_vars(LockLayer(r, "c_layer", "c_commit"))

-----------------------------------------------------------------------------
(* Properties                                                              *)

Holding(a, t) == ~a.released \/ a.reusable > t

\* ADR-009, rule 3: no two allocations of a layer that are active or cooling
\* down share a bucket (StartExperiment's gap search under the layer lock).
NoOverlap ==
    \A a, b \in allocs :
       (a # b /\ a.layer = b.layer /\ Holding(a, clock) /\ Holding(b, clock))
         => Disjoint(a, b)

\* Over the whole history: when a bucket was given to two experiments, the
\* cooldown of the one had run out before the other was activated, measured
\* by NOW() of the transactions that released and inserted the rows.
ReuseAfterCooldown ==
    \A a, b \in allocs :
       (a # b /\ a.layer = b.layer) =>
          \/ Disjoint(a, b)
          \/ a.released /\ a.reusable <= b.activated
          \/ b.released /\ b.reusable <= a.activated

\* Exactly the RUNNING and CONCLUDING experiments hold an unreleased
\* allocation; it lies in the experiment's layer and has the size its traffic
\* percentage asks for, and no experiment ever gets a second one.
LiveExperimentsHoldBuckets ==
    /\ \A e \in Exps :
         state[e] \in {"RUNNING", "CONCLUDING"}
           <=> \E a \in allocs : a.exp = e /\ ~a.released
    /\ \A a \in allocs :
         /\ a.layer = config[a.exp].layer
         /\ a.end - a.start + 1 = BucketsNeeded(a.exp)
         /\ \A b \in allocs : a.exp = b.exp => a = b

\* Whatever fails, at most one request drives an experiment through STARTING
\* or CONCLUDING, and it never finds the state changed under it: the UPDATEs
\* of the second transactions and of rollbackToDraft always match.
SingleDriver ==
    /\ \A r \in Reqs :
         /\ req[r].pc \in StartSteps => state[req[r].exp] = "STARTING"
         /\ req[r].pc \in ConcludeSteps => state[req[r].exp] = "CONCLUDING"
    /\ \A r, q \in Reqs :
         (/\ req[r].pc \in StartSteps \cup ConcludeSteps
          /\ req[q].pc \in StartSteps \cup ConcludeSteps
          /\ req[r].exp = req[q].exp) => r = q

-----------------------------------------------------------------------------
(* The inductive invariant behind NoOverlap, ReuseAfterCooldown,            *)
(* LiveExperimentsHoldBuckets and SingleDriver                              *)

\* Steps at which a request holds its experiment's row, and its layer's row.
HoldsExp   == {"s_layer", "allocate", "s_commit", "c_layer", "c_commit"}
HoldsLayer == {"allocate", "s_commit", "c_commit"}

\* A request that is not idle works on an experiment that exists, and the
\* transaction it has open did not begin in the future.
RequestsOK ==
    \A r \in Reqs :
       /\ req[r].pc # "idle" => /\ req[r].exp \in Exps
                                /\ state[req[r].exp] # "ABSENT"
       /\ req[r].now <= clock

\* Row locks are held by the requests that are past the SELECT ... FOR UPDATE.
LocksOK ==
    /\ \A r \in Reqs : req[r].pc \in HoldsExp => expLock[req[r].exp] = r
    /\ \A r \in Reqs : req[r].pc \in HoldsLayer =>
                           layerLock[config[req[r].exp].layer] = r

\* Every allocation row belongs to its experiment's layer, has the size asked
\* for, is the experiment's only one, is released exactly when the experiment
\* is over, and was not activated in the future; a live experiment has one.
RowsOK ==
    /\ \A e \in Exps : state[e] # "ABSENT" => config[e].layer \in Layers
    /\ \A e \in Exps : state[e] \in {"RUNNING", "CONCLUDING"} =>
                           \E a \in allocs : a.exp = e
    /\ \A a \in allocs :
         /\ state[a.exp] \in {"RUNNING", "CONCLUDING", "CONCLUDED", "ARCHIVED"}
         /\ a.released <=> state[a.exp] \in {"CONCLUDED", "ARCHIVED"}
         /\ a.layer = config[a.exp].layer
         /\ a.end - a.start + 1 = BucketsNeeded(a.exp)
         /\ a.activated <= clock
         /\ \A b \in allocs : a.exp = b.exp => a = b

\* A range that is inserted but not committed is clear of every row that was
\* held when the transaction began, although the rows were read earlier.
StagedOK ==
    \A r \in Reqs : req[r].pc = "s_commit" =>
       /\ req[r].gap.end - req[r].gap.start + 1 = BucketsNeeded(req[r].exp)
       /\ \A a \in GetActiveAllocations(config[req[r].exp].layer, req[r].now) :
            Disjoint(a, req[r].gap)

IndInv ==
    /\ TypeOK
    /\ RequestsOK
    /\ SingleDriver
    /\ LocksOK
    /\ RowsOK
    /\ StagedOK
    /\ ReuseAfterCooldown

-----------------------------------------------------------------------------
\* Row a occupies bucket b of layer l: it is active there or cooling down.
Occupies(a, l, b) == a.layer = l /\ Holding(a, clock) /\ b \in a.start .. a.end

\* The experiment that holds each bucket of each layer, read off the rows.
BucketOwner ==
    [l \in Layers |-> [b \in Buckets |->
       IF \E a \in allocs : Occupies(a, l, b)
       THEN (CHOOSE a \in allocs : Occupies(a, l, b)).exp
       ELSE None]]

Contract == INSTANCE ExperimentContract WITH phase <- state, owner <- BucketOwner

\* Every step of the handlers, failures included, is a step of the contract.
ImplementsContract == Contract!ContractSpec

\* Without failures a start is decided: STARTING ends in RUNNING or DRAFT.
StartSettles ==
    \A e \in Exps : state[e] = "STARTING" ~> state[e] \in {"RUNNING", "DRAFT"}

\* Without failures a conclusion completes, and the buckets are released.
ConcludeSettles ==
    \A e \in Exps : state[e] = "CONCLUDING" ~> state[e] \in {"CONCLUDED", "ARCHIVED"}

=============================================================================
