---------------------------- MODULE FeatureFlags ----------------------------
(***************************************************************************)
(* M7: the feature-flag service.  The flag table is shared by the gRPC     *)
(* handlers, the admin endpoint, the periodic reconciler and the consumer  *)
(* of lifecycle events; the last two ask M5 about the experiment a flag    *)
(* was promoted to and resolve the flag once it is over.  Every database   *)
(* statement or transaction and every call to M5 is a step.                *)
(***************************************************************************)
EXTENDS Machine

CONSTANTS
    FlagIds,         \* flags, named by their unique name
    FlagRequests,    \* the flags given to create_flag and update_flag
    FlagTables,      \* what there is at first: rows, experiments in M5, connections,
                     \* the reconciler's action, and a bound on the calls
    FlagSplits,      \* traffic fractions of a flag's variants, evaluated alone
    FlagBuckets,     \* hash buckets, and the unit of rollouts and fractions
    MaxPromotions,   \* bound: experiments created in M5
    MaxLosses,       \* bound: failed calls and restarts
    NoFlag, MockId

Reconcilers == {"periodic", "consumer"}
Actions == {"rollout_full", "rollback", "keep"}
PromotionTypes == {"AB", "MAB"}

-----------------------------------------------------------------------------
(* Evaluation.                                                             *)

\* The variant whose cumulative fraction first exceeds the bucket; past the
\* rounded sum, the last one.
FlagVariantAt(fractions, bucket) ==
    LET over == {i \in 1 .. Len(fractions) : bucket < SumOf(SubSeq(fractions, 1, i))}
    IN  IF over = {} THEN Len(fractions) ELSE Least(over)

\* What a user in a bucket is answered: the default value, a boolean flag's
\* "true", or i for the i-th variant's value.
Default == 0
On == -1
evaluate_flag(f, bucket) ==
    IF ~f.enabled \/ bucket >= f.rollout THEN Default
    ELSE IF f.variants = <<>> THEN IF f.type = "BOOLEAN" THEN On ELSE Default
    ELSE FlagVariantAt(f.variants, bucket)

\* validate_flag, of what the database and M5 can tell apart.
validate_flag(pb) ==
    /\ pb.type # "UNSPECIFIED"
    /\ pb.rollout \in 0 .. FlagBuckets
    /\ pb.variants # <<>> =>
        /\ SumOf(pb.variants) = FlagBuckets
        /\ \A i \in 1 .. Len(pb.variants) : pb.variants[i] \in 0 .. FlagBuckets

-----------------------------------------------------------------------------
(* What the tables hold.                                                   *)

\* A row is what create_flag validated, and the experiment it is linked to:
\* 0 for none.
FlagPbs == [type : STRING, enabled : BOOLEAN, rollout : Int, variants : Seq(Int)]
ExperimentIds == Nat \cup {MockId}
FlagRows == [type : STRING, enabled : BOOLEAN, rollout : 0 .. FlagBuckets, variants : Seq(Int),
             promoted : ExperimentIds, resolved : BOOLEAN]
SharesTraffic(variants) == variants # <<>> => SumOf(variants) = FlagBuckets

\* The experiments M7 created in M5, with arms that share the whole traffic,
\* one of them the control.
M5States == {"DRAFT", "RUNNING", "CONCLUDED", "ARCHIVED"}
Arms == [fraction : Int, control : BOOLEAN]
M5Experiments == [flag : FlagIds, state : M5States, type : PromotionTypes, variants : Seq(Arms)]
WellFormed(e) ==
    /\ SumOf([k \in 1 .. Len(e.variants) |-> e.variants[k].fraction]) = FlagBuckets
    /\ Cardinality({k \in 1 .. Len(e.variants) : e.variants[k].control}) = 1
    /\ e.type = "MAB" => Len(e.variants) >= 2

\* A flag is linked to an experiment that was created for it.
LinkedTo(m5, f, id) == id \in {0, MockId} \/ (id \in 1 .. Len(m5) /\ m5[id].flag = f)

\* The service starts from tables that it wrote itself.
ASSUME FlagsAssumption ==
    /\ FlagBuckets \in Nat /\ MaxLosses \in Nat /\ MaxPromotions \in Nat
    /\ MockId \notin Nat /\ NoFlag \notin FlagRows
    /\ FlagRequests \subseteq FlagPbs
    /\ \A table \in FlagTables :
         /\ table.connected \in BOOLEAN /\ table.reconciling \in BOOLEAN
         /\ table.action \in Actions /\ table.calls \in Nat
         /\ table.m5 \in Seq(M5Experiments)
         /\ \A i \in 1 .. Len(table.m5) : WellFormed(table.m5[i])
         /\ \A f \in DOMAIN table.row :
              /\ table.row[f] \in FlagRows /\ SharesTraffic(table.row[f].variants)
              /\ LinkedTo(table.m5, f, table.row[f].promoted)

-----------------------------------------------------------------------------
(* The tables and the processes.                                           *)

Resting == [phase |-> "idle"]

Fresh(pb) ==
    [type |-> pb.type, enabled |-> pb.enabled, rollout |-> pb.rollout, variants |-> pb.variants,
     promoted |-> 0, resolved |-> FALSE]

FlagsInit ==
    \E table \in FlagTables :
        st = [algo |-> "flags", audit |-> {},
              row |-> [f \in FlagIds |-> IF f \in DOMAIN table.row THEN table.row[f] ELSE NoFlag],
              connected |-> table.connected, reconciling |-> table.reconciling, action |-> table.action,
              rpc |-> Resting, rec |-> [r \in Reconcilers |-> Resting],
              todo |-> {}, due |-> {}, failed |-> {}, auto |-> [f \in FlagIds |-> 0],
              m5 |-> table.m5, topic |-> <<>>, offset |-> 0, calls |-> table.calls, losses |-> 0]

Evaluated(f) == [algo |-> "evaluate", flag |-> f]
EvaluationInit ==
    \E type \in {"BOOLEAN", "STRING"}, variants \in FlagSplits, rollout \in 0 .. FlagBuckets :
        st = Evaluated([type |-> type, enabled |-> TRUE, rollout |-> rollout, variants |-> variants])

Known(f) == st.row[f] # NoFlag
MayLose == st.losses < MaxLosses

-----------------------------------------------------------------------------
(* The gRPC handlers.                                                      *)

Record(entry) == st.audit \cup {entry}

\* create_flag: one transaction; the audit is written after it.
create_flag(f, pb) ==
    /\ st.rpc = Resting /\ st.calls > 0
    /\ validate_flag(pb) /\ ~Known(f)
    /\ st' = [st EXCEPT !.row[f] = Fresh(pb),
                        !.calls = @ - 1,
                        !.rpc = [phase |-> "audit", entry |-> [flag |-> f, action |-> "create"]]]

\* update_flag: the previous row is read for the audit, then one transaction
\* replaces the row and its variants; the link to an experiment stays.
ReadPrevious(f, pb) ==
    /\ st.rpc = Resting /\ st.calls > 0
    /\ validate_flag(pb)
    /\ st' = [st EXCEPT !.calls = @ - 1,
                        !.rpc = [phase |-> "update", flag |-> f, pb |-> pb, previous |-> st.row[f]]]
UpdateLabel(previous, updated) ==
    IF previous = NoFlag THEN "update"
    ELSE IF previous.enabled # updated.enabled THEN IF updated.enabled THEN "enable" ELSE "disable"
    ELSE IF previous.rollout # updated.rollout THEN "rollout_change" ELSE "update"
update_flag ==
    LET f == st.rpc.flag
        pb == st.rpc.pb
        updated == [st.row[f] EXCEPT !.type = pb.type, !.enabled = pb.enabled,
                                     !.rollout = pb.rollout, !.variants = pb.variants]
    IN  /\ st.rpc.phase = "update"
        /\ st' = IF ~Known(f) THEN [st EXCEPT !.rpc = Resting]
                 ELSE [st EXCEPT !.row[f] = updated,
                                 !.rpc = [phase |-> "audit",
                                          entry |-> [flag |-> f, action |-> UpdateLabel(st.rpc.previous, updated)]]]

record_audit_nonfatal ==
    /\ st.rpc.phase = "audit"
    /\ \/ st' = [st EXCEPT !.rpc = Resting, !.audit = Record(st.rpc.entry)]
       \/ MayLose /\ st' = [st EXCEPT !.rpc = Resting, !.losses = @ + 1]

\* The arms of the experiment a flag becomes: its variants, the first one
\* the control, or off and on in the proportion of the rollout.
build_variants(f, variants) ==
    IF variants # <<>>
    THEN [i \in 1 .. Len(variants) |-> [fraction |-> variants[i], control |-> i = 1]]
    ELSE <<[fraction |-> FlagBuckets - f.rollout, control |-> TRUE],
           [fraction |-> f.rollout, control |-> FALSE]>>
apply_type_config(type, variants) == type \in {"INTERLEAVING", "MAB"} => Len(variants) >= 2

\* promote_to_experiment: get_flag reads the row and then its variants; M5
\* is asked to create the experiment - or, not connected, one is made up;
\* the flag is linked to it, and neither a failed link nor a failed audit
\* fails the call.
PromoteReadRow(f, type) ==
    /\ st.rpc = Resting /\ st.calls > 0 /\ Known(f)
    /\ st' = [st EXCEPT !.calls = @ - 1,
                        !.rpc = [phase |-> "variants", flag |-> f, type |-> type, row |-> st.row[f]]]
PromoteReadVariants ==
    /\ st.rpc.phase = "variants"
    /\ LET variants == st.row[st.rpc.flag].variants IN
       st' = [st EXCEPT !.rpc =
                IF st.rpc.row.enabled /\ apply_type_config(st.rpc.type, variants)
                THEN [phase |-> "create", flag |-> @.flag, type |-> @.type,
                      variants |-> build_variants(@.row, variants)]
                ELSE Resting]
Linking(id) == [phase |-> "link", flag |-> st.rpc.flag, id |-> id]
CreateInM5 ==
    LET created == Append(st.m5, [flag |-> st.rpc.flag, state |-> "DRAFT", type |-> st.rpc.type,
                                  variants |-> st.rpc.variants])
    IN  /\ st.rpc.phase = "create"
        /\ \/ ~st.connected /\ st' = [st EXCEPT !.rpc = Linking(MockId)]
           \/ /\ st.connected /\ Len(st.m5) < MaxPromotions
              /\ st' = [st EXCEPT !.m5 = created, !.rpc = Linking(Len(created))]
           \/ /\ st.connected /\ MayLose
              /\ \E lost \in {st.m5} \cup (IF Len(st.m5) < MaxPromotions THEN {created} ELSE {}) :
                    st' = [st EXCEPT !.m5 = lost, !.rpc = Resting, !.losses = @ + 1]
link_flag_to_experiment ==
    LET audit == [phase |-> "audit", entry |-> [flag |-> st.rpc.flag, action |-> "promote_to_experiment"]]
    IN  /\ st.rpc.phase = "link"
        /\ \/ st' = [st EXCEPT !.row[st.rpc.flag].promoted = st.rpc.id, !.rpc = audit]
           \/ MayLose /\ st' = [st EXCEPT !.rpc = audit, !.losses = @ + 1]

-----------------------------------------------------------------------------
(* Resolution.                                                             *)

resolve_flag(row, action) ==
    CASE action = "rollout_full" -> [row EXCEPT !.rollout = FlagBuckets, !.enabled = TRUE, !.resolved = TRUE]
      [] action = "rollback"     -> [row EXCEPT !.rollout = 0, !.enabled = FALSE, !.resolved = TRUE]
      [] OTHER                   -> [row EXCEPT !.resolved = TRUE]

\* The admin endpoint: no audit, no look at the experiment.
handle_resolve(f, action) ==
    /\ st.calls > 0 /\ Known(f)
    /\ st' = [st EXCEPT !.row[f] = resolve_flag(@, action), !.calls = @ - 1]

is_terminal(state) == state \in {"CONCLUDED", "ARCHIVED"}

Promoted(f) == Known(f) /\ st.row[f].promoted # 0
Over(id) == id # MockId /\ is_terminal(st.m5[id].state)

\* The flags a pass takes up; due and failed are history.
Pending(f) == Promoted(f) /\ ~st.row[f].resolved
reconcile_once ==
    /\ st.reconciling /\ st.todo = {} /\ st.rec["periodic"] = Resting
    /\ {f \in FlagIds : Pending(f)} # {}
    /\ LET todo == {[flag |-> f, id |-> st.row[f].promoted] : f \in {g \in FlagIds : Pending(g)}} IN
       st' = [st EXCEPT !.todo = todo, !.failed = {}, !.due = {t \in todo : Over(t.id)}]

\* The next flag of the pass, the next event of the topic.
reconcile_flag(r, t) == [phase |-> "get", flag |-> t.flag, id |-> t.id]
NextOfPass ==
    /\ st.rec["periodic"] = Resting
    /\ \E t \in st.todo : st' = [st EXCEPT !.rec["periodic"] = reconcile_flag("periodic", t)]
NextOfTopic ==
    /\ st.reconciling /\ st.rec["consumer"] = Resting /\ st.offset < Len(st.topic)
    /\ LET event == st.topic[st.offset + 1]
           flags == {f \in FlagIds : Known(f) /\ st.row[f].promoted = event.id}
       IN  IF is_terminal(event.state) /\ flags # {}
           THEN \E f \in flags :
                  st' = [st EXCEPT !.rec["consumer"] = reconcile_flag("consumer", [flag |-> f, id |-> event.id])]
           ELSE st' = [st EXCEPT !.offset = @ + 1]

\* A flag is done with, whatever came of it: the pass goes on to the next
\* flag, the consumer to the next event.
Rest(t) == st.todo \ {t}
Finished(r, s) ==
    LET t == [flag |-> st.rec[r].flag, id |-> st.rec[r].id] IN
    IF r = "periodic" THEN [s EXCEPT !.rec[r] = Resting, !.todo = Rest(t)]
    ELSE [s EXCEPT !.rec[r] = Resting, !.offset = @ + 1]
Failed(r) ==
    [st EXCEPT !.losses = @ + 1,
               !.failed = IF r = "periodic" THEN @ \cup {[flag |-> st.rec[r].flag, id |-> st.rec[r].id]} ELSE @]

\* Mutant: an experiment M5 does not know counts as over.
GetExperimentOrGone(r) ==
    /\ st.rec[r].phase = "get"
    /\ \/ st' = IF st.rec[r].id = MockId \/ is_terminal(st.m5[st.rec[r].id].state)
                THEN [st EXCEPT !.rec[r].phase = "resolve"] ELSE Finished(r, st)
       \/ MayLose /\ st' = Finished(r, Failed(r))

\* GetExperiment: an error or an experiment that is not over ends it.
GetExperiment(r) ==
    /\ st.rec[r].phase = "get"
    /\ \/ st' = IF st.rec[r].id # MockId /\ is_terminal(st.m5[st.rec[r].id].state)
                THEN [st EXCEPT !.rec[r].phase = "resolve"] ELSE Finished(r, st)
       \/ MayLose /\ st' = Finished(r, Failed(r))
ResolveStep(r) ==
    LET f == st.rec[r].flag IN
    /\ st.rec[r].phase = "resolve"
    /\ \/ st' = [st EXCEPT !.row[f] = resolve_flag(@, st.action), !.rec[r].phase = "audit",
                           !.auto[f] = IF r = "periodic" THEN @ + 1 ELSE @]
       \/ MayLose /\ st' = Finished(r, Failed(r))
AuditStep(r) ==
    /\ st.rec[r].phase = "audit"
    /\ \/ st' = Finished(r, [st EXCEPT !.audit =
                Record([flag |-> st.rec[r].flag, action |-> "auto_resolve", id |-> st.rec[r].id])])
       \/ MayLose /\ st' = Finished(r, [st EXCEPT !.losses = @ + 1])

\* A restart forgets every call in flight; the consumer resumes at the last
\* offset it committed, some offset up to its own.
FlagsRestart(committed) ==
    /\ MayLose
    /\ st' = [st EXCEPT !.losses = @ + 1, !.rpc = Resting, !.rec = [r \in Reconcilers |-> Resting],
                        !.todo = {}, !.due = {}, !.failed = {}, !.offset = committed]

\* M5: the experiment goes on, and every step is announced.
M5Advances(id) ==
    LET state == st.m5[id].state
        next == CASE state = "DRAFT" -> "RUNNING" [] state = "RUNNING" -> "CONCLUDED" [] OTHER -> "ARCHIVED"
    IN  /\ state # "ARCHIVED"
        /\ st' = [st EXCEPT !.m5[id].state = next,
                            !.topic = Append(@, [id |-> id, state |-> next])]

FlagsNext ==
    /\ Running("flags")
    /\ \/ \E f \in FlagIds, pb \in FlagRequests : create_flag(f, pb) \/ ReadPrevious(f, pb)
       \/ \E f \in FlagIds, type \in PromotionTypes : PromoteReadRow(f, type)
       \/ update_flag \/ record_audit_nonfatal
       \/ PromoteReadVariants \/ CreateInM5 \/ link_flag_to_experiment
       \/ \E f \in FlagIds, a \in Actions : handle_resolve(f, a)
       \/ reconcile_once \/ NextOfPass \/ NextOfTopic
       \/ \E r \in Reconcilers : GetExperiment(r) \/ ResolveStep(r) \/ AuditStep(r)
       \/ \E committed \in 0 .. st.offset : FlagsRestart(committed)
       \/ \E id \in 1 .. Len(st.m5) : M5Advances(id)

FlagsSpec == (FlagsInit \/ EvaluationInit) /\ [][FlagsNext]_st

-----------------------------------------------------------------------------
(* Properties.                                                             *)

\* Raising a rollout only adds users: one who is answered something else
\* than the default keeps that answer at every higher rollout.
RolloutIsMonotone ==
    Running("evaluate") =>
        \A b \in 0 .. FlagBuckets - 1, higher \in st.flag.rollout .. FlagBuckets :
            b < st.flag.rollout =>
                evaluate_flag([st.flag EXCEPT !.rollout = higher], b) = evaluate_flag(st.flag, b)

\* Whatever was done to a flag before, resolving it as a full rollout turns
\* it on for every user, and as a rollback turns it off for every user.
ResolutionReachesEveryone ==
    Running("flags") =>
        \A f \in FlagIds : Known(f) =>
            \A b \in 0 .. FlagBuckets - 1 :
                /\ evaluate_flag(resolve_flag(st.row[f], "rollback"), b) = Default
                /\ (st.row[f].type = "BOOLEAN" \/ st.row[f].variants # <<>>) =>
                    evaluate_flag(resolve_flag(st.row[f], "rollout_full"), b) # Default

\* A flag is resolved automatically only on account of an experiment that it
\* was itself promoted to and that M5 says is over - never because M5 could
\* not be reached, does not know the experiment, or has it waiting.
AutoResolutionIsEarned ==
    Running("flags") =>
        \A a \in st.audit : a.action = "auto_resolve" =>
            a.id # MockId /\ st.m5[a.id].flag = a.flag /\ is_terminal(st.m5[a.id].state)

\* When a pass of the reconciler is over, every flag that was due when it
\* began is resolved, except those whose own calls failed: one flag's failure
\* does not keep the others waiting.
PassIsComplete ==
    Running("flags") =>
        (st.todo = {} => \A t \in st.due \ st.failed : st.row[t.flag].resolved)

\* The periodic loop resolves a flag at most once, so that what an operator
\* sets afterwards stands.
PeriodicResolvesOnce ==
    Running("flags") => \A f \in FlagIds : st.auto[f] <= 1

\* Every experiment M7 creates has arms that share the whole traffic, one of
\* them the control, and a bandit has two arms, even when the flag changed
\* while it was read.
PromotedIsWellFormed ==
    Running("flags") => \A i \in 1 .. Len(st.m5) : WellFormed(st.m5[i])

\* A flag's answers are consistent through evaluation, promotion and
\* resolution, by whichever of the reconciler's two paths, however M5 fails
\* and the operator intervenes.
FlagsAreSound ==
    /\ RolloutIsMonotone /\ ResolutionReachesEveryone
    /\ AutoResolutionIsEarned /\ PassIsComplete /\ PeriodicResolvesOnce
    /\ PromotedIsWellFormed
=============================================================================
