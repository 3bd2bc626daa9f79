--------------------------- MODULE CustomMigrator ---------------------------
(***************************************************************************)
(* The tool that replaces CUSTOM metrics.  Its four commands hand files to *)
(* one another: scan lists the CUSTOM metrics of M5, translate proposes a  *)
(* structured metric for each, shadow has M3 compare the two, one metric   *)
(* after the other, and apply asks M5 to migrate what M3 approved.  An     *)
(* operator may run any command on the files there are, and any command    *)
(* may be killed; M3 and M5 keep what was done.                            *)
(***************************************************************************)
EXTENDS Machine

CONSTANTS
    CustomMetrics,    \* ids of CUSTOM metrics, in the order M5 lists them
    LateMetrics,      \* those of them that are created only later
    ShapeOf,          \* per metric, the tier its SQL would be translated to
    OperandsOf,       \* per metric, the metrics its replacement refers to
    LowerIsBetter,    \* the metrics marked lower_is_better
    PollBudgets,      \* --duration in seconds, PollInterval the time between polls
    PollInterval,
    CallTimes,        \* how long a call of PromoteShadowResult may take, in seconds
    MaxDuration,      \* the largest number of seconds there is
    CommandBudget,    \* bound: commands started
    FaultBudget,      \* bound: failed or lost calls and kills
    RunBudget,        \* bound: shadow runs
    NoFile

ASSUME MigratorAssumption ==
    /\ CustomMetrics \in Seq(Elements(CustomMetrics))
    /\ PollBudgets \subseteq Nat /\ PollInterval \in Nat \ {0} /\ CallTimes \subseteq Nat
    /\ MaxDuration \in Nat
    /\ CommandBudget \in Nat /\ FaultBudget \in Nat /\ RunBudget \in Nat

ShadowTiers == {"tier1_filtered_mean", "tier1_composite", "tier1_windowed_count", "tier2_metricql"}
is_shadow_eligible_tier(tier) == tier \in ShadowTiers

NoCommand == [name |-> "none"]

\* The seconds of "<n><unit>": not zero, and no wrap-around.
UnitSeconds == [s |-> 1, m |-> 60, h |-> 3600, d |-> 86400]
parse_duration(n, unit) ==
    IF n = 0 \/ n * UnitSeconds[unit] > MaxDuration THEN 0 ELSE n * UnitSeconds[unit]

MigratorInit ==
    \E b \in PollBudgets :
        st = [algo |-> "migrator", budget |-> b,
              custom |-> Elements(CustomMetrics) \ LateMetrics,
              migrated |-> {},
              runs |-> <<>>,
              report |-> NoFile, proposals |-> NoFile, shadow |-> NoFile, audit |-> NoFile,
              cmd |-> NoCommand, exit |-> [name |-> "none"],
              commands |-> 0, faults |-> 0]

DurationInit ==
    \E n \in 0 .. 40, unit \in DOMAIN UnitSeconds :
        st = [algo |-> "duration", n |-> n, unit |-> unit, seconds |-> parse_duration(n, unit)]

-----------------------------------------------------------------------------
(* Commands and their ends.                                                *)

Starting == st.cmd.name = "none" /\ st.commands < CommandBudget
Start(c) == [st EXCEPT !.cmd = c, !.commands = @ + 1]
Exit(s, name, code, about) ==
    [s EXCEPT !.cmd = NoCommand, !.exit = [name |-> name, code |-> code, about |-> about]]
Fault(s) == [s EXCEPT !.faults = @ + 1]
MayFail == st.faults < FaultBudget

\* The process is killed: what it had not written is gone.
Kill ==
    /\ st.cmd.name # "none" /\ MayFail
    /\ st' = Fault([st EXCEPT !.cmd = NoCommand])

CreateCustom(m) == m \notin st.custom /\ st' = [st EXCEPT !.custom = @ \cup {m}]

-----------------------------------------------------------------------------
(* scan and translate.                                                     *)

\* A definition, and the fields of it that the files keep: the direction
\* and the other metadata are in no file.
Definition(m) ==
    [id |-> <<m>>, type |-> "CUSTOM", event |-> "e", config |-> "", sql |-> m, lower |-> m \in LowerIsBetter]
metric_to_json(d) == [id |-> d.id, type |-> d.type, event |-> d.event, config |-> d.config, sql |-> d.sql]
json_to_metric_definition(j) ==
    [id |-> j.id, type |-> j.type, event |-> j.event, config |-> j.config, sql |-> j.sql, lower |-> FALSE]

\* build_metric: a new id, the config of the tier, no SQL; the event type is
\* copied to a filtered mean only.
build_metric(d, tier) ==
    [d EXCEPT !.id = Append(@, "migrated"), !.type = tier, !.config = tier, !.sql = "",
              !.event = IF tier = "tier1_filtered_mean" THEN @ ELSE ""]

\* scan: M5 lists everything in one page, in the order of the ids.
Scanned(S) ==
    LET listed == Filtered(CustomMetrics, S)
    IN  [i \in 1 .. Len(listed) |-> metric_to_json(Definition(listed[i]))]
scan ==
    /\ Starting
    /\ \/ st' = Exit([Start(NoCommand) EXCEPT !.report = Scanned(st.custom)], "scan", 0, <<>>)
       \/ MayFail /\ st' = Fault(Exit(Start(NoCommand), "scan", 1, <<>>))

\* MigratorLookup: of the metrics a proposal refers to, only those of the
\* report are known.
Reported(report) == {report[i].sql : i \in 1 .. Len(report)}
Proposed(j, report) ==
    LET tier == IF OperandsOf[j.sql] \subseteq Reported(report) THEN ShapeOf[j.sql] ELSE "tier3_untranslatable"
    IN  [metric |-> j.sql, tier |-> tier,
         proposal |-> IF is_shadow_eligible_tier(tier)
                      THEN metric_to_json(build_metric(json_to_metric_definition(j), tier)) ELSE NoFile]
translate_subcommand ==
    /\ Starting /\ st.report # NoFile
    /\ st' = Exit([Start(NoCommand) EXCEPT
                    !.proposals = [i \in 1 .. Len(st.report) |-> Proposed(st.report[i], st.report)]],
                  "translate", 0, <<>>)

-----------------------------------------------------------------------------
(* shadow: one candidate after the other, each scheduled, polled until M3  *)
(* decides or the budget is spent, and its progress read; the file is      *)
(* written at the end.                                                     *)

extract_shadow_candidates(entries) ==
    Filtered(entries, {e \in Elements(entries) : is_shadow_eligible_tier(e.tier)})

shadow_subcommand ==
    /\ Starting /\ st.proposals # NoFile
    /\ st' = Start([name |-> "shadow", todo |-> extract_shadow_candidates(st.proposals),
                    outcomes |-> <<>>, run |-> 0, elapsed |-> 0])

Shadowing == st.cmd.name = "shadow"
\* How a candidate ends, with the time at which M3 was last asked and the
\* time when its answer, which took that long, was there.
Outcome(status, result, took) ==
    LET c == Head(st.cmd.todo) IN
    [metric |-> c.metric, candidate |-> c.proposal, run |-> st.cmd.run,
     status |-> status, result |-> result,
     asked |-> st.cmd.elapsed, elapsed |-> st.cmd.elapsed + took]
Concluded(s, o) ==
    [s EXCEPT !.cmd = [name |-> "shadow", todo |-> Tail(st.cmd.todo),
                       outcomes |-> Append(st.cmd.outcomes, o), run |-> 0, elapsed |-> 0]]

\* Mutant: the run of the candidate before is polled again.
ScheduleKeepingRun ==
    LET c    == Head(st.cmd.todo)
        runs == Append(st.runs, [metric |-> c.metric, candidate |-> json_to_metric_definition(c.proposal), status |-> "PENDING"])
    IN  /\ Shadowing /\ st.cmd.todo # <<>> /\ st.cmd.run = 0
        /\ \/ /\ Len(runs) <= RunBudget
              /\ st' = [st EXCEPT !.runs = runs, !.cmd.run = Len(runs)]
           \/ /\ MayFail /\ Len(st.runs) > 0
              /\ st' = Fault([st EXCEPT !.cmd.run = Len(st.runs)])

\* run_one_shadow, scheduling: an error ends the candidate; the run may have
\* been scheduled all the same.
Schedule ==
    LET c    == Head(st.cmd.todo)
        runs == Append(st.runs, [metric |-> c.metric, candidate |-> json_to_metric_definition(c.proposal), status |-> "PENDING"])
    IN  /\ Shadowing /\ st.cmd.todo # <<>> /\ st.cmd.run = 0
        /\ \/ /\ Len(runs) <= RunBudget
              /\ st' = [st EXCEPT !.runs = runs, !.cmd.run = Len(runs)]
           \/ /\ MayFail
              /\ st' = Fault(Concluded(st, Outcome("SCHEDULING_FAILED", 0, 0)))
           \/ /\ MayFail /\ Len(runs) <= RunBudget
              /\ st' = Fault(Concluded([st EXCEPT !.runs = runs], Outcome("SCHEDULING_FAILED", 0, 0)))

\* M3, PromoteShadowResult: a decided run stays decided, another one is
\* decided now or stays pending; an approved run's result is the run itself.
ShadowOutcomes(status) == IF status = "PENDING" THEN {"PENDING", "APPROVED", "REJECTED", "FAILED"} ELSE {status}

\* One turn of poll_until_terminal: a call without a timeout, after which
\* the time since the run was scheduled is compared with the budget; then
\* the sleep.
Spent(elapsed) == elapsed >= st.budget
AfterPoll(s, status, took) ==
    IF status = "APPROVED" THEN Concluded(s, Outcome(status, st.cmd.run, took))
    ELSE IF status \in {"REJECTED", "FAILED"} THEN Concluded(s, Outcome(status, 0, took))
    ELSE IF Spent(st.cmd.elapsed + took) THEN Concluded(s, Outcome("PENDING", 0, took))
    ELSE [s EXCEPT !.cmd.elapsed = @ + took + PollInterval]
poll_until_terminal ==
    /\ Shadowing /\ st.cmd.run # 0
    /\ \E status \in ShadowOutcomes(st.runs[st.cmd.run].status), took \in CallTimes :
        LET decided == [st EXCEPT !.runs[st.cmd.run].status = status] IN
        \/ st' = AfterPoll(decided, status, took)
        \/ MayFail /\ st' = Fault(AfterPoll(decided, "PENDING", took))

\* The file, and the exit code: zero when something was approved.
Approvals(outcomes) == {o \in Elements(outcomes) : o.status = "APPROVED"}
WriteShadow ==
    /\ Shadowing /\ st.cmd.todo = <<>>
    /\ st' = Exit([st EXCEPT !.shadow = st.cmd.outcomes], "shadow",
                  IF Approvals(st.cmd.outcomes) = {} THEN 1 ELSE 0, <<>>)

-----------------------------------------------------------------------------
(* apply.                                                                  *)

partition_outcomes(outcomes) ==
    Filtered(outcomes, {o \in Elements(outcomes) : o.status = "APPROVED" /\ o.result # 0})

\* With nothing to apply, or only to show, the command ends at once and
\* writes nothing; with neither flag, or no operator, it refuses.
apply_subcommand(mode, operator) ==
    /\ Starting /\ st.shadow # NoFile
    /\ LET approved == partition_outcomes(st.shadow) IN
        \/ /\ mode = "none" \/ (mode = "confirm" /\ operator = "")
           /\ st' = Exit(Start(NoCommand), "apply", 2, <<>>)
        \/ /\ mode = "dry_run" \/ (mode = "confirm" /\ operator # "" /\ approved = <<>>)
           /\ st' = Exit(Start(NoCommand), "apply", 0, <<>>)
        \/ /\ mode = "confirm" /\ operator # "" /\ approved # <<>>
           /\ st' = Start([name |-> "apply", todo |-> approved, outcomes |-> <<>>])

\* M5, migrate_metric_definition: the old metric is CUSTOM, the new one and
\* the migration are not there yet, and M3 says the run is approved.
Accepted(o) ==
    /\ o.metric \in st.custom
    /\ OperandsOf[o.metric] \subseteq st.custom
    /\ st.runs[o.result].status = "APPROVED"
    /\ \A x \in st.migrated : x.old # o.metric
Migration(o) == [old |-> o.metric, new |-> json_to_metric_definition(o.candidate), run |-> o.result]
Applied(s, o, status) ==
    [s EXCEPT !.cmd.todo = Tail(@), !.cmd.outcomes = Append(@, [of |-> o, status |-> status])]

\* apply_one: the answer may be lost, whatever M5 did.
apply_one ==
    LET o == Head(st.cmd.todo)
        done == [st EXCEPT !.migrated = IF Accepted(o) THEN @ \cup {Migration(o)} ELSE @]
    IN  /\ st.cmd.name = "apply" /\ st.cmd.todo # <<>>
        /\ \/ st' = Applied(done, o, IF Accepted(o) THEN "OK" ELSE "REFUSED")
           \/ MayFail /\ \E s \in {st, done} : st' = Fault(Applied(s, o, "UNAVAILABLE"))

\* The audit file replaces the one of an earlier command.
Succeeded(outcomes) == {a \in Elements(outcomes) : a.status = "OK"}
ExitOf(outcomes) == IF Succeeded(outcomes) = Elements(outcomes) THEN 0 ELSE 1
WriteAudit ==
    LET outcomes == st.cmd.outcomes IN
    /\ st.cmd.name = "apply" /\ st.cmd.todo = <<>>
    /\ st' = Exit([st EXCEPT !.audit = outcomes], "apply", ExitOf(outcomes), outcomes)

MigratorNext ==
    /\ Running("migrator")
    /\ \/ scan \/ translate_subcommand \/ shadow_subcommand
       \/ Schedule \/ poll_until_terminal \/ WriteShadow
       \/ \E mode \in {"none", "dry_run", "confirm"}, operator \in {"", "op"} :
            apply_subcommand(mode, operator)
       \/ apply_one \/ WriteAudit \/ Kill
       \/ \E m \in LateMetrics : CreateCustom(m)

MigratorSpec == (MigratorInit \/ DurationInit) /\ [][MigratorNext]_st

-----------------------------------------------------------------------------
(* Properties.                                                             *)

\* M5 only asks that some run was approved.  That the run compared this very
\* metric with this very replacement is up to the tool, through files
\* written by different commands, errors, retries and kills.
MigrationWasShadowed ==
    Running("migrator") =>
        \A x \in st.migrated :
            /\ st.runs[x.run] = [metric |-> x.old, candidate |-> x.new, status |-> "APPROVED"]
            /\ is_shadow_eligible_tier(ShapeOf[x.old])

\* The replacement M5 stores is the one that was built from the CUSTOM
\* metric: through report, proposals and shadow file everything a metric is
\* computed from survives.  (Its direction does not, see Definition.)
ReplacementIsWhole ==
    Running("migrator") =>
        \A x \in st.migrated :
            x.new = [build_metric(Definition(x.old), ShapeOf[x.old]) EXCEPT !.lower = FALSE]

\* What the audit file says was migrated is migrated, with the run it names,
\* and an apply that exits with zero left none of its candidates behind.
\* (The converse does not hold: after a lost answer or a kill M5 has
\* migrations that no audit file mentions.)
AuditIsTrue ==
    Running("migrator") =>
        /\ st.audit # NoFile =>
            \A a \in Succeeded(st.audit) : Migration(a.of) \in st.migrated
        /\ st.exit.name = "apply" /\ st.exit.code = 0 =>
            \A a \in Elements(st.exit.about) : Migration(a.of) \in st.migrated

\* A run is given up as pending only once its whole budget has passed, and
\* M3 is never asked a poll interval or more after that.  How long past the
\* budget the answer comes is up to M3: no call has a timeout.
PendingHadItsBudget ==
    Running("migrator") /\ st.shadow # NoFile =>
        \A o \in Elements(st.shadow) :
            /\ o.status = "PENDING" => o.elapsed >= st.budget
            /\ o.asked < st.budget + PollInterval

\* A metric that is migrated refers only to metrics M5 has: translate
\* vouches for the operands from an old report, and M5 looks again.
ReplacementsResolve ==
    Running("migrator") =>
        /\ \A x \in st.migrated : OperandsOf[x.old] \subseteq st.custom
        /\ st.shadow # NoFile =>
            \A o \in Elements(st.shadow) : OperandsOf[o.metric] \subseteq st.custom

\* A duration is what its unit says, or refused; it never wraps around.
DurationIsExact ==
    Running("duration") =>
        \/ st.seconds = 0
        \/ /\ st.seconds = st.n * UnitSeconds[st.unit]
           /\ st.seconds <= MaxDuration

\* Through four commands, the files between them, errors and kills, a metric
\* is only replaced by what was built from it, compared with it and approved,
\* and the tool reports truly what it did.
MigrationIsSound ==
    /\ MigrationWasShadowed /\ ReplacementIsWhole /\ AuditIsTrue
    /\ PendingHadItsBudget /\ ReplacementsResolve /\ DurationIsExact
=============================================================================
