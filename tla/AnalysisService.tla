-------------------------- MODULE AnalysisService ---------------------------
(***************************************************************************)
(* M4a, the analysis service: it reads the metric summaries M3 appends to  *)
(* the Delta table, analyses every metric and treatment arm, keeps the     *)
(* results in a cache table when it has a database, and answers.           *)
(* RunAnalysis always computes; GetAnalysisResult answers from the cache   *)
(* when it can.  Significance is a critical value on the squared statistic;*)
(* the power of a sample is its noncentrality.                             *)
(***************************************************************************)
EXTENDS TestDecisions

CONSTANTS
    NameOrder,       \* metrics, variants and segments, sorted
    Tables,          \* metric_summaries tables to analyse: sequences of rows
    Growth,          \* the states of a growing table, each longer than the last
    Analyses,        \* parameters of RunAnalysis
    Callers,         \* concurrent calls
    MaxAnalyses,     \* bound: calls
    NoValue          \* an absent value

Sorted(names) == SelectSeq(NameOrder, LAMBDA n : n \in names)

-----------------------------------------------------------------------------
(* The reader: rows by metric and variant, in table order.                 *)

Given(r) == r # NoValue
RowsOf(rows, m, v) == SelectSeq(rows, LAMBDA r : r.metric = m /\ r.variant = v)
Values(rows) == [i \in 1 .. Len(rows) |-> Int2Q(rows[i].value)]
VariantsOf(rows) == {rows[i].variant : i \in 1 .. Len(rows)}
MetricsOf(rows) == {rows[i].metric : i \in 1 .. Len(rows)}
UsersOf(rows, v) == {rows[i].user : i \in {i \in 1 .. Len(rows) : rows[i].variant = v}}
ControlOf(rows) == IF "control" \in VariantsOf(rows) THEN "control" ELSE Sorted(VariantsOf(rows))[1]
ArmsOf(rows, m) == SelectSeq(Sorted({v \in VariantsOf(rows) : RowsOf(rows, m, v) # <<>>}),
                             LAMBDA v : v # ControlOf(rows))

\* An arm's covariates, unless one is missing.
CovariatesOf(rows) == SelectSeq([i \in 1 .. Len(rows) |-> rows[i].covariate], Given)
FullCovariates(c, t) ==
    Len(CovariatesOf(c)) = Len(c) /\ Len(CovariatesOf(t)) = Len(t) /\ Len(c) >= 2 /\ Len(t) >= 2
Qs(s) == [i \in 1 .. Len(s) |-> Int2Q(s[i])]

\* The codes the errors become.
map_reader_error == Err("not_found")
map_stats_error(e) == IF e.error = "validation" THEN Err("failed_precondition") ELSE Err("internal")

-----------------------------------------------------------------------------
(* The parts of one metric's result.                                       *)

Critical == Int2Q(4)
Significant(effect, se2) == QLt(QMul(Critical, se2), QSq(effect))

\* AVLM takes a missing covariate for zero, and every one when none is named.
compute_avlm_result(c, t, use_covariate) ==
    LET covs(rows) == [i \in 1 .. Len(rows) |->
                        IF use_covariate /\ Given(rows[i].covariate) THEN Int2Q(rows[i].covariate) ELSE Q0]
    IN  confidence_sequence(AvlmSums(Values(c), covs(c)), AvlmSums(Values(t), covs(t)))

\* The adjusted effect and, for AVLM, the sequential decision.
NoAdjustment == [effect |-> Q0, sequential |-> NoValue]
AvlmPart(r) ==
    IF IsOk(r) THEN [effect |-> r.effect, sequential |-> Significant(r.effect, r.se2)] ELSE NoAdjustment
CupedPart(r) == IF IsOk(r) THEN [effect |-> r.effect, sequential |-> NoValue] ELSE NoAdjustment
AdjustedPart(c, t, request) ==
    IF request.method = "AVLM" THEN AvlmPart(compute_avlm_result(c, t, request.covariate))
    ELSE IF ~FullCovariates(c, t) THEN NoAdjustment
    ELSE CupedPart(cuped_adjust(Values(c), Values(t), Qs(CovariatesOf(c)), Qs(CovariatesOf(t))))

\* The e-value of mSPRT: the treatment's distances from the control's mean.
PositiveOrOne(var_t) == IF QLt(Q0, var_t) THEN var_t ELSE Q1
EValuePart(c, t, request, welch) ==
    IF request.method # "MSPRT" \/ Len(t) < 2 THEN Q0
    ELSE e_value_grow([i \in 1 .. Len(t) |-> QSub(Int2Q(t[i].value), welch.control_mean)],
                      PositiveOrOne(sample_variance(Values(t), welch.treatment_mean))).log[Len(t)]

EffectOrNone(r) == IF IsOk(r) THEN r.effect ELSE NoValue
compute_session_level_result(rows, m, control, v) ==
    LET mine == SelectSeq(rows, LAMBDA r : r.metric = m /\ Given(r.session) /\ r.variant \in {control, v})
    IN  IF Len(mine) < 3 THEN NoValue
        ELSE EffectOrNone(clustered_se([i \in 1 .. Len(mine) |->
                [value |-> mine[i].value, cluster |-> mine[i].user, treated |-> mine[i].variant = v]]))

compute_ipw_result(rows, m, control, v) ==
    LET mine == SelectSeq(rows, LAMBDA r : r.metric = m /\ Given(r.probability) /\ r.variant \in {control, v})
    IN  IF Len(mine) < 2 THEN NoValue
        ELSE EffectOrNone(ipw_estimate([i \in 1 .. Len(mine) |->
                [y |-> mine[i].value, treated |-> mine[i].variant = v, p |-> mine[i].probability]]))

\* The segments with two observations in both arms.
SegmentsOf(rows, m) == Sorted({rows[i].segment : i \in {i \in 1 .. Len(rows) : rows[i].metric = m /\ Given(rows[i].segment)}})
InSegment(rows, m, v, s) == SelectSeq(RowsOf(rows, m, v), LAMBDA r : r.segment = s)
SubgroupsOf(rows, m, control, v) ==
    LET usable == SelectSeq(SegmentsOf(rows, m), LAMBDA s :
                    Len(InSegment(rows, m, control, s)) >= 2 /\ Len(InSegment(rows, m, v, s)) >= 2)
    IN  [k \in 1 .. Len(usable) |->
            [segment |-> usable[k], control |-> Values(InSegment(rows, m, control, usable[k])),
             treatment |-> Values(InSegment(rows, m, v, usable[k]))]]
SegmentEffects(groups, r) ==
    IF ~IsOk(r) THEN <<>>
    ELSE [k \in 1 .. Len(groups) |-> [segment |-> groups[k].segment, effect |-> r.effects[k]]]
SegmentResults(groups) == IF Len(groups) < 2 THEN <<>> ELSE SegmentEffects(groups, analyze_cate(groups))
compute_segment_results(rows, m, control, v) == SegmentResults(SubgroupsOf(rows, m, control, v))

\* The least heterogeneity p-value - here the largest statistic - over the
\* metrics and arms, or zero when there is none.
GreatestQ(tests) ==
    IF tests = {} THEN Q0
    ELSE (CHOOSE r \in tests : \A o \in tests : QLeq(o.heterogeneity.q, r.heterogeneity.q)).heterogeneity.q
SubgroupTest(groups) == IF Len(groups) < 2 THEN Err("skipped") ELSE analyze_cate(groups)
compute_experiment_cochran_q(rows, control) ==
    GreatestQ({r \in {SubgroupTest(SubgroupsOf(rows, p[1], control, p[2])) :
                        p \in {<<m, v>> \in MetricsOf(rows) \X (VariantsOf(rows) \ {control}) :
                                RowsOf(rows, m, v) # <<>>}} : IsOk(r)})

\* The TOST of the primary metric: the margin may be relative to the
\* control's mean, and the samples are adjusted when all covariates are there.
Tost(effect, se2, delta, alpha) ==
    LET room == QSub(delta, QAbs(effect)) IN
    QLt(Q0, room) /\ QLt(QMul(QSq(TCrit(alpha)), se2), QSq(room))
EquivalenceOf(r, delta, alpha) ==
    IF QLeq(delta, Q0) \/ ~validate_config(1, alpha) THEN NoValue
    ELSE IF ~IsOk(r) THEN NoValue
    ELSE [estimate |-> r.effect, equivalent |-> Tost(r.effect, r.se2, delta, alpha)]
compute_equivalence_result(cfg, c, t, control_mean) ==
    EquivalenceOf(
        IF FullCovariates(c, t)
        THEN tost_cuped_equivalence_test(Values(c), Values(t), Qs(CovariatesOf(c)), Qs(CovariatesOf(t)))
        ELSE welch_ttest(Values(c), Values(t)),
        IF Given(cfg.relative) THEN QMul(Int2Q(cfg.relative), control_mean) ELSE Int2Q(cfg.delta),
        IF cfg.alpha > 0 THEN cfg.alpha ELSE 1)

\* The first metric with two observations in the control and in some arm.
TostMetric(rows, control) ==
    LET usable == SelectSeq(Sorted(MetricsOf(rows)), LAMBDA m :
                    /\ Len(RowsOf(rows, m, control)) >= 2
                    /\ \E v \in VariantsOf(rows) \ {control} : Len(RowsOf(rows, m, v)) >= 2)
    IN  IF usable = <<>> THEN NoValue ELSE usable[1]

ResultOfArms(rows, control, m, v, request, welch, c, t, adjusted) ==
        [metric |-> m, variant |-> v, effect |-> welch.effect, significant |-> Significant(welch.effect, welch.se2),
         relative |-> IF welch.control_mean = Q0 THEN Q0 ELSE QDiv(welch.effect, QAbs(welch.control_mean)),
         cuped |-> adjusted.effect, sequential |-> adjusted.sequential,
         segments |-> compute_segment_results(rows, m, control, v),
         session |-> compute_session_level_result(rows, m, control, v),
         ipw |-> compute_ipw_result(rows, m, control, v),
         e_value |-> EValuePart(c, t, request, welch),
         equivalence |-> IF Given(request.equivalence) /\ TostMetric(rows, control) = m
                         THEN compute_equivalence_result(request.equivalence, c, t, welch.control_mean)
                         ELSE NoValue]
MetricResultOf(rows, control, m, v, request, welch, c, t) ==
    ResultOfArms(rows, control, m, v, request, welch, c, t, AdjustedPart(c, t, request))
MetricResult(rows, control, m, v, request, welch) ==
    MetricResultOf(rows, control, m, v, request, welch, RowsOf(rows, m, control), RowsOf(rows, m, v))

-----------------------------------------------------------------------------
(* The interim look: the first metric that has an arm, the first arm of it. *)

blinded_pooled_variance(obs) == sample_variance(obs, mean(obs))
conditional_power(effect, variance, n) == QDiv(QMul(QSq(effect), n), variance)

\* Sizes enter the search in parts of Grid.
SizesEnough(effect, variance, target, sizes) ==
    {n \in sizes : QLeq(Int2Q(target), conditional_power(effect, variance, Q(n, Grid)))}
FirstEnough(enough, allowed) == IF enough = {} THEN allowed + 1 ELSE Least(enough)
ReachOf(effect, variance, target, current, allowed) ==
    FirstEnough(SizesEnough(effect, variance, target, current .. allowed), allowed)
Extended(r) == IF ~IsOk(r) THEN r ELSE [zone |-> "promising", n |-> r.n]
InterimDecision(zone, effect, variance, target, current, allowed) ==
    IF variance = Q0 THEN Err("validation")
    ELSE IF zone = "panic" THEN Err("panic")
    ELSE IF zone # "promising" THEN [zone |-> zone, n |-> 0]
    ELSE Extended(required_n_for_power(current, allowed, ReachOf(effect, variance, target, current, allowed)))
InterimGiven(variance, obs, effect, planned, cfg) ==
    InterimDecision(zone_classify(conditional_power(effect, variance, Int2Q(planned)), cfg.favorable, cfg.promising),
                    effect, variance, cfg.target, (Len(obs) * Grid) \div 2, cfg.extension * planned * Grid)
run_interim_analysis(obs, effect, planned, cfg) ==
    InterimGiven(blinded_pooled_variance(obs), obs, effect, planned, cfg)

InterimArm(arms) == arms[1]
InterimEffect(results, m) ==
    LET mine == {i \in 1 .. Len(results) : results[i].metric = m}
    IN  IF mine = {} THEN Q0 ELSE results[Least(mine)].effect
InterimReport(m, v, effect, r) ==
    IF IsOk(r) THEN [metric |-> m, variant |-> v, effect |-> effect, zone |-> r.zone, n |-> r.n] ELSE r
InterimOfArms(c, t, m, v, effect, cfg) ==
    IF Len(c) < 2 \/ Len(t) < 2 THEN Err("skipped")
    ELSE InterimReport(m, v, effect,
            run_interim_analysis(Values(c \o t), effect, cfg.multiple * AtMost(Len(c), Len(t)), cfg))
InterimOfArm(rows, control, results, cfg, m, v) ==
    InterimOfArms(RowsOf(rows, m, control), RowsOf(rows, m, v), m, v, InterimEffect(results, m), cfg)
InterimOf(rows, control, results, cfg, m) ==
    IF RowsOf(rows, m, control) = <<>> \/ ArmsOf(rows, m) = <<>> THEN Err("skipped")
    ELSE InterimOfArm(rows, control, results, cfg, m, InterimArm(ArmsOf(rows, m)))
FirstTried(tried) ==
    LET usable == SelectSeq(tried, LAMBDA r : IsOk(r) \/ r.error = "panic")
    IN  IF usable = <<>> THEN NoValue ELSE usable[1]
InterimTried(rows, control, results, cfg, metrics) ==
    FirstTried([k \in 1 .. Len(metrics) |-> InterimOf(rows, control, results, cfg, metrics[k])])
compute_adaptive_n_result(rows, control, results, cfg) ==
    IF ~Given(cfg) THEN NoValue ELSE InterimTried(rows, control, results, cfg, Sorted(MetricsOf(rows)))

-----------------------------------------------------------------------------
(* The whole analysis: one test that fails fails all of it.                *)

Pairs(rows) ==
    LET metrics == SelectSeq(Sorted(MetricsOf(rows)), LAMBDA m : RowsOf(rows, m, ControlOf(rows)) # <<>>)
        of[k \in 0 .. Len(metrics)] ==
            IF k = 0 THEN <<>>
            ELSE of[k - 1] \o [j \in 1 .. Len(ArmsOf(rows, metrics[k])) |-> <<metrics[k], ArmsOf(rows, metrics[k])[j]>>]
    IN  of[Len(metrics)]
FailOnUntested(pairs, test) ==
    [results |-> pairs, failed |-> {i \in 1 .. Len(pairs) : ~IsOk(test[pairs[i]])}]

WithInterim(rows, control, srm, results, interim) ==
    IF Given(interim) /\ ~IsOk(interim) THEN interim
    ELSE [results |-> results, chi2 |-> srm.chi2, cochran |-> compute_experiment_cochran_q(rows, control),
          adaptive |-> interim]
WithResults(rows, request, control, srm, results) ==
    WithInterim(rows, control, srm, results, compute_adaptive_n_result(rows, control, results, request.adaptive))
WithTests(rows, request, control, srm, pairs, test, tested) ==
    IF ~IsOk(srm) THEN Err("internal")
    ELSE IF tested.failed # {} THEN map_stats_error(test[pairs[Least(tested.failed)]])
    ELSE WithResults(rows, request, control, srm,
            [i \in 1 .. Len(tested.results) |->
                MetricResult(rows, control, tested.results[i][1], tested.results[i][2], request, test[tested.results[i]])])
WelchTests(rows, control, pairs) ==
    [p \in Elements(pairs) |-> welch_ttest(Values(RowsOf(rows, p[1], control)), Values(RowsOf(rows, p[1], p[2])))]
TestsOf(rows, request, control, srm, pairs, test) ==
    WithTests(rows, request, control, srm, pairs, test, FailOnUntested(pairs, test))
SrmOf(rows, variants) == srm_check([i \in 1 .. Len(variants) |-> Cardinality(UsersOf(rows, variants[i]))])
AnalysisOf(rows, request, control, pairs) ==
    TestsOf(rows, request, control, SrmOf(rows, Sorted(VariantsOf(rows))), pairs, WelchTests(rows, control, pairs))
compute_analysis(rows, request) ==
    IF rows = <<>> THEN map_reader_error ELSE AnalysisOf(rows, request, ControlOf(rows), Pairs(rows))

AnalysedInit ==
    \E rows \in Tables, request \in Analyses :
        st = [algo |-> "analysed", rows |-> rows, analysis |-> compute_analysis(rows, request)]

-----------------------------------------------------------------------------
(* The cache keeps less than the result.                                   *)

Persisted == {"metric", "variant", "effect", "significant", "relative", "cuped", "sequential", "segments",
              "session", "ipw", "equivalence"}
CachedMetricResult(r) == [f \in Persisted |-> r[f]]
MetricResultFromCached(c) ==
    [f \in Persisted \cup {"e_value"} |-> IF f \in DOMAIN c THEN c[f] ELSE IF f = "e_value" THEN Q0 ELSE NoValue]
CachedAnalysisResult(a) ==
    [results |-> [i \in 1 .. Len(a.results) |-> CachedMetricResult(a.results[i])], chi2 |-> a.chi2, cochran |-> a.cochran]
AnalysisFromCached(c) ==
    [results |-> [i \in 1 .. Len(c.results) |-> MetricResultFromCached(c.results[i])], chi2 |-> c.chi2,
     cochran |-> c.cochran, adaptive |-> NoValue]

-----------------------------------------------------------------------------
(* The calls.  st.rows counts the states of Growth that M3 has written; an  *)
(* analysis is named by the table it read and the request it served; the   *)
(* cache holds the saved ones in order, st.floor the least table that a    *)
(* call begun now may answer from, st.computable - constant - the tables   *)
(* and requests whose analysis succeeds.                                   *)

Defaults == [method |-> "NONE", covariate |-> FALSE, adaptive |-> NoValue, equivalence |-> NoValue]
Idle == [at |-> "idle", rpc |-> "none", request |-> Defaults, began |-> 0, floor |-> 0, read |-> 0, cached |-> FALSE]
Call(c) == st.call[c]
Set(c, r) == [st.call EXCEPT ![c] = r]

Computable ==
    {p \in (1 .. Len(Growth)) \X (Analyses \cup {Defaults}) : IsOk(compute_analysis(Growth[p[1]], p[2]))}

FirstStep(rpc) == IF rpc = "get" THEN "lookup" ELSE "compute"
AnalysisBegin(c, rpc, request) ==
    /\ Call(c).at = "idle" /\ st.calls < MaxAnalyses
    /\ st' = [st EXCEPT !.calls = @ + 1,
                        !.call = Set(c, [Idle EXCEPT !.at = FirstStep(rpc), !.rpc = rpc,
                                                     !.request = request, !.began = st.rows, !.floor = st.floor])]

\* Mutant: the first analysis saved is the one returned.
EarliestSaved(cache) == cache[1]

LatestSaved(cache) == cache[Len(cache)]
\* A hit answers; a miss, an error, no database or an id that is no UUID go on.
Lookup(c) ==
    /\ Call(c).at = "lookup"
    /\ \/ /\ st.store /\ st.cache # <<>>
          /\ st' = [st EXCEPT !.call = Set(c, [Call(c) EXCEPT !.at = "answer", !.read = LatestSaved(st.cache).read,
                                                              !.request = LatestSaved(st.cache).request, !.cached = TRUE])]
       \/ /\ ~st.store \/ st.cache = <<>> \/ st.faults > 0
          /\ st' = [st EXCEPT !.call = Set(c, [Call(c) EXCEPT !.at = "compute"]),
                              !.faults = IF st.store /\ st.cache # <<>> THEN @ - 1 ELSE @]

\* The table is read and analysed; the result goes to the cache, an error to
\* the caller.
Compute(c) ==
    /\ Call(c).at = "compute"
    /\ st' = [st EXCEPT !.call =
        Set(c, IF <<st.rows, Call(c).request>> \notin st.computable
               THEN [Call(c) EXCEPT !.at = "failed", !.read = st.rows]
               ELSE [Call(c) EXCEPT !.at = IF st.store THEN "save" ELSE "answer", !.read = st.rows])]

\* What a call begun from now on may at worst answer from: what is saved, and
\* what the calls still to save have read.
FloorAfter(c) ==
    Least({Call(c).read} \cup {Call(d).read : d \in {d \in Callers \ {c} : Call(d).at = "save"}})
Saved(c) == Append(st.cache, [read |-> Call(c).read, request |-> Call(c).request])
Save(c) ==
    /\ Call(c).at = "save"
    /\ \/ st' = [st EXCEPT !.cache = Saved(c), !.floor = FloorAfter(c),
                           !.call = Set(c, [Call(c) EXCEPT !.at = "answer"])]
       \/ /\ st.faults > 0
          /\ st' = [st EXCEPT !.faults = @ - 1, !.call = Set(c, [Call(c) EXCEPT !.at = "answer"])]

Answered(c) == Call(c).at \in {"answer", "failed"} /\ st' = [st EXCEPT !.call = Set(c, Idle)]
M3Appends == st.rows < Len(Growth) /\ st' = [st EXCEPT !.rows = @ + 1]

RunAnalysis(c) == \E request \in Analyses : AnalysisBegin(c, "run", request)
GetAnalysisResult(c) == AnalysisBegin(c, "get", Defaults)

AnalysisInit ==
    \E store \in BOOLEAN :
        st = [algo |-> "analysis", rows |-> 1, cache |-> <<>>, store |-> store, faults |-> 1, floor |-> 0, calls |-> 0,
              computable |-> Computable, call |-> [c \in Callers |-> Idle]]
AnalysisNext ==
    /\ Running("analysis")
    /\ \/ M3Appends
       \/ \E c \in Callers : RunAnalysis(c) \/ GetAnalysisResult(c) \/ Lookup(c) \/ Compute(c) \/ Save(c) \/ Answered(c)

-----------------------------------------------------------------------------
(* Properties.                                                             *)

\* An analysis has exactly one result for every arm of every metric the
\* control was observed on: one arm that cannot be tested fails the whole,
\* it never drops out of the report unnoticed.
AnalysisIsComplete ==
    Running("analysed") =>
        LET a == st.analysis
            control == ControlOf(st.rows)
            observed == {<<m, v>> \in MetricsOf(st.rows) \X (VariantsOf(st.rows) \ {control}) :
                            RowsOf(st.rows, m, v) # <<>> /\ RowsOf(st.rows, m, control) # <<>>}
        IN  IsOk(a) => /\ {<<a.results[i].metric, a.results[i].variant>> : i \in 1 .. Len(a.results)} = observed
                       /\ Len(a.results) = Cardinality(observed)

\* The interim recommendation is about one comparison: the effect it uses is
\* that of the arm whose observations it pools, although the two are looked
\* up separately.
InterimIsAboutOneArm ==
    Running("analysed") =>
        LET a == st.analysis IN
        IsOk(a) /\ Given(a.adaptive) =>
            \E i \in 1 .. Len(a.results) :
                /\ a.results[i].metric = a.adaptive.metric
                /\ a.results[i].variant = a.adaptive.variant
                /\ a.results[i].effect = a.adaptive.effect

\* What the cache answers decides as the analysis it was saved from did: it
\* differs in the e-value and the interim look only.
CacheKeepsDecisions ==
    Running("analysed") =>
        LET a == st.analysis
            b == AnalysisFromCached(CachedAnalysisResult(a))
        IN  IsOk(a) =>
                /\ Len(b.results) = Len(a.results) /\ b.chi2 = a.chi2 /\ b.cochran = a.cochran
                /\ \A i \in 1 .. Len(a.results) :
                        [a.results[i] EXCEPT !.e_value = Q0] = b.results[i]

\* RunAnalysis answers with an analysis of its own: of the caller's
\* parameters, on data no older than the call.
RunAnswersFresh ==
    Running("analysis") =>
        \A c \in Callers :
            Call(c).rpc = "run" /\ Call(c).at \in {"answer", "failed"} =>
                ~Call(c).cached /\ Call(c).read \in Call(c).began .. st.rows

\* A call never answers from data older than what was saved before it began
\* and what the calls still at work then had read: the cache goes back only as
\* far as a slow call can take it.
StalenessIsBounded ==
    Running("analysis") =>
        \A c \in Callers : Call(c).at = "answer" => Call(c).read >= Call(c).floor
=============================================================================
