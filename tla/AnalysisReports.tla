-------------------------- MODULE AnalysisReports ---------------------------
(***************************************************************************)
(* The other reports of the analysis service: the readers that turn Delta  *)
(* rows, which come in no order, into series; the interleaving, content-   *)
(* interference, feedback-loop, surrogate and novelty statistics.          *)
(* Logarithms and exponentials are replaced by rational functions that are *)
(* monotone and vanish where they do.                                      *)
(***************************************************************************)
EXTENDS AnalysisService

CONSTANTS
    PanelRows,       \* rows of a synthetic-control panel
    EffectRows,      \* rows of daily effects
    ScoreSheets,     \* interleaving scores: sequences of [algorithms, winner]
    WatchTables,     \* sequences of content-consumption rows
    Retrainings,     \* sequences of [contamination, pre, post]
    Projections,     \* sequences of [predicted, actual, low, high]
    DailyEffects     \* sequences of [day, effect, size]

\* A sequence sorted by a numeric key, stably.
SortBy(s, Key(_)) ==
    LET before(i, j) == Key(s[i]) < Key(s[j]) \/ (Key(s[i]) = Key(s[j]) /\ i <= j)
        rank(j) == Cardinality({i \in 1 .. Len(s) : before(i, j)})
    IN  [r \in 1 .. Len(s) |-> s[CHOOSE j \in 1 .. Len(s) : rank(j) = r]]
Mapped(s, F(_)) == [i \in 1 .. Len(s) |-> F(s[i])]
Orders(s) == {[i \in 1 .. Len(s) |-> s[p[i]]] : p \in {f \in [1 .. Len(s) -> 1 .. Len(s)] : {f[i] : i \in 1 .. Len(s)} = 1 .. Len(s)}}

-----------------------------------------------------------------------------
(* Readers.                                                                *)

InPeriodOrder(rows) == SortBy(rows, LAMBDA r : r.period)
FirstMetric(rows) == Sorted(MetricsOf(rows))[1]

\* One treated unit, donors in name order, each series its periods before and
\* after the treatment, aligned by position only.  A unit is treated if its
\* last row says so.
read_synthetic_control_panel(rows) ==
    LET mine == SelectSeq(rows, LAMBDA r : r.metric = FirstMetric(rows))
        units == Sorted({mine[i].unit : i \in 1 .. Len(mine)})
        of(u) == SelectSeq(mine, LAMBDA r : r.unit = u)
        part(u, post) == Mapped(InPeriodOrder(SelectSeq(of(u), LAMBDA r : r.post = post)), LAMBDA r : r.value)
        treated == SelectSeq(units, LAMBDA u : of(u)[Len(of(u))].treated)
        donors == SelectSeq(units, LAMBDA u : ~of(u)[Len(of(u))].treated)
    IN  IF rows = <<>> THEN Err("not_found")
        ELSE IF Len(treated) # 1 \/ donors = <<>> THEN Err("internal")
        ELSE [series |-> part(treated[1], FALSE) \o part(treated[1], TRUE), pre |-> Len(part(treated[1], FALSE)),
              donors |-> Mapped(donors, LAMBDA u : part(u, FALSE) \o part(u, TRUE))]

\* Blocks are numbered by position, whatever the periods were.
read_switchback_periods(rows) ==
    IF rows = <<>> THEN Err("not_found")
    ELSE LET mine == InPeriodOrder(SelectSeq(rows, LAMBDA r : r.metric = FirstMetric(rows)))
         IN  [blocks |-> [i \in 1 .. Len(mine) |-> [index |-> i - 1, treated |-> mine[i].treated, value |-> mine[i].value]]]

\* A metric with the most rows - which one of several, a hash map decides -
\* with the days counted from its first.
BestMetrics(rows) ==
    LET count(m) == Cardinality({i \in 1 .. Len(rows) : rows[i].metric = m})
    IN  {m \in MetricsOf(rows) : \A o \in MetricsOf(rows) : count(o) <= count(m)}
SeriesOf(rows, m) ==
    LET mine == InPeriodOrder(SelectSeq(rows, LAMBDA r : r.metric = m))
    IN  [metric |-> m, days |-> [i \in 1 .. Len(mine) |-> [day |-> mine[i].period - mine[1].period, effect |-> mine[i].value]]]
read_daily_treatment_effects(rows) == {SeriesOf(rows, m) : m \in BestMetrics(rows)}

ReadersInit ==
    \/ \E rows \in PanelRows : st = [algo |-> "panel", rows |-> rows]
    \/ \E rows \in EffectRows : st = [algo |-> "daily", rows |-> rows]

-----------------------------------------------------------------------------
(* Interleaving: sheets of [algorithms, winner].                           *)

AlgorithmsOf(sheet) == Sorted(UNION {sheet[i].algorithms : i \in 1 .. Len(sheet)})
WinsOf(sheet, a) == Cardinality({i \in 1 .. Len(sheet) : sheet[i].winner = a})
Decisive(sheet) == Cardinality({i \in 1 .. Len(sheet) : sheet[i].winner \in Elements(AlgorithmsOf(sheet))})
compute_win_rates(sheet) ==
    [a \in Elements(AlgorithmsOf(sheet)) |->
        IF Decisive(sheet) = 0 THEN Q0 ELSE Q(WinsOf(sheet, a), Decisive(sheet))]

Choose(n, k) == Cardinality({S \in SUBSET (1 .. n) : Cardinality(S) = k})
\* Of 2^n sequences of wins, those at least as uneven: both tails, at most all.
binomial_two_sided_p(n, k) ==
    LET tail(lo, hi) == SumOf([j \in 1 .. hi - lo + 1 |-> Choose(n, lo + j - 1)])
        least == AtMost(k, n - k)
        most == AtLeast(k, n - k)
    IN  Q(AtMost(tail(0, least) + tail(most, n), Power2(n)), Power2(n))
ChiOfWins(sheet) ==
    srm_check(Mapped(AlgorithmsOf(sheet), LAMBDA a : WinsOf(sheet, a)))
\* For two algorithms the p-value, for more the statistic it comes from.
sign_test(sheet) ==
    IF Decisive(sheet) = 0 THEN [p |-> Q1]
    ELSE IF Len(AlgorithmsOf(sheet)) = 2 THEN [p |-> binomial_two_sided_p(Decisive(sheet), WinsOf(sheet, AlgorithmsOf(sheet)[1]))]
    ELSE [chi2 |-> ChiOfWins(sheet).chi2]

\* Bradley-Terry: who beat whom, half a win added each way, and one round of
\* the fixed-point iteration.
UnsmoothedWins(sheet, a, b) ==
    Int2Q(Cardinality({i \in 1 .. Len(sheet) : sheet[i].winner = a /\ b \in sheet[i].algorithms}))
SmoothedWins(sheet, a, b) == QAdd(UnsmoothedWins(sheet, a, b), Q(1, 2))
Meetings(sheet, a, b) == QAdd(SmoothedWins(sheet, a, b), SmoothedWins(sheet, b, a))
Iterated(sheet, strength) ==
    LET ids == AlgorithmsOf(sheet)
        k == Len(ids)
        others(a, F(_)) == QSumOf(k, LAMBDA j : IF ids[j] = a THEN Q0 ELSE F(ids[j]))
        raw == [a \in Elements(ids) |->
                    LET wins == others(a, LAMBDA b : SmoothedWins(sheet, a, b))
                        denom == others(a, LAMBDA b : QDiv(Meetings(sheet, a, b), QAdd(strength[a], strength[b])))
                    IN  IF QLt(Q0, denom) THEN QDiv(wins, denom) ELSE strength[a]]
        total == QSumOf(k, LAMBDA j : raw[ids[j]])
    IN  [a \in Elements(ids) |-> IF QLt(Q0, total) THEN QDiv(raw[a], total) ELSE raw[a]]
bradley_terry(sheet, rounds) ==
    LET ids == AlgorithmsOf(sheet)
        pi[r \in 0 .. rounds] ==
            IF r = 0 THEN [a \in Elements(ids) |-> Q(1, Len(ids))] ELSE Iterated(sheet, pi[r - 1])
    IN  pi[rounds]
analyze_interleaving(sheet) ==
    IF sheet = <<>> \/ Len(AlgorithmsOf(sheet)) < 2 THEN Err("validation")
    ELSE [rates |-> compute_win_rates(sheet), sign |-> sign_test(sheet), strengths |-> bradley_terry(sheet, 2)]

InterleavedInit == \E sheet \in ScoreSheets : st = [algo |-> "sheets", sheet |-> sheet]

-----------------------------------------------------------------------------
(* Interference: rows of [variant, content, watch, viewers].               *)

\* The control variant's rows against those of all other variants.
build_interference_input(rows) ==
    LET control == ControlOf(rows) IN
    IF Cardinality(VariantsOf(rows)) < 2 THEN Err("failed_precondition")
    ELSE [control |-> SelectSeq(rows, LAMBDA r : r.variant = control),
          treatment |-> SelectSeq(rows, LAMBDA r : r.variant # control)]
ContentsOf(arm) == {arm[i].content : i \in 1 .. Len(arm)}
\* Of several rows of a content the last one counts.
LastRow(arm, content, field) ==
    LET mine == {i \in 1 .. Len(arm) : arm[i].content = content}
    IN  IF mine = {} THEN 0 ELSE arm[Greatest(mine)][field]
TotalOf(arm, field) == SumOf(Mapped(arm, LAMBDA r : r[field]))
ShareOf(arm, content) == Q(LastRow(arm, content, "watch"), TotalOf(arm, "watch"))

\* In place of p log (p/m) + q log (q/m).
jensen_shannon_divergence(t, c) ==
    LET ids == Sorted(ContentsOf(t) \cup ContentsOf(c))
        term(id) == LET p == ShareOf(t, id) q == ShareOf(c, id)
                    IN  IF QAdd(p, q) = Q0 THEN Q0 ELSE QDiv(QSq(QSub(p, q)), QAdd(p, q))
    IN  QSumOf(Len(ids), LAMBDA i : term(ids[i]))

top_k_ids(arm, k) ==
    LET sorted == SortBy(arm, LAMBDA r : -r.watch) IN ContentsOf(SubSeq(sorted, 1, AtMost(k, Len(sorted))))
jaccard_similarity_top_k(t, c, k) ==
    LET a == top_k_ids(t, k) b == top_k_ids(c, k) IN
    IF a \cup b = {} THEN Q1 ELSE Q(Cardinality(a \cap b), Cardinality(a \cup b))

GiniRank(i) == i
gini_coefficient(values) ==
    LET sorted == SortBy(values, LAMBDA v : v)
        n == Len(sorted)
        total == SumOf(sorted)
    IN  IF total <= 0 THEN Q0
        ELSE QSub(Q(2 * SumOf([i \in 1 .. n |-> GiniRank(i) * sorted[i]]), n * total), Q(n + 1, n))

\* The squared z of two proportions; none where the pooled rate is 0 or 1.
SpilloverZ2(t, c, id) ==
    LET x_t == LastRow(t, id, "viewers") x_c == LastRow(c, id, "viewers")
        n_t == TotalOf(t, "viewers") n_c == TotalOf(c, "viewers")
        pool == Q(x_t + x_c, n_t + n_c)
    IN  IF QLeq(pool, Q0) \/ QLeq(Q1, pool) THEN Q0
        ELSE QDiv(QSq(QSub(Q(x_t, n_t), Q(x_c, n_c))),
                  QMul(QMul(pool, QSub(Q1, pool)), QAdd(Q(1, n_t), Q(1, n_c))))
\* Benjamini-Hochberg over the shared titles: what a p-value of rank k is
\* compared with loosens with k.
SpilloverCritical(k, n) == Int2Q(4 + n - k)
title_spillover_test(t, c) ==
    LET shared == ContentsOf(t) \cap ContentsOf(c)
        n == Cardinality(shared)
        beyond(k) == {id \in shared : QLeq(SpilloverCritical(k, n), SpilloverZ2(t, c, id))}
        ks == {k \in 1 .. n : Cardinality(beyond(k)) >= k}
    IN  IF ks = {} THEN {} ELSE beyond(Greatest(ks))

DivergenceLimit == Q(1, 8)
analyze_interference(t, c) ==
    IF t = <<>> \/ c = <<>> \/ TotalOf(t, "viewers") = 0 \/ TotalOf(c, "viewers") = 0
        \/ TotalOf(t, "watch") <= 0 \/ TotalOf(c, "watch") <= 0
    THEN Err("validation")
    ELSE [divergence |-> jensen_shannon_divergence(t, c), jaccard |-> jaccard_similarity_top_k(t, c, 2),
          gini |-> gini_coefficient(Mapped(t, LAMBDA r : r.watch)), spillover |-> title_spillover_test(t, c),
          detected |-> QLt(DivergenceLimit, jensen_shannon_divergence(t, c)) \/ title_spillover_test(t, c) # {}]

WatchInit == \E rows \in WatchTables : st = [algo |-> "watch", rows |-> rows]

-----------------------------------------------------------------------------
(* Feedback loops: the effect regressed on the contamination; the paired    *)
(* test is a critical value on the squared statistic.                      *)

Beta(obs, cs, post) == QDiv(covariance(post, cs, mean(post), mean(cs)), sample_variance(cs, mean(cs)))
detect(obs) ==
    LET cs == Mapped(obs, LAMBDA o : Q(o.contamination, 4))
        post == Mapped(obs, LAMBDA o : Int2Q(o.post))
        shift == Mapped(obs, LAMBDA o : Int2Q(o.post - o.pre))
        var_c == sample_variance(cs, mean(cs))
        var_y == sample_variance(post, mean(post))
        var_d == sample_variance(shift, mean(shift))
        strong == QLt(Q0, var_c) /\ QLt(Q0, var_y)
                    /\ QLt(QMul(Q(1, 4), QMul(var_c, var_y)), QSq(covariance(post, cs, mean(post), mean(cs))))
        beyond(crit) == QLt(Q0, var_d) /\ QLt(QMul(Int2Q(crit), QDiv(var_d, Int2Q(Len(obs)))), QSq(mean(shift)))
        corrected == IF QLeq(var_c, Q0) THEN mean(post) ELSE QSub(mean(post), QMul(Beta(obs, cs, post), mean(cs)))
    IN  IF Len(obs) < 3 \/ \E i \in 1 .. Len(obs) : obs[i].contamination \notin 0 .. 4 THEN Err("validation")
        ELSE [detected |-> (beyond(4) /\ strong) \/ beyond(6), mean_post |-> mean(post), corrected |-> corrected,
              bias |-> QSub(mean(post), corrected)]

RetrainingInit == \E obs \in Retrainings : st = [algo |-> "feedback", obs |-> obs]

-----------------------------------------------------------------------------
(* Surrogates: calibration on past experiments, then the projection of one. *)

ErrorsOf(points) == Mapped(points, LAMBDA p : Int2Q(p.predicted - p.actual))
validate_calibration(points) ==
    LET n == Len(points)
        errors == ErrorsOf(points)
        actual == Mapped(points, LAMBDA p : Int2Q(p.actual))
        ss_res == QSumOf(n, LAMBDA i : QSq(errors[i]))
        ss_tot == SumOfSquares(actual, mean(actual))
        r2 == IF ss_tot # Q0 THEN QSub(Q1, QDiv(ss_res, ss_tot)) ELSE IF ss_res = Q0 THEN Q1 ELSE Q0
    IN  IF points = <<>> THEN Err("validation")
        ELSE [bias |-> mean(errors), var |-> IF n > 1 THEN sample_variance(errors, mean(errors)) ELSE Q0, r2 |-> r2,
              badge |-> IF QLt(Q(7, 10), r2) THEN "green" ELSE IF QLeq(Q(1, 2), r2) THEN "yellow" ELSE "red"]

Debiased(projected, bias) == QSub(projected, bias)
\* The variance of the projection, from its interval of +-2 errors or, when
\* that is empty, the observed one, plus the calibration's.
adjust_projection(p, observed_var, calibration) ==
    LET half == Q(p.high - p.low, 2)
        model_var == IF QLt(Q0, half) THEN QSq(QDiv(half, Int2Q(2))) ELSE observed_var
    IN  IF calibration = NoValue THEN [effect |-> Int2Q(p.predicted), var |-> model_var]
        ELSE [effect |-> Debiased(Int2Q(p.predicted), calibration.bias), var |-> QAdd(model_var, calibration.var)]

MedianOf(values) ==
    LET n == Len(values)
        rank(j) == Cardinality({i \in 1 .. n : QLt(values[i], values[j]) \/ (values[i] = values[j] /\ i <= j)})
        at(r) == values[CHOOSE j \in 1 .. n : rank(j) = r]
    IN  IF n = 0 THEN Q0
        ELSE IF n % 2 = 0 THEN QMul(Q(1, 2), QAdd(at(n \div 2), at(n \div 2 + 1))) ELSE at(n \div 2 + 1)
backtest_surrogate(points) ==
    LET n == Len(points)
        covered == {i \in 1 .. n : points[i].actual \in points[i].low .. points[i].high}
        apes == Mapped(SelectSeq(points, LAMBDA p : p.actual # 0), LAMBDA p : QAbs(Q(p.predicted - p.actual, p.actual)))
        near == {i \in 1 .. n : QLt(QAbs(Q(points[i].predicted - points[i].actual,
                                           IF points[i].actual = 0 THEN 1 ELSE points[i].actual)), Q(1, 4))}
    IN  IF n = 0 THEN Err("validation")
        ELSE [coverage |-> Q(Cardinality(covered), n), median |-> MedianOf(apes), apes |-> apes,
              passes |-> QLeq(Q(85, 100), Q(Cardinality(covered), n)) /\ QLeq(Q(70, 100), Q(Cardinality(near), n))]

SurrogateInit == \E points \in Projections : st = [algo |-> "surrogate", points |-> points]

-----------------------------------------------------------------------------
(* Novelty: s + a * decay(t, d), fitted for each candidate d by weighted    *)
(* least squares.  2^(-t / d) stands for exp(-t / d).                      *)

DecayConstants == <<1, 2>>
Decay(t, d) == Q(1, Power2(t \div d))
CostAt(obs, s, a, d) ==
    QSumOf(Len(obs), LAMBDA i :
        QMul(Int2Q(obs[i].size), QSq(QSub(Int2Q(obs[i].effect), QAdd(s, QMul(a, Decay(obs[i].day, d)))))))
FitWeight(o) == o.size
WeightedSum(obs, F(_)) == QSumOf(Len(obs), LAMBDA i : QMul(Int2Q(FitWeight(obs[i])), F(i)))
FitFor(obs, d) ==
    LET e(i) == Decay(obs[i].day, d)
        y(i) == Int2Q(obs[i].effect)
        m00 == WeightedSum(obs, LAMBDA i : Q1)
        m01 == WeightedSum(obs, e)
        m11 == WeightedSum(obs, LAMBDA i : QSq(e(i)))
        b0 == WeightedSum(obs, y)
        b1 == WeightedSum(obs, LAMBDA i : QMul(e(i), y(i)))
        det == QSub(QMul(m00, m11), QSq(m01))
        s == QDiv(QSub(QMul(m11, b0), QMul(m01, b1)), det)
        a == QDiv(QSub(QMul(m00, b1), QMul(m01, b0)), det)
    IN  IF det = Q0 THEN Err("singular") ELSE [s |-> s, a |-> a, d |-> d, cost |-> CostAt(obs, s, a, d)]
best_initial_params(obs) ==
    LET fits == SelectSeq(Mapped(DecayConstants, LAMBDA d : FitFor(obs, d)), IsOk)
        best == {k \in 1 .. Len(fits) : \A j \in 1 .. Len(fits) : QLeq(fits[k].cost, fits[j].cost)}
    IN  IF fits = <<>> THEN [s |-> Int2Q(obs[1].effect), a |-> Q0, d |-> 7, cost |-> CostAt(obs, Int2Q(obs[1].effect), Q0, 7)]
        ELSE fits[Least(best)]

NoveltyInit == \E obs \in DailyEffects : st = [algo |-> "novelty", obs |-> obs]

ReportsInit == ReadersInit \/ InterleavedInit \/ WatchInit \/ RetrainingInit \/ SurrogateInit \/ NoveltyInit

-----------------------------------------------------------------------------
(* Properties.                                                             *)

\* Whatever order a Delta scan returns the rows in, the readers build the same
\* series: the periods of each unit in order, those before the treatment
\* first.
RowOrderIsIrrelevant ==
    /\ Running("panel") =>
        \A rows \in Orders(st.rows) :
            read_synthetic_control_panel(rows) = read_synthetic_control_panel(st.rows)
    /\ Running("daily") =>
        \A rows \in Orders(st.rows) :
            /\ read_daily_treatment_effects(rows) = read_daily_treatment_effects(st.rows)
            /\ read_switchback_periods(rows) = read_switchback_periods(st.rows)

\* The strengths stay positive, as their logarithms are taken, and sum to one;
\* win rates sum to one when anything was decided; for two algorithms the
\* strength is the smoothed share of wins and the sign test treats both alike.
StrengthsAreProper ==
    Running("sheets") =>
        LET ids == AlgorithmsOf(st.sheet)
            k == Len(ids)
            n == Decisive(st.sheet)
        IN  \A r \in {analyze_interleaving(st.sheet)} : IsOk(r) =>
                /\ \A a \in Elements(ids) : QLt(Q0, r.strengths[a])
                /\ QSumOf(k, LAMBDA i : r.strengths[ids[i]]) = Q1
                /\ QSumOf(k, LAMBDA i : r.rates[ids[i]]) = (IF n = 0 THEN Q0 ELSE Q1)
                /\ (k = 2 /\ n = Len(st.sheet) /\ \A i \in 1 .. n : st.sheet[i].algorithms = Elements(ids)) =>
                        /\ r.strengths[ids[1]] = Q(2 * WinsOf(st.sheet, ids[1]) + 1, 2 * n + 2)
                        /\ r.sign.p = binomial_two_sided_p(n, WinsOf(st.sheet, ids[2]))

\* The concentration reported is Gini's: half the relative mean absolute
\* difference of the titles' watch times.
GiniIsMeanDifference ==
    Running("watch") =>
        LET w == Mapped(st.rows, LAMBDA r : r.watch)
            n == Len(w)
            diff(i, j) == AtLeast(w[i] - w[j], w[j] - w[i])
        IN  SumOf(w) > 0 =>
                gini_coefficient(w) = Q(SumOf([i \in 1 .. n |-> SumOf([j \in 1 .. n |-> diff(i, j)])]), 2 * n * SumOf(w))

\* Interference is judged alike from both sides, and never reported for arms
\* that watched the same - where each title has one row per arm.
InterferenceIsSymmetric ==
    Running("watch") =>
        \A in \in {build_interference_input(st.rows)} : IsOk(in) =>
            \A t \in {in.treatment}, c \in {in.control} :
            \A r \in {analyze_interference(t, c)}, s \in {analyze_interference(c, t)} :
            LET once(arm) == Cardinality(ContentsOf(arm)) = Len(arm)
                same == ContentsOf(t) = ContentsOf(c) /\
                        \A id \in ContentsOf(t) : \A f \in {"watch", "viewers"} : LastRow(t, id, f) = LastRow(c, id, f)
            IN  /\ IsOk(r) => /\ r.divergence = s.divergence /\ r.detected = s.detected
                              /\ r.jaccard = s.jaccard /\ r.spillover = s.spillover
                /\ (IsOk(r) /\ once(t) /\ once(c) /\ same) => ~r.detected /\ r.divergence = Q0 /\ r.jaccard = Q1

\* The correction removes what contamination explains: effects that are linear
\* in it are corrected to the effect without contamination.
BiasIsRemoved ==
    Running("feedback") =>
        LET c(i) == st.obs[i].contamination
            varied == \E i, j \in 1 .. Len(st.obs) : c(i) # c(j)
        IN  \A r \in {detect(st.obs)} : IsOk(r) =>
                /\ QAdd(r.corrected, r.bias) = r.mean_post
                /\ varied => \A slope \in -2 .. 2, base \in 0 .. 4 :
                        (\A i \in 1 .. Len(st.obs) : st.obs[i].post = base + slope * c(i)) => r.corrected = Int2Q(base)

\* Calibrated on its own errors a projection is unbiased, and never more
\* certain than the model's interval; the median of the backtest has half of
\* the errors on either side.
CalibrationCorrects ==
    Running("surrogate") =>
        \A cal \in {validate_calibration(st.points)}, b \in {backtest_surrogate(st.points)} :
        LET n == Len(st.points)
            adjusted(i) == adjust_projection(st.points[i], Q1, cal)
            plain(i) == adjust_projection(st.points[i], Q1, NoValue)
        IN  IsOk(cal) =>
                /\ QSumOf(n, LAMBDA i : QSub(adjusted(i).effect, Int2Q(st.points[i].actual))) = Q0
                /\ \A i \in 1 .. n : QLeq(plain(i).var, adjusted(i).var)
                /\ 2 * Cardinality({i \in 1 .. Len(b.apes) : QLeq(b.apes[i], b.median)}) >= Len(b.apes)
                /\ 2 * Cardinality({i \in 1 .. Len(b.apes) : QLeq(b.median, b.apes[i])}) >= Len(b.apes)

\* The fit that novelty starts from is the least weighted cost over the
\* candidate decays and, for its decay, over all other levels and amplitudes.
GridFitIsBest ==
    Running("novelty") =>
        \A f \in {best_initial_params(st.obs)} :
        \A ds \in {-1, 0, 1}, da \in {-1, 0, 1} :
            QLeq(f.cost, CostAt(st.obs, QAdd(f.s, Int2Q(ds)), QAdd(f.a, Int2Q(da)), f.d))
            /\ \A k \in 1 .. Len(DecayConstants) :
                LET g == FitFor(st.obs, DecayConstants[k]) IN IsOk(g) => QLeq(f.cost, g.cost)

\* An analysis M4a answers with is whole, about the data it names and as
\* fresh as the call promises, whatever other calls save meanwhile; and its
\* reports do not depend on the order of the rows they are computed from.
AnalysisIsSound ==
    /\ AnalysisIsComplete /\ InterimIsAboutOneArm /\ CacheKeepsDecisions
    /\ RunAnswersFresh /\ StalenessIsBounded /\ RowOrderIsIrrelevant
    /\ StrengthsAreProper /\ GiniIsMeanDifference /\ InterferenceIsSymmetric
    /\ BiasIsRemoved /\ CalibrationCorrects /\ GridFitIsBest
=============================================================================
