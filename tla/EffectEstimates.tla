-------------------------- MODULE EffectEstimates ---------------------------
(***************************************************************************)
(* The estimators of the statistics crate that compare two arms, in exact  *)
(* arithmetic: Welch's test, CUPED, its streaming form AVLM, the TOST of   *)
(* equivalence, cluster-robust errors and inverse-probability weighting.   *)
(* Errors are squared, so that no root is taken; distributions are         *)
(* external and enter through critical values and monotone functions.      *)
(***************************************************************************)
EXTENDS Machine, Rationals

CONSTANTS
    ControlSizes, TreatmentSizes, \* numbers of observations of the arms
    Outcomes2,       \* outcomes of a user
    Covariates,      \* covariates of a user
    ClusterRows,     \* rows of a clustered sample: <<value, cluster, treated>>
    ClusteredSizes,  \* numbers of rows of a clustered sample
    Probabilities,   \* assignment probabilities, in parts of ProbabilityUnit
    ProbabilityUnit,
    Margins,         \* equivalence margins, effects and errors of the TOST
    Alphas           \* significance levels of the TOST, in tenths

Err(kind) == [error |-> kind]
IsOk(r) == "error" \notin DOMAIN r

-----------------------------------------------------------------------------
(* Two samples.                                                            *)

mean(xs) == QDiv(QSum(xs), Int2Q(Len(xs)))
SumOfSquares(xs, m) == QSumOf(Len(xs), LAMBDA i : QSq(QSub(xs[i], m)))
sample_variance(xs, m) == QDiv(SumOfSquares(xs, m), Int2Q(Len(xs) - 1))
covariance(ys, xs, my, mx) ==
    QDiv(QSumOf(Len(ys), LAMBDA i : QMul(QSub(ys[i], my), QSub(xs[i], mx))), Int2Q(Len(ys) - 1))

\* The square of the standard error, and the degrees of freedom.
WelchError(n_c, n_t, c, t, se2) ==
    IF se2 = Q0 THEN Err("numerical")
    ELSE [se2 |-> se2,
          df |-> QDiv(QSq(se2), QAdd(QDiv(QSq(c), Int2Q(n_c - 1)), QDiv(QSq(t), Int2Q(n_t - 1))))]
ErrorOfShares(n_c, n_t, c, t) == WelchError(n_c, n_t, c, t, QAdd(c, t))
welch_standard_error(n_c, n_t, var_c, var_t) ==
    ErrorOfShares(n_c, n_t, QDiv(var_c, Int2Q(n_c)), QDiv(var_t, Int2Q(n_t)))

WelchResult(mc, mt, w) ==
    IF ~IsOk(w) THEN w
    ELSE [effect |-> QSub(mt, mc), se2 |-> w.se2, df |-> w.df, control_mean |-> mc, treatment_mean |-> mt]
WelchOfMeans(control, treatment, mc, mt) ==
    WelchResult(mc, mt, welch_standard_error(Len(control), Len(treatment),
                                             sample_variance(control, mc), sample_variance(treatment, mt)))
welch_ttest(control, treatment) ==
    IF Len(control) < 2 \/ Len(treatment) < 2 THEN Err("validation")
    ELSE WelchOfMeans(control, treatment, mean(control), mean(treatment))

\* CUPED: theta and the covariate's mean are those of the two arms together.
Adjusted(ys, xs, theta, mx) == [i \in 1 .. Len(ys) |-> QSub(ys[i], QMul(theta, QSub(xs[i], mx)))]
AdjustedArms(cy, ty, cx, tx, theta, mx) ==
    [theta |-> theta, control |-> Adjusted(cy, cx, theta, mx), treatment |-> Adjusted(ty, tx, theta, mx)]
PooledTheta(ys, xs, mx, var_x) == QDiv(covariance(ys, xs, mean(ys), mx), var_x)
ArmsGivenMoments(cy, ty, cx, tx, mx, var_x) ==
    IF var_x = Q0 THEN Err("numerical")
    ELSE AdjustedArms(cy, ty, cx, tx, PooledTheta(cy \o ty, cx \o tx, mx, var_x), mx)
ArmsGivenMean(cy, ty, cx, tx, mx) ==
    ArmsGivenMoments(cy, ty, cx, tx, mx, sample_variance(cx \o tx, mx))
CupedArms(cy, ty, cx, tx) ==
    IF Len(cy) # Len(cx) \/ Len(ty) # Len(tx) \/ Len(cy) < 2 \/ Len(ty) < 2 THEN Err("validation")
    ELSE ArmsGivenMean(cy, ty, cx, tx, mean(cx \o tx))
MeanVariance(s) == QDiv(sample_variance(s, mean(s)), Int2Q(Len(s)))
VarianceOfDifference(c, t) == QAdd(MeanVariance(c), MeanVariance(t))
Reduction(adj, raw) == IF QLt(Q0, raw) THEN QSub(Q1, QDiv(adj, raw)) ELSE Q0
CupedResult(a, cy, ty, adj) ==
    [raw |-> QSub(mean(ty), mean(cy)), effect |-> QSub(mean(a.treatment), mean(a.control)),
     theta |-> a.theta, se2 |-> adj, reduction |-> Reduction(adj, VarianceOfDifference(cy, ty))]
CupedOfArms(a, cy, ty) ==
    IF ~IsOk(a) THEN a ELSE CupedResult(a, cy, ty, VarianceOfDifference(a.control, a.treatment))
cuped_adjust(cy, ty, cx, tx) == CupedOfArms(CupedArms(cy, ty, cx, tx), cy, ty)

\* AVLM keeps six sums for each arm and takes the observations one by one.
NoSums == [n |-> 0, y |-> Q0, x |-> Q0, yy |-> Q0, xy |-> Q0, xx |-> Q0]
AvlmUpdate(s, y, x) ==
    [n |-> s.n + 1, y |-> QAdd(s.y, y), x |-> QAdd(s.x, x), yy |-> QAdd(s.yy, QSq(y)),
     xy |-> QAdd(s.xy, QMul(x, y)), xx |-> QAdd(s.xx, QSq(x))]
AvlmSums(ys, xs) ==
    LET s[i \in 0 .. Len(ys)] == IF i = 0 THEN NoSums ELSE AvlmUpdate(s[i - 1], ys[i], xs[i]) IN s[Len(ys)]

\* The (co)variance from the sum of products and the two sums.
FromSums(n, products, a, b) ==
    QDiv(QSub(products, QDiv(QMul(a, b), Int2Q(n))), Int2Q(n - 1))

\* Mutant: the covariance with the covariate is left out.
AvlmVarianceOnce(s, theta) ==
    QMax(Q0, QSub(FromSums(s.n, s.yy, s.y, s.y), QSq(QMul(theta, FromSums(s.n, s.xx, s.x, s.x)))))

AvlmVariance(s, theta) ==
    QMax(Q0, QAdd(QSub(FromSums(s.n, s.yy, s.y, s.y), QMul(QMul(Int2Q(2), theta), FromSums(s.n, s.xy, s.x, s.y))),
                  QMul(QSq(theta), FromSums(s.n, s.xx, s.x, s.x))))
AvlmMeanVariance(s, theta) == QDiv(AvlmVariance(s, theta), Int2Q(s.n))
AvlmEstimate(c, t, theta, raw) ==
    [raw |-> raw, theta |-> theta,
     effect |-> QSub(raw, QMul(theta, QSub(QDiv(t.x, Int2Q(t.n)), QDiv(c.x, Int2Q(c.n))))),
     se2 |-> QAdd(AvlmMeanVariance(c, theta), AvlmMeanVariance(t, theta))]
ThetaOrZero(cov, var_x) == IF var_x = Q0 THEN Q0 ELSE QDiv(cov, var_x)
AvlmTheta(c, t, x) ==
    ThetaOrZero(FromSums(c.n + t.n, QAdd(c.xy, t.xy), x, QAdd(c.y, t.y)),
                FromSums(c.n + t.n, QAdd(c.xx, t.xx), x, x))
confidence_sequence(c, t) ==
    IF c.n < 2 \/ t.n < 2 THEN Err("none")
    ELSE AvlmEstimate(c, t, AvlmTheta(c, t, QAdd(c.x, t.x)), QSub(QDiv(t.y, Int2Q(t.n)), QDiv(c.y, Int2Q(c.n))))

\* The e-value of the adjusted effect: pooled moments about the pooled means.
EValueMoments(cy, ty, cx, tx, theta, var_x, var_y) ==
    [effect |-> QSub(QSub(mean(ty), mean(cy)), QMul(theta, QSub(mean(tx), mean(cx)))),
     theta |-> theta, sigma2 |-> QSub(var_y, QMul(QSq(theta), var_x))]
EValueOfMeans(cy, ty, cx, tx, ys, xs, my, mx, var_x) ==
    EValueMoments(cy, ty, cx, tx, ThetaOrZero(covariance(ys, xs, my, mx), var_x), var_x, sample_variance(ys, my))
EValuePooled(cy, ty, cx, tx, ys, xs, my, mx) ==
    EValueOfMeans(cy, ty, cx, tx, ys, xs, my, mx, sample_variance(xs, mx))
e_value_avlm(cy, ty, cx, tx) ==
    IF Len(cy) < 2 \/ Len(ty) < 2 \/ Len(cy) # Len(cx) \/ Len(ty) # Len(tx) THEN Err("validation")
    ELSE EValuePooled(cy, ty, cx, tx, cy \o ty, cx \o tx, mean(cy \o ty), mean(cx \o tx))

\* The TOST on adjusted observations is Welch's test of them.
WelchOfArms(a) == IF ~IsOk(a) THEN a ELSE welch_ttest(a.control, a.treatment)
tost_cuped_equivalence_test(cy, ty, cx, tx) ==
    WelchOfArms(CupedArms(cy, ty, cx, tx))

SampleOf(n, S) == [1 .. n -> {Int2Q(v) : v \in S}]
ArmsInit ==
    \E n \in ControlSizes, m \in TreatmentSizes :
    \E cy \in SampleOf(n, Outcomes2), ty \in SampleOf(m, Outcomes2),
       cx \in SampleOf(n, Covariates), tx \in SampleOf(m, Covariates) :
        st = [algo |-> "arms", cy |-> cy, ty |-> ty, cx |-> cx, tx |-> tx]

-----------------------------------------------------------------------------
(* Equivalence: a critical value that falls with alpha and is zero at one   *)
(* half; p < alpha is a statistic beyond it.                               *)

TCrit(alpha) == Int2Q(5 - alpha)
validate_config(delta, alpha) == delta > 0 /\ alpha \in 1 .. 4
tost_from_moments(effect, se, delta, alpha) ==
    LET half == QMul(TCrit(alpha), se)
        lower == QDiv(QAdd(effect, delta), se)
        upper == QDiv(QSub(effect, delta), se)
    IN  [p_below |-> QLt(TCrit(alpha), lower) /\ QLt(upper, QNeg(TCrit(alpha))),
         equivalent |-> QLt(QNeg(delta), QSub(effect, half)) /\ QLt(QAdd(effect, half), delta)]
tost_equivalence_test(effect, se, delta, alpha) ==
    IF ~validate_config(delta, alpha) THEN Err("validation")
    ELSE tost_from_moments(Int2Q(effect), Q(se, 4), Int2Q(delta), alpha)

TostInit ==
    \E effect \in {-m : m \in Margins} \cup Margins, se \in Margins \ {0}, delta \in Margins, alpha \in Alphas :
        st = [algo |-> "tost", effect |-> effect, se |-> se, delta |-> delta, alpha |-> alpha]

-----------------------------------------------------------------------------
(* Clusters: the regression of the outcome on the treatment indicator, with *)
(* the residuals of a cluster summed before they are squared.              *)

hc1_correction(g, n) == QMul(Q(g, g - 1), Q(n, n - 2))
clustered_se(rows) ==
    LET n == Len(rows)
        treated == {i \in 1 .. n : rows[i].treated}
        clusters == {rows[i].cluster : i \in 1 .. n}
        g == Cardinality(clusters)
        n_t == Cardinality(treated) n_c == n - n_t
        sum_y == QSumOf(n, LAMBDA i : Int2Q(rows[i].value))
        sum_t == QSumOf(n, LAMBDA i : IF i \in treated THEN Int2Q(rows[i].value) ELSE Q0)
        inv00 == Q(n_t, n_t * n_c) inv01 == Q(-n_t, n_t * n_c) inv11 == Q(n, n_t * n_c)
        beta0 == QAdd(QMul(inv00, sum_y), QMul(inv01, sum_t))
        beta1 == QAdd(QMul(inv01, sum_y), QMul(inv11, sum_t))
        residual == [i \in 1 .. n |-> QSub(QSub(Int2Q(rows[i].value), beta0), IF i \in treated THEN beta1 ELSE Q0)]
        naive == QMul(QDiv(QSumOf(n, LAMBDA i : QSq(residual[i])), Int2Q(n - 2)), inv11)
        S(c, among) == QSumOf(n, LAMBDA i : IF rows[i].cluster = c /\ i \in among THEN residual[i] ELSE Q0)
        order == CHOOSE s \in [1 .. g -> clusters] : {s[i] : i \in 1 .. g} = clusters
        meat00 == QSumOf(g, LAMBDA k : QSq(S(order[k], 1 .. n)))
        meat01 == QSumOf(g, LAMBDA k : QMul(S(order[k], 1 .. n), S(order[k], treated)))
        meat11 == QSumOf(g, LAMBDA k : QSq(S(order[k], treated)))
    IN  IF n < 3 \/ treated = {} \/ n_c = 0 \/ g < 2 THEN Err("validation")
        ELSE [effect |-> beta1, naive_var |-> naive,
              clustered_var |->
                QMul(hc1_correction(g, n),
                     QAdd(QAdd(QMul(QMul(inv01, meat00), inv01), QMul(QMul(inv01, meat01), inv11)),
                          QAdd(QMul(QMul(inv11, meat01), inv01), QMul(QMul(inv11, meat11), inv11))))]

ClusteredInit ==
    \E n \in ClusteredSizes : \E rows \in [1 .. n -> ClusterRows] :
        st = [algo |-> "clustered", rows |-> rows]

-----------------------------------------------------------------------------
(* Inverse-probability weighting: clipped probabilities, weights summing to *)
(* one within each arm.                                                    *)

MinProbability == Q(1, 8)
Clipped(p) == QMax(MinProbability, QMin(p, QSub(Q1, MinProbability)))
hajek_mean(obs) ==
    QDiv(QSumOf(Len(obs), LAMBDA i : QDiv(obs[i].y, obs[i].p)), QSumOf(Len(obs), LAMBDA i : QInv(obs[i].p)))
hajek_variance(obs, m) ==
    LET sum_w == QSumOf(Len(obs), LAMBDA i : QInv(obs[i].p)) IN
    QDiv(QSumOf(Len(obs), LAMBDA i : QSq(QDiv(QSub(obs[i].y, m), obs[i].p))), QSq(sum_w))
ipw_estimate(rows) ==
    LET arm(t) == SelectSeq(rows, LAMBDA r : r.treated = t)
        obs(t) == [i \in 1 .. Len(arm(t)) |->
                    [y |-> Int2Q(arm(t)[i].y), p |-> Clipped(Q(arm(t)[i].p, ProbabilityUnit))]]
        c == obs(FALSE) t == obs(TRUE)
        all == c \o t
        sum_w == QSumOf(Len(all), LAMBDA i : QInv(all[i].p))
        sum_w2 == QSumOf(Len(all), LAMBDA i : QSq(QInv(all[i].p)))
    IN  IF rows = <<>> \/ \E i \in 1 .. Len(rows) : rows[i].p \notin 1 .. ProbabilityUnit THEN Err("validation")
        ELSE IF c = <<>> \/ t = <<>> THEN Err("validation")
        ELSE [control |-> hajek_mean(c), treatment |-> hajek_mean(t),
              effect |-> QSub(hajek_mean(t), hajek_mean(c)),
              se2 |-> QAdd(hajek_variance(t, hajek_mean(t)), hajek_variance(c, hajek_mean(c))),
              clipped |-> Cardinality({i \in 1 .. Len(rows) : Clipped(Q(rows[i].p, ProbabilityUnit)) # Q(rows[i].p, ProbabilityUnit)}),
              effective |-> QDiv(QSq(sum_w), sum_w2)]

WeightedInit ==
    \E rows \in [1 .. 3 -> [y : Outcomes2, treated : BOOLEAN, p : Probabilities]] :
        st = [algo |-> "ipw", rows |-> rows]

-----------------------------------------------------------------------------
(* Properties.                                                             *)

\* Welch's degrees of freedom lie between those of the smaller arm and those
\* of the pooled sample, and exchanging the arms only turns the sign of the
\* effect.
WelchIsBounded ==
    Running("arms") =>
        \A r \in {welch_ttest(st.cy, st.ty)}, s \in {welch_ttest(st.ty, st.cy)} :
            IsOk(r) =>
                /\ QLeq(Int2Q(AtMost(Len(st.cy), Len(st.ty)) - 1), r.df)
                /\ QLeq(r.df, Int2Q(Len(st.cy) + Len(st.ty) - 2))
                /\ s.effect = QNeg(r.effect) /\ s.se2 = r.se2 /\ s.df = r.df

\* The four implementations of the covariate adjustment - batch CUPED, the
\* streaming sums of AVLM, the adjusted samples of the TOST, the e-value -
\* estimate the same effect with the same error, and none where the
\* covariate tells nothing.
AdjustmentsAgree ==
    Running("arms") =>
        \A b \in {cuped_adjust(st.cy, st.ty, st.cx, st.tx)},
           a \in {confidence_sequence(AvlmSums(st.cy, st.cx), AvlmSums(st.ty, st.tx))},
           e \in {e_value_avlm(st.cy, st.ty, st.cx, st.tx)},
           t \in {tost_cuped_equivalence_test(st.cy, st.ty, st.cx, st.tx)} :
            /\ IsOk(a) <=> IsOk(e)
            /\ IsOk(a) => a.effect = e.effect /\ a.theta = e.theta /\ QLeq(Q0, e.sigma2)
            /\ IsOk(b) => a.effect = b.effect /\ a.theta = b.theta /\ a.se2 = b.se2
            /\ IsOk(t) => t.effect = b.effect /\ t.se2 = b.se2
            /\ ~IsOk(b) /\ IsOk(a) => a.effect = a.raw

\* An equivalence verdict is the rejection of both one-sided hypotheses, and
\* is given only for an effect inside the margin.
TostIsSound ==
    Running("tost") =>
        LET r == tost_equivalence_test(st.effect, st.se, st.delta, st.alpha) IN
        IsOk(r) => /\ r.equivalent = r.p_below
                   /\ r.equivalent => st.effect \in -st.delta + 1 .. st.delta - 1

\* The regression coefficient is the difference of the arms' means, and the
\* cluster-robust variance is the sum over clusters of the squared weighted
\* residuals, with the small-sample correction - so it is never negative.
ClusteredIsSandwich ==
    Running("clustered") =>
        LET n == Len(st.rows)
            arm(t) == {i \in 1 .. n : st.rows[i].treated = t}
            avg(t) == QDiv(QSumOf(n, LAMBDA i : IF i \in arm(t) THEN Int2Q(st.rows[i].value) ELSE Q0),
                           Int2Q(Cardinality(arm(t))))
            weighted(i) == LET t == st.rows[i].treated IN
                           QDiv(QSub(Int2Q(st.rows[i].value), avg(t)),
                                Int2Q(IF t THEN Cardinality(arm(t)) ELSE -Cardinality(arm(t))))
            clusters == {st.rows[i].cluster : i \in 1 .. n}
            g == Cardinality(clusters)
            of[C \in SUBSET clusters] ==
                IF C = {} THEN Q0
                ELSE LET c == CHOOSE c \in C : TRUE IN
                     QAdd(of[C \ {c}],
                          QSq(QSumOf(n, LAMBDA i : IF st.rows[i].cluster = c THEN weighted(i) ELSE Q0)))
        IN  \A r \in {clustered_se(st.rows)} : IsOk(r) =>
                /\ r.effect = QSub(avg(TRUE), avg(FALSE))
                /\ r.clustered_var = QMul(QMul(Q(g, g - 1), Q(n, n - 2)), of[clusters])

\* A weighted mean stays within the outcomes it averages, however uneven the
\* probabilities; the effective sample size is between one and the sample
\* size; the error vanishes only when each arm's outcomes are equal.
WeightedIsAnAverage ==
    Running("ipw") =>
        LET ys(t) == {st.rows[i].y : i \in {j \in 1 .. Len(st.rows) : st.rows[j].treated = t}}
            within(m, S) == QLeq(Int2Q(Least(S)), m) /\ QLeq(m, Int2Q(Greatest(S)))
        IN  \A r \in {ipw_estimate(st.rows)} : IsOk(r) =>
                /\ within(r.treatment, ys(TRUE)) /\ within(r.control, ys(FALSE))
                /\ QLeq(Q1, r.effective) /\ QLeq(r.effective, Int2Q(Len(st.rows)))
                /\ r.se2 = Q0 <=> \A t \in BOOLEAN : Cardinality(ys(t)) = 1

\* The estimators compute what they are named after, and where two code
\* paths estimate the same effect they agree.
EstimatesAreSound ==
    /\ WelchIsBounded /\ AdjustmentsAgree /\ TostIsSound
    /\ ClusteredIsSandwich /\ WeightedIsAnAverage
=============================================================================
