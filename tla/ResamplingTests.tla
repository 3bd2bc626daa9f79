-------------------------- MODULE ResamplingTests ---------------------------
(***************************************************************************)
(* The statistics that permute or resample: the switchback analysis with   *)
(* its regression, its autocorrelation-robust error and its randomization  *)
(* test, the bootstrap interval and the Beta-Binomial credible interval.   *)
(* Random draws are nondeterministic; arithmetic is exact and errors are   *)
(* squared.                                                                *)
(***************************************************************************)
EXTENDS EffectEstimates

CONSTANTS
    BlockPlans,      \* sequences of [index, treated, washout]: the rows of a switchback
    BlockValues,     \* metric values of a block
    ArmPairs,        \* pairs of samples the bootstrap resamples
    DrawCounts,      \* numbers of resamples and of posterior draws
    PosteriorGrid,   \* values a posterior draw takes
    TailLevels,      \* alpha, in parts of TailUnit
    TailUnit

-----------------------------------------------------------------------------
(* Switchback.                                                             *)

\* The blocks outside the washout, by block index.
EffectiveBlocks(rows) ==
    LET kept == {i \in 1 .. Len(rows) : ~rows[i].washout}
    IN  [k \in 1 .. Cardinality(kept) |->
            rows[CHOOSE i \in kept : Cardinality({j \in kept : rows[j].index < rows[i].index}) = k - 1]]

switchback_new(rows) ==
    LET blocks == EffectiveBlocks(rows) IN
    IF Len(blocks) < 4 \/ {b.treated : b \in Elements(blocks)} # BOOLEAN THEN Err("validation")
    ELSE [y |-> [i \in 1 .. Len(blocks) |-> Int2Q(blocks[i].value)],
          d |-> [i \in 1 .. Len(blocks) |-> IF blocks[i].treated THEN 1 ELSE 0]]

Centred(d) == LET n == Len(d) IN [i \in 1 .. n |-> Q(n * d[i] - SumOf(d), n)]

Sxx(d) == QSumOf(Len(d), LAMBDA i : QSq(Centred(d)[i]))
Sxy(y, d, my) == QSumOf(Len(y), LAMBDA i : QMul(Centred(d)[i], QSub(y[i], my)))

Fitted(y, d, beta0, beta1) ==
    [beta1 |-> beta1,
     residuals |-> [i \in 1 .. Len(y) |-> QSub(QSub(y[i], beta0), QMul(beta1, Int2Q(d[i])))]]
FittedSlope(y, d, my, beta1) == Fitted(y, d, QSub(my, QMul(beta1, Q(SumOf(d), Len(y)))), beta1)
FittedMean(y, d, my) == FittedSlope(y, d, my, QDiv(Sxy(y, d, my), Sxx(d)))
ols(y, d) == FittedMean(y, d, mean(y))

Products(x, m, lag) == QSumOf(Len(x) - lag, LAMBDA i : QMul(QSub(x[i + lag], m), QSub(x[i], m)))

LagOneCovariance(x, m) == QDiv(Products(x, m, 1), Int2Q(Len(x)))

Clamped(r) == QMax(Int2Q(-1), QMin(Q1, r))
CorrelationOf(x, m, variance) == IF variance = Q0 THEN Q0 ELSE Clamped(QDiv(LagOneCovariance(x, m), variance))
CorrelationAbout(x, m) == CorrelationOf(x, m, QDiv(SumOfSquares(x, m), Int2Q(Len(x))))
lag1_autocorr(x) == IF Len(x) < 3 THEN Q0 ELSE CorrelationAbout(x, mean(x))

\* The autocorrelation the carryover test is about.
carryover_test(residuals) == lag1_autocorr(residuals)

\* The rounded-up 1.1447 * cbrt(alpha1 * T), between 1 and T - 1; the factor
\* is the cube root of 3/2 to four digits.
Alpha1(rho2) == QDiv(QMul(Int2Q(2), rho2), QSub(Q1, rho2))
BandwidthAt(t, alpha1) ==
    Least({t - 1} \cup {h \in 1 .. t - 1 : QLeq(QMul(Q(3 * t, 2), alpha1), Int2Q(h * h * h))})
BandwidthOf(t, rho2) == IF rho2 = Q1 THEN t - 1 ELSE BandwidthAt(t, Alpha1(rho2))
Bandwidth(scores) == BandwidthOf(Len(scores), QSq(lag1_autocorr(scores)))

BartlettWeight(lag, h) == Q(h + 1 - lag, h + 1)

Autocovariance(scores, lag) == QDiv(Products(scores, Q0, lag), Int2Q(Len(scores)))

\* The long-run variance of the scores, before it is cut off at zero.
LongRunVariance(scores, h) ==
    QAdd(Autocovariance(scores, 0),
         QSumOf(h, LAMBDA lag : QMul(QMul(Int2Q(2), BartlettWeight(lag, h)), Autocovariance(scores, lag))))

HacResult(d, omega, h) ==
    [omega |-> omega, bandwidth |-> h, se2 |-> QDiv(QMul(Int2Q(Len(d)), QMax(omega, Q0)), QSq(Sxx(d)))]
HacAtBandwidth(d, scores, h) == HacResult(d, LongRunVariance(scores, h), h)
HacOfScores(d, scores) == HacAtBandwidth(d, scores, Bandwidth(scores))
newey_west_hac(d, residuals) ==
    HacOfScores(d, [i \in 1 .. Len(d) |-> QMul(Centred(d)[i], residuals[i])])

\* The difference of the arms' means.
effect_statistic(y, d) ==
    LET treated == {i \in 1 .. Len(y) : d[i] = 1}
        total(S) == QSumOf(Len(y), LAMBDA i : IF i \in S THEN y[i] ELSE Q0)
        control == (1 .. Len(y)) \ treated
    IN  IF treated = {} \/ control = {} THEN Q0
        ELSE QSub(QDiv(total(treated), Int2Q(Cardinality(treated))),
                  QDiv(total(control), Int2Q(Cardinality(control))))

\* Mutant: a branch whose remaining slots are all needed is cut.
TooFewOrJustEnough(slots, needed) == slots <= needed

TooFew(slots, needed) == slots < needed

\* The assignments the recursion visits, in order.
RECURSIVE enumerate(_, _, _, _)
enumerate(d, k, pos, chosen) ==
    IF chosen = k THEN <<[i \in 1 .. Len(d) |-> IF i < pos THEN d[i] ELSE 0]>>
    ELSE IF TooFew(Len(d) + 1 - pos, k - chosen) THEN <<>>
    ELSE enumerate([d EXCEPT ![pos] = 1], k, pos + 1, chosen + 1)
            \o enumerate([d EXCEPT ![pos] = 0], k, pos + 1, chosen)

exact_p_value(y, k, observed) ==
    LET visited == enumerate([i \in 1 .. Len(y) |-> 0], k, 1, 0)
        extreme == {v \in 1 .. Len(visited) : QLeq(QAbs(observed), QAbs(effect_statistic(y, visited[v])))}
    IN  IF visited = <<>> THEN Q1 ELSE Q(Cardinality(extreme), Len(visited))

\* Multiplied and divided in turn; the overflow of u64 is out of reach here.
binomial_coeff(n, k) ==
    LET j == AtMost(k, n - k)
        product[i \in 0 .. j] == IF i = 0 THEN 1 ELSE (product[i - 1] * (n - i + 1)) \div i
    IN  IF k > n THEN 0 ELSE product[j]

\* The analysis with all assignments enumerated.
AnalyzedFit(y, d, fit) ==
    [y |-> y, d |-> d, effect |-> fit.beta1, residuals |-> fit.residuals,
     omega |-> newey_west_hac(d, fit.residuals).omega, lag1 |-> carryover_test(fit.residuals),
     combinations |-> binomial_coeff(Len(y), SumOf(d)),
     p_value |-> exact_p_value(y, SumOf(d), effect_statistic(y, d))]
AnalyzedData(data) == IF ~IsOk(data) THEN data ELSE AnalyzedFit(data.y, data.d, ols(data.y, data.d))
analyze_blocks(rows) == AnalyzedData(switchback_new(rows))

SwitchbackInit ==
    \E plan \in BlockPlans : \E v \in [1 .. Len(plan) -> BlockValues] :
        st = [algo |-> "switchback",
              result |-> analyze_blocks([i \in 1 .. Len(plan) |->
                            [index |-> plan[i].index, treated |-> plan[i].treated,
                             washout |-> plan[i].washout, value |-> v[i]]])]

Analysed == Running("switchback") /\ IsOk(st.result)

-----------------------------------------------------------------------------
(* Resampled intervals.  Effects are multiplied by the product of the      *)
(* arms' sizes.                                                            *)

\* The k-th smallest draw.
OrderStatistic(xs, k) ==
    CHOOSE v \in Elements(xs) :
        /\ Cardinality({i \in 1 .. Len(xs) : xs[i] < v}) < k
        /\ k <= Cardinality({i \in 1 .. Len(xs) : xs[i] <= v})

\* Counted from zero, for the quantile q / (2 * TailUnit).
quantile_index(q, len) == AtMost((q * len) \div (2 * TailUnit), len - 1)

UpperQuantile(alpha) == 2 * TailUnit - alpha

DrawInterval(xs, alpha) ==
    [lower |-> OrderStatistic(xs, quantile_index(alpha, Len(xs)) + 1),
     upper |-> OrderStatistic(xs, quantile_index(UpperQuantile(alpha), Len(xs)) + 1)]

\* The effects one resample of the two arms can have.
Replicates(control, treatment) ==
    LET resampled(xs) == {SumOf([i \in 1 .. Len(xs) |-> xs[pick[i]]]) : pick \in [1 .. Len(xs) -> 1 .. Len(xs)]}
    IN  {Len(control) * t - Len(treatment) * c : t \in resampled(treatment), c \in resampled(control)}

bootstrap_ci(alpha, replicates) ==
    IF alpha <= 0 \/ alpha >= TailUnit THEN Err("validation") ELSE DrawInterval(replicates, alpha)

BootstrapInit ==
    \E arms \in ArmPairs, n \in DrawCounts, alpha \in TailLevels :
        \E draws \in [1 .. n -> Replicates(arms[1], arms[2])] :
            st = [algo |-> "bootstrap", draws |-> draws, alpha |-> alpha,
                  result |-> bootstrap_ci(alpha, draws)]

Wins(pairs) == Cardinality({i \in 1 .. Len(pairs) : pairs[i].treatment > pairs[i].control})

bayesian_beta_binomial(alpha, pairs) ==
    LET differences == [i \in 1 .. Len(pairs) |-> pairs[i].treatment - pairs[i].control]
    IN  IF alpha <= 0 \/ alpha >= TailUnit THEN Err("validation")
        ELSE [interval |-> DrawInterval(differences, alpha), superiority |-> Q(Wins(pairs), Len(pairs))]

CredibleInit ==
    \E n \in DrawCounts, alpha \in TailLevels :
        \E pairs \in [1 .. n -> [control : PosteriorGrid, treatment : PosteriorGrid]] :
            st = [algo |-> "credible", alpha |-> alpha, result |-> bayesian_beta_binomial(alpha, pairs)]

ResamplingInit == SwitchbackInit \/ BootstrapInit \/ CredibleInit

-----------------------------------------------------------------------------
\* The effect the regression of a switchback reports is the difference of
\* arm means its randomization test permutes, and the residuals of each arm
\* cancel: the two code paths are about one effect.
RegressionIsTheContrast ==
    Analysed =>
        LET r == st.result
            rest(a) == QSumOf(Len(r.y), LAMBDA i : IF r.d[i] = a THEN r.residuals[i] ELSE Q0)
        IN  r.effect = effect_statistic(r.y, r.d) /\ rest(0) = Q0 /\ rest(1) = Q0

\* The exact randomization p-value is the share of the assignments with as
\* many treated blocks whose difference of means is at least as large, each
\* counted once, and the number of assignments is the one that chose the
\* exact test over the sampled one.
ExactTestIsExact ==
    Analysed =>
        LET r == st.result
            n == Len(r.y)
            designs == {S \in SUBSET (1 .. n) : Cardinality(S) = SumOf(r.d)}
            gap(S) == QAbs(effect_statistic(r.y, [i \in 1 .. n |-> IF i \in S THEN 1 ELSE 0]))
            extreme == {S \in designs : QLeq(QAbs(r.effect), gap(S))}
        IN  /\ r.p_value = Q(Cardinality(extreme), Cardinality(designs))
            /\ r.combinations = Cardinality(designs)

\* The long-run variance of the scores is never negative, whatever bandwidth
\* the data chose: cutting it off at zero, which would report an effect
\* without any error, never happens.
LongRunVarianceIsProper == Analysed => QLeq(Q0, st.result.omega)

\* The residuals of a switchback are never perfectly autocorrelated, so that
\* the carryover test never takes the branch that reports a p-value of one
\* for the strongest carryover there is.
CarryoverIsTested == Analysed => QLt(QSq(st.result.lag1), Q1)

Resampled(xs, interval, alpha) ==
    LET below == Cardinality({i \in 1 .. Len(xs) : xs[i] < interval.lower})
        above == Cardinality({i \in 1 .. Len(xs) : xs[i] > interval.upper})
    IN  2 * TailUnit * below <= alpha * Len(xs) /\ 2 * TailUnit * above <= alpha * Len(xs)

\* At most alpha / 2 of the bootstrap replicates lie on either side of the
\* interval, which is never empty.
TailsAreBounded ==
    (Running("bootstrap") /\ IsOk(st.result)) =>
        st.result.lower <= st.result.upper /\ Resampled(st.draws, st.result, st.alpha)

\* The credible interval and the probability of superiority, computed apart
\* from the same draws, agree: an interval above zero comes with a
\* probability of at least 1 - alpha / 2, one that stays at or below zero
\* with at most alpha / 2.
SuperiorityAgrees ==
    (Running("credible") /\ IsOk(st.result)) =>
        LET r == st.result IN
        /\ r.interval.lower > 0 => QLeq(Q(2 * TailUnit - st.alpha, 2 * TailUnit), r.superiority)
        /\ r.interval.upper <= 0 => QLeq(r.superiority, Q(st.alpha, 2 * TailUnit))

\* Tests that permute, resample or draw are about the effect that is
\* reported, count each assignment once, and never meet the branches in
\* which the code reports certainty for want of a number.
ResamplingIsSound ==
    /\ RegressionIsTheContrast /\ ExactTestIsExact
    /\ LongRunVarianceIsProper /\ CarryoverIsTested /\ TailsAreBounded
    /\ SuperiorityAgrees
=============================================================================
