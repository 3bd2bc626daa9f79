-------------------------- MODULE CausalEstimates ---------------------------
(***************************************************************************)
(* The estimators of the statistics crate for experiments without a plain  *)
(* comparison of arms: the cross-fitted instrument that calibrates a       *)
(* surrogate and the doubly robust value of a policy (orl.rs), the donor   *)
(* weights of a synthetic control and its linear solver, and the power of  *)
(* a portfolio.  Arithmetic is exact.                                      *)
(***************************************************************************)
EXTENDS EffectEstimates

CONSTANTS
    Instruments,       \* sequences of treatments, one per observation
    SurrogateValues, LongOutcomes,  \* surrogate and long-term outcome of one
    Folds,             \* n_folds
    QWeightChoices,    \* what fitting the Q-function may return: <<bias, state, action>> per step
    FirstRewards,      \* rewards of the first step, by action
    SecondRewards,     \* rewards of the second step, by the two actions
    Discounts, TargetShares, LoggedShares,  \* gamma, the policies' shares of action 1
    MaxDensityRatio,
    Panels,            \* [donors, treated] before the treatment: two donors of a synthetic control
    Iterations,        \* the steps after which the weight solver gives up, an even number
    LinearSystems,     \* [a, b] of the linear solver
    Shares,            \* win rates, FDR targets, powers and traffic fractions
    PowerSpecs         \* sequences of [variance, delta2, n_variants]

RowsAt(xs, S) == LET order == Smallest(S, Cardinality(S)) IN [k \in 1 .. Len(order) |-> xs[order[k]]]

-----------------------------------------------------------------------------
(* The cross-fitted instrument.                                            *)

ols_with_intercept(x, y) ==
    LET var_x == sample_variance(x, mean(x))
        slope == QDiv(covariance(x, y, mean(x), mean(y)), var_x)
    IN  IF Len(x) < 2 THEN Err("validation")
        ELSE IF var_x = Q0 THEN Err("numerical")
        ELSE [intercept |-> QSub(mean(y), QMul(slope, mean(x))), slope |-> slope]

FoldOf(i, k, n) == ((i - 1) * k) \div n

TrainingRows(fold, k, n) == {i \in 1 .. n : FoldOf(i, k, n) # fold}

kfold_first_stage(z, s, k) ==
    LET n == Len(z)
        fit == [fold \in 0 .. k - 1 |->
                   ols_with_intercept(RowsAt(z, TrainingRows(fold, k, n)), RowsAt(s, TrainingRows(fold, k, n)))]
    IN  IF \E fold \in 0 .. k - 1 : ~IsOk(fit[fold]) THEN Err("numerical")
        ELSE [s_hat |-> [i \in 1 .. n |->
                LET f == fit[FoldOf(i, k, n)] IN QAdd(f.intercept, QMul(f.slope, z[i]))]]

PredictedCovariance(s_hat, s) == covariance(s_hat, s, mean(s_hat), mean(s))

Calibrated(s_hat, s, y, direct, iv) ==
    [s_hat |-> s_hat, iv_estimate |-> iv, intercept |-> QSub(mean(y), QMul(iv, mean(s))),
     bias_correction |-> QSub(iv, direct.slope)]
SecondStage(s_hat, s, y, strength, direct) ==
    IF strength = Q0 \/ ~IsOk(direct) THEN Err("numerical")
    ELSE Calibrated(s_hat, s, y, direct, QDiv(covariance(s_hat, y, mean(s_hat), mean(y)), strength))
AfterFirstStage(first, s, y) ==
    IF ~IsOk(first) THEN first
    ELSE SecondStage(first.s_hat, s, y, PredictedCovariance(first.s_hat, s), ols_with_intercept(s, y))
kfold_iv_calibrate(z, s, y, k) ==
    IF k < 2 \/ Len(z) < 2 * k THEN Err("validation") ELSE AfterFirstStage(kfold_first_stage(z, s, k), s, y)

IvInit ==
    \E z \in Instruments, k \in Folds :
        \E s \in [1 .. Len(z) -> SurrogateValues], y \in [1 .. Len(z) -> LongOutcomes] :
            LET qs(v) == [i \in 1 .. Len(v) |-> Int2Q(v[i])] IN
            st = [algo |-> "iv", z |-> qs(z), s |-> qs(s), y |-> qs(y), k |-> k,
                  result |-> kfold_iv_calibrate(qs(z), qs(s), qs(y), k)]

-----------------------------------------------------------------------------
(* The doubly robust value of a policy, over trajectories of two steps     *)
(* with two actions and one state feature: the action before.              *)

q_predict(w, state, action) == QAdd(w[1], QAdd(QMul(w[2], Int2Q(state)), QMul(w[3], Int2Q(action))))

TargetOf(pi, action) == IF action = 1 THEN pi ELSE QSub(Q1, pi)

q_value_function(w, state, pi) ==
    QAdd(QMul(TargetOf(pi, 0), q_predict(w, state, 0)), QMul(TargetOf(pi, 1), q_predict(w, state, 1)))

\* Mutant: the ratio of the step alone, not that of the trajectory so far.
StepRatio(before, w_t) == w_t

Cumulated(before, w_t) == QMul(before, w_t)

\* One trajectory: its value and whether a ratio was clipped.
TrajectoryValue(a, r0, r1, q, gamma, pi, logged) ==
    LET clip(x) == QMin(x, MaxDensityRatio)
        w(x) == QDiv(TargetOf(pi, x), TargetOf(logged, x))
        ratio0 == clip(Cumulated(Q1, w(a[1])))
        ratio1 == clip(Cumulated(ratio0, w(a[2])))
        error0 == QSub(QAdd(Int2Q(r0[a[1]]), QMul(gamma, q_value_function(q[2], a[1], pi))), q_predict(q[1], 0, a[1]))
        error1 == QSub(Int2Q(r1[a]), q_predict(q[2], a[1], a[2]))
    IN  [value |-> QAdd(q_value_function(q[1], 0, pi),
                        QAdd(QMul(ratio0, error0), QMul(QMul(gamma, ratio1), error1))),
         clipped |-> QLt(MaxDensityRatio, Cumulated(Q1, w(a[1]))) \/ QLt(MaxDensityRatio, Cumulated(ratio0, w(a[2])))]

\* A log in which every trajectory occurs as often as its probability says.
LoggedPairs(logged) == {a \in {0, 1} \X {0, 1} : TargetOf(logged, a[1]) # Q0 /\ TargetOf(logged, a[2]) # Q0}

dr_ope(r0, r1, q, gamma, pi, logged) ==
    LET one(a) == TrajectoryValue(a, r0, r1, q, gamma, pi, logged)
        share(a) == QMul(TargetOf(logged, a[1]), TargetOf(logged, a[2]))
        term(i) == LET a == <<(i - 1) \div 2, (i - 1) % 2>> IN
                   IF a \in LoggedPairs(logged) THEN QMul(share(a), one(a).value) ELSE Q0
    IN  [effect |-> QSumOf(4, term), clipped |-> \E a \in LoggedPairs(logged) : one(a).clipped]

OpeInit ==
    \E r0 \in FirstRewards, r1 \in SecondRewards, q \in QWeightChoices, gamma \in Discounts,
       pi \in TargetShares, logged \in LoggedShares :
        st = [algo |-> "ope", r0 |-> r0, r1 |-> r1, gamma |-> gamma, pi |-> pi, logged |-> logged,
              result |-> dr_ope(r0, r1, q, gamma, pi, logged)]

-----------------------------------------------------------------------------
(* The weights of the donors: projected gradient steps from equal weights. *)

NthLargest(v, k) ==
    CHOOSE x \in Elements(v) :
        /\ Cardinality({i \in 1 .. Len(v) : QLt(x, v[i])}) < k
        /\ k <= Cardinality({i \in 1 .. Len(v) : QLeq(x, v[i])})

\* The largest entries that stay positive: the code's rho + 1.
PositiveEntries(v) ==
    Greatest({1} \cup {j \in 1 .. Len(v) :
        QLt(QDiv(QSub(QSumOf(j, LAMBDA i : NthLargest(v, i)), Q1), Int2Q(j)), NthLargest(v, j))})

project_simplex(v) ==
    LET rho == PositiveEntries(v)
        theta == QDiv(QSub(QSumOf(rho, LAMBDA i : NthLargest(v, i)), Q1), Int2Q(rho))
    IN  [i \in 1 .. Len(v) |-> QMax(QSub(v[i], theta), Q0)]

weighted_sum(donors, w, t) == QSumOf(Len(donors), LAMBDA j : QMul(w[j], Int2Q(donors[j][t])))
Residual(treated, donors, w, t) == QSub(Int2Q(treated[t]), weighted_sum(donors, w, t))

\* The negated gradient.
DescentStep(treated, donors, w, j) ==
    QSumOf(Len(treated), LAMBDA t : QMul(Int2Q(donors[j][t]), Residual(treated, donors, w, t)))

LearningRate(donors, pre) ==
    LET squares == SumOf([j \in 1 .. Len(donors) |-> SumOf([t \in 1 .. pre |-> donors[j][t] * donors[j][t]])])
    IN  IF squares = 0 THEN Q(1, 100) ELSE Q(Len(donors) * pre, 2 * squares)

GradientStep(treated, donors, w) ==
    LET lr == LearningRate(donors, Len(treated)) IN
    project_simplex([j \in 1 .. Len(w) |-> QAdd(w[j], QMul(lr, DescentStep(treated, donors, w, j)))])

EqualWeights == [j \in 1 .. 2 |-> Q(1, 2)]
SimplexWeightsInit ==
    \E panel \in Panels :
        st = [algo |-> "scm", treated |-> panel.treated, donors |-> panel.donors,
              w |-> EqualWeights, steps |-> 0, settled |-> FALSE]

\* The loop stops when a step changes nothing, or after its iterations: the
\* weights at its end are returned in both cases.
solve_simplex_weights ==
    /\ Running("scm")
    /\ ~st.settled /\ st.steps < Iterations
    /\ LET next == GradientStep(st.treated, st.donors, st.w) IN
       st' = [st EXCEPT !.w = next, !.steps = @ + 1, !.settled = (next = st.w)]

-----------------------------------------------------------------------------
(* Gaussian elimination with partial pivoting.                             *)

PivotRow(a, col) ==
    LET rows == col .. Len(a)
        largest == {r \in rows : \A r2 \in rows : QLeq(QAbs(a[r2][col]), QAbs(a[r][col]))}
    IN  Greatest(largest)

Swapped(s, i, j) == [k \in 1 .. Len(s) |-> IF k = i THEN s[j] ELSE IF k = j THEN s[i] ELSE s[k]]

SwappedSide(b, i, j) == Swapped(b, i, j)

Eliminated(m, col) ==
    LET p == PivotRow(m.a, col)
        a == Swapped(m.a, col, p)
        b == SwappedSide(m.b, col, p)
        factor(r) == QDiv(a[r][col], a[col][col])
    IN  IF ~IsOk(m) \/ a[col][col] = Q0 THEN Err("numerical")
        ELSE [a |-> [r \in 1 .. Len(a) |->
                       IF r <= col THEN a[r]
                       ELSE [c \in 1 .. Len(a) |-> IF c < col THEN a[r][c] ELSE QSub(a[r][c], QMul(a[col][c], factor(r)))]],
              b |-> [r \in 1 .. Len(a) |-> IF r <= col THEN b[r] ELSE QSub(b[r], QMul(b[col], factor(r)))]]

gaussian_solve(a, b) ==
    LET n == Len(b)
        m[col \in 0 .. n] == IF col = 0 THEN [a |-> a, b |-> b]
                             ELSE IF IsOk(m[col - 1]) THEN Eliminated(m[col - 1], col) ELSE m[col - 1]
        x[i \in 1 .. n] == QDiv(QSub(m[n].b[i], QSumOf(n - i, LAMBDA k : QMul(m[n].a[i][i + k], x[i + k]))), m[n].a[i][i])
    IN  IF IsOk(m[n]) THEN [x |-> x] ELSE m[n]

LinearInit ==
    \E system \in LinearSystems :
        LET qs(v) == [i \in 1 .. Len(v) |-> Int2Q(v[i])]
            a == [i \in 1 .. Len(system.a) |-> qs(system.a[i])]
        IN  st = [algo |-> "linear", a |-> a, b |-> qs(system.b), result |-> gaussian_solve(a, qs(system.b))]

-----------------------------------------------------------------------------
(* Portfolio power.                                                        *)

LowestAlpha == Q(1, 1000)
HighestAlpha == Q(1, 5)

AlphaUnclamped(win, target, power) ==
    QDiv(QMul(QMul(target, win), power), QMul(QSub(Q1, win), QSub(Q1, target)))

optimal_alpha(win, target, power) == QMax(LowestAlpha, QMin(HighestAlpha, AlphaUnclamped(win, target, power)))

ExpectedFdr(win, power, alpha) ==
    LET nulls == QMul(QSub(Q1, win), alpha) IN QDiv(nulls, QAdd(nulls, QMul(win, power)))

Ceiling(q) == -((-q[1]) \div q[2])

\* 2 * variance * (z_alpha/2 + z_beta)^2 / delta^2, rounded up; the quantiles
\* are external, z2 is their sum squared.
RequiredPerArm(spec, z2) == Ceiling(QDiv(QMul(Int2Q(2 * spec.variance), z2), Int2Q(spec.delta2)))

RequiredTotal(spec, z2) == RequiredPerArm(spec, z2) * spec.n_variants

traffic_allocation_optimizer(specs, available, z2) ==
    LET grand == SumOf([i \in 1 .. Len(specs) |-> RequiredTotal(specs[i], z2)])
        frac(i) == IF grand > 0 THEN QMul(Q(RequiredTotal(specs[i], z2), grand), available)
                   ELSE QDiv(available, Int2Q(Len(specs)))
    IN  [i \in 1 .. Len(specs) |-> QMin(frac(i), Q1)]

PowerInit ==
    \E win \in Shares, target \in Shares, power \in Shares :
        st = [algo |-> "fdr", win |-> win, target |-> target, power |-> power,
              alpha |-> optimal_alpha(win, target, power)]
TrafficInit ==
    \E specs \in PowerSpecs, available \in Shares \cup {Q1}, z2 \in {1, 3, 8} :
        st = [algo |-> "traffic", specs |-> specs, available |-> available, z2 |-> Q(z2, 2),
              result |-> traffic_allocation_optimizer(specs, available, Q(z2, 2))]

CausalInit == IvInit \/ OpeInit \/ SimplexWeightsInit \/ LinearInit \/ PowerInit \/ TrafficInit
CausalNext == solve_simplex_weights
-----------------------------------------------------------------------------
\* Cross-fitting: no observation's predicted surrogate depends on a surrogate
\* measured in its own fold, so that the prediction carries none of the noise
\* the instrument is there to remove.
PredictionsAreHonest ==
    (Running("iv") /\ IsOk(st.result)) =>
        LET n == Len(st.z) IN
        \A i \in 1 .. n, v \in SurrogateValues :
            LET other == [j \in 1 .. n |-> IF FoldOf(j, st.k, n) = FoldOf(i, st.k, n) THEN Int2Q(v) ELSE st.s[j]]
            IN  kfold_first_stage(st.z, other, st.k).s_hat[i] = st.result.s_hat[i]

\* What the calibrated surrogate leaves unexplained is uncorrelated with the
\* predicted surrogate: the estimate is the instrument's, whatever the folds.
ResidualsAreExogenous ==
    (Running("iv") /\ IsOk(st.result)) =>
        LET r == st.result
            residual(i) == QSub(st.y[i], QAdd(r.intercept, QMul(r.iv_estimate, st.s[i])))
        IN  QSumOf(Len(st.z), LAMBDA i : QMul(QSub(r.s_hat[i], mean(r.s_hat)), residual(i))) = Q0

\* The value of the policy: the expected discounted rewards of following it.
PolicyValue ==
    LET second(a0) == QAdd(QMul(TargetOf(st.pi, 0), Int2Q(st.r1[<<a0, 0>>])), QMul(TargetOf(st.pi, 1), Int2Q(st.r1[<<a0, 1>>])))
        from(a0) == QMul(TargetOf(st.pi, a0), QAdd(Int2Q(st.r0[a0]), QMul(st.gamma, second(a0))))
    IN  QAdd(from(0), from(1))

\* Double robustness: on a log in which every trajectory has its share, the
\* estimate is the policy's true value whatever the fitted Q-function says,
\* as long as no ratio is clipped and the log covers the policy.
OpeIsUnbiased ==
    (Running("ope") /\ ~st.result.clipped
        /\ \A a \in {0, 1} : TargetOf(st.logged, a) = Q0 => TargetOf(st.pi, a) = Q0) =>
            st.result.effect = PolicyValue

\* The donor weights stay on the simplex at every step of the solver.
WeightsAreShares ==
    Running("scm") => QSum(st.w) = Q1 /\ \A j \in 1 .. Len(st.w) : QLeq(Q0, st.w[j])

Misfit(treated, donors, w) == QSumOf(Len(treated), LAMBDA t : QSq(Residual(treated, donors, w, t)))

\* With two donors the misfit is a parabola in the first one's share, with
\* Curvature - the square of the donors' distance - and its least at BestShare.
Curvature == SumOf([t \in 1 .. Len(st.treated) |-> (st.donors[1][t] - st.donors[2][t]) * (st.donors[1][t] - st.donors[2][t])])
BestShare ==
    LET gain == SumOf([t \in 1 .. Len(st.treated) |->
                        (st.donors[1][t] - st.donors[2][t]) * (st.treated[t] - st.donors[2][t])])
    IN  IF Curvature = 0 THEN st.w[1] ELSE QMax(Q0, QMin(Q1, Q(gain, Curvature)))
Off(w) == QAbs(QSub(w[1], BestShare))

\* A step ends at least as far beyond the best share as it started before it.
Overshoots == QLeq(Int2Q(4), QMul(LearningRate(st.donors, Len(st.treated)), Int2Q(Curvature)))
Between == BestShare \notin {Q0, Q(1, 2), Q1}

\* The weights found.  Settled ones fit the treated unit's past best.  Steps
\* that do not overshoot come closer to it.  Steps that overshoot a best fit
\* between the donors never settle, whatever the iterations, and what they
\* return, an even number later, fits no better than the equal weights they
\* started from: the rate is half the inverse of the donors' mean square, with
\* no regard to the curvature.
SolverIsBestOrLost ==
    Running("scm") =>
        LET fit(w) == Misfit(st.treated, st.donors, w)
            best == <<BestShare, QSub(Q1, BestShare)>>
        IN  /\ st.steps = 0 => \A k \in 0 .. 6 : QLeq(fit(best), fit(<<Q(k, 6), Q(6 - k, 6)>>))
            /\ st.settled => Off(st.w) = Q0
            /\ ~Overshoots /\ st.steps > 0 /\ Off(EqualWeights) # Q0 => QLt(Off(st.w), Off(EqualWeights))
            /\ Overshoots /\ Between =>
                  ~st.settled /\ (st.steps % 2 = 0 => QLeq(Off(EqualWeights), Off(st.w)))

\* What the linear solver returns solves the system, and it refuses only a
\* system whose matrix is singular.
SolutionSolves ==
    Running("linear") =>
        LET n == Len(st.b)
            det2(p, q, r, s) == QSub(QMul(p, s), QMul(q, r))
            minor(i, j) == det2(st.a[2][i], st.a[2][j], st.a[3][i], st.a[3][j])
            det == IF n = 2 THEN det2(st.a[1][1], st.a[1][2], st.a[2][1], st.a[2][2])
                   ELSE QAdd(QSub(QMul(st.a[1][1], minor(2, 3)), QMul(st.a[1][2], minor(1, 3))), QMul(st.a[1][3], minor(1, 2)))
        IN  IF IsOk(st.result)
            THEN \A i \in 1 .. n : QSumOf(n, LAMBDA j : QMul(st.a[i][j], st.result.x[j])) = st.b[i]
            ELSE det = Q0

\* The recommended alpha keeps the portfolio's expected share of false
\* discoveries at the target, below it only where alpha is capped, and above
\* it only where alpha is raised to its floor.
FdrMeetsTarget ==
    Running("fdr") =>
        LET fdr == ExpectedFdr(st.win, st.power, st.alpha) IN
        /\ QLt(st.target, fdr) => st.alpha = LowestAlpha
        /\ QLt(fdr, st.target) => st.alpha = HighestAlpha

\* The recommended fractions spend exactly the traffic there is, and a
\* population of the size the portfolio needs gives every arm of every
\* experiment its required number of users.
TrafficPowersEveryArm ==
    Running("traffic") =>
        LET needed == QSumOf(Len(st.specs), LAMBDA i : Int2Q(RequiredPerArm(st.specs[i], st.z2) * st.specs[i].n_variants))
            population == QDiv(needed, st.available)
        IN  /\ QSum(st.result) = st.available
            /\ \A i \in 1 .. Len(st.specs) :
                  QLeq(QMul(QDiv(Int2Q(2 * st.specs[i].variance), Int2Q(st.specs[i].delta2)), st.z2),
                       QDiv(QMul(population, st.result[i]), Int2Q(st.specs[i].n_variants)))

\* The causal estimates keep what makes them causal - honest folds, exogenous
\* residuals, double robustness, donors on the simplex - and the portfolio's
\* recommendations keep the power and the false discoveries they promise.
CausalEstimatesAreSound ==
    /\ PredictionsAreHonest /\ ResidualsAreExogenous /\ OpeIsUnbiased
    /\ WeightsAreShares /\ SolverIsBestOrLost /\ SolutionSolves /\ FdrMeetsTarget
    /\ TrafficPowersEveryArm
=============================================================================
