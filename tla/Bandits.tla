------------------------------ MODULE Bandits -------------------------------
(***************************************************************************)
(* The bandit library: Thompson sampling's reported propensities, LinUCB's *)
(* rank-one updates and placements, the mixed adaptive design and its      *)
(* betting test, and the composition of several metrics into one reward.   *)
(* Random draws are choices; numbers are exact fractions, and a square     *)
(* root is kept as the number under it with a sign.                        *)
(***************************************************************************)
EXTENDS Machine, Rationals

CONSTANTS
    Simulations,     \* MC_SIMULATIONS of select_arm
    MaxArms,         \* bound: arms of a sampled policy
    BanditArms,      \* arms of the LinUCB policy, in order
    Features,        \* the feature keys, two of them
    BanditContexts,  \* contexts: functions from some of the features
    BanditRewards,   \* rewards of an update
    Floors,          \* min_exploration_fraction, in hundredths
    UcbAlpha,        \* alpha of the upper confidence bound
    MaxBanditCalls,  \* bound: updates of a policy
    Coins,           \* outcomes of the coin of the mixed design
    Differences,     \* reward differences given to the betting test
    MaxDifferences,  \* bound
    SigmaSquared,    \* sigma_sq of the betting test
    MetricValues,    \* observations of a metric
    MaxCompositions, \* bound: calls of compose
    EmaWeight        \* EMA_ALPHA is 1 / EmaWeight

QSeqSum(s) == QSumOf(Len(s), LAMBDA i : s[i])

-----------------------------------------------------------------------------
(* Thompson sampling: select_arm reports the share of simulations an arm   *)
(* won, and never nothing for the arm it drew.                             *)
Counted(wins, best) == [wins EXCEPT ![best] = AtLeast(@, 1)]
ThompsonSelect(wins, best) ==
    LET counts == Counted(wins, best)
    IN  [arm |-> best, all |-> [i \in 1 .. Len(wins) |-> Q(counts[i], SumOf(counts))]]

ThompsonInit ==
    \E n \in 1 .. MaxArms : \E wins \in [1 .. n -> 0 .. Simulations], best \in 1 .. n :
        /\ SumOf(wins) = Simulations
        /\ st = [algo |-> "thompson", selection |-> ThompsonSelect(wins, best)]

-----------------------------------------------------------------------------
(* LinUCB.  a_inv is a symmetric matrix of two rows, b a vector.           *)
Identity == <<<<Q1, Q0>>, <<Q0, Q1>>>>
Times(A, x) == [i \in 1 .. 2 |-> QAdd(QMul(A[i][1], x[1]), QMul(A[i][2], x[2]))]
Dot(x, y) == QAdd(QMul(x[1], y[1]), QMul(x[2], y[2]))

\* LinUcbArm::new and update: Sherman-Morrison, then b and the pulls.
NewArm == [a_inv |-> Identity, b |-> <<Q0, Q0>>, n_pulls |-> 0]

\* Mutant: the one of 1 + x' A^-1 x is missing.
DenominatorOfVariance(a_inv, x) == QAdd(Q0, Dot(x, Times(a_inv, x)))

Denominator(a_inv, x) == QAdd(Q1, Dot(x, Times(a_inv, x)))
ArmUpdate(arm, x, reward) ==
    LET v == Times(arm.a_inv, x)
        d == Denominator(arm.a_inv, x)
    IN  [a_inv   |-> IF d = Q0 THEN arm.a_inv
                     ELSE [i \in 1 .. 2 |-> [j \in 1 .. 2 |-> QSub(arm.a_inv[i][j], QDiv(QMul(v[i], v[j]), d))]],
         b       |-> [i \in 1 .. 2 |-> QAdd(arm.b[i], QMul(reward, x[i]))],
         n_pulls |-> arm.n_pulls + 1]

\* context_to_vector: a missing feature is zero.
context_to_vector(c) == [i \in 1 .. 2 |-> IF Features[i] \in DOMAIN c THEN Int2Q(c[Features[i]]) ELSE Q0]

\* p + alpha * sqrt(v) is less than q + alpha * sqrt(w).
RootsLess(p, v, q, w) ==
    LET d == QSub(p, q)
        u == QMul(QSq(UcbAlpha), v)
        z == QMul(QSq(UcbAlpha), w)
        gap(big, small) == QSub(QSub(big, QSq(d)), small)
        twice(small) == QMul(Int2Q(4), QMul(QSq(d), small))
    IN  IF QLeq(Q0, d) THEN QLt(Q0, gap(z, u)) /\ QLt(twice(u), QSq(gap(z, u)))
        ELSE QLt(gap(u, z), Q0) \/ QLt(QSq(gap(u, z)), twice(z))
Score(arm, x) == [mean |-> Dot(Times(arm.a_inv, arm.b), x), variance |-> QMax(Q0, Dot(x, Times(arm.a_inv, x)))]
ScoreLess(s, t) == RootsLess(s.mean, s.variance, t.mean, t.variance)

\* select_arm: the last of the highest scores; the rest report the floor.
BestOf(scores) ==
    Greatest({i \in 1 .. Len(scores) : \A j \in 1 .. Len(scores) : ~ScoreLess(scores[i], scores[j])})
compute_probabilities(best) ==
    LET k == Len(BanditArms)
    IN  [i \in 1 .. k |-> IF i = best THEN QAdd(st.floor, QSub(Q1, QMul(Int2Q(k), st.floor))) ELSE st.floor]
LinUcbSelect(c) ==
    LET best == BestOf([i \in 1 .. Len(BanditArms) |-> Score(st.arms[BanditArms[i]], context_to_vector(c))])
    IN  st' = [st EXCEPT !.selection = [arm |-> best, all |-> compute_probabilities(best)]]

\* update, and a snapshot written and read back.
LinUcbUpdate(a, reward, c) ==
    /\ Len(st.history) < MaxBanditCalls
    /\ st' = [st EXCEPT !.arms[a] = ArmUpdate(@, context_to_vector(c), Int2Q(reward)),
                        !.total_rewards = @ + 1,
                        !.history = Append(@, [arm |-> a, reward |-> reward, x |-> context_to_vector(c)])]
SerializableArm(arm) ==
    [a_inv_data |-> <<arm.a_inv[1][1], arm.a_inv[2][1], arm.a_inv[1][2], arm.a_inv[2][2]>>, b_data |-> arm.b, n_pulls |-> arm.n_pulls]
into_arm(s) ==
    [a_inv |-> <<<<s.a_inv_data[1], s.a_inv_data[3]>>, <<s.a_inv_data[2], s.a_inv_data[4]>>>>, b |-> s.b_data, n_pulls |-> s.n_pulls]
LinUcbRestore ==
    st' = [st EXCEPT !.arms = [a \in DOMAIN st.arms |-> into_arm(SerializableArm(st.arms[a]))]]

LinUcbInit ==
    \E f \in Floors :
        /\ Len(BanditArms) * f <= 100
        /\ st = [algo |-> "linucb", floor |-> Q(f, 100), arms |-> [a \in Elements(BanditArms) |-> NewArm],
                 total_rewards |-> 0, history |-> <<>>, selection |-> [arm |-> 0, all |-> <<>>]]

\* predicted_reward, and export_affinity_scores: the first of the highest.
predicted_reward(arm, x) == Dot(Times(arm.a_inv, arm.b), x)
OptimalPlacement(arms, x) ==
    LET reward(i) == predicted_reward(arms[BanditArms[i]], x)
    IN  BanditArms[Least({i \in 1 .. Len(BanditArms) : \A j \in 1 .. Len(BanditArms) : QLeq(reward(j), reward(i))})]
export_affinity_scores(arms) ==
    [c \in BanditContexts |->
        LET x == context_to_vector(c) a == OptimalPlacement(arms, x)
        IN  [placement |-> a, score |-> IF a = "" THEN Q0 ELSE predicted_reward(arms[a], x)]]

-----------------------------------------------------------------------------
(* The mixed adaptive design: with the coin below the fraction a uniform   *)
(* arm, otherwise the policy's.                                            *)
UniformIndex(n) == 1 .. n
MixedArm(m, coin, index) == IF coin < m.fraction THEN index ELSE m.policy
MixedInit ==
    \E n \in 1 .. MaxArms : \E f \in 1 .. Coins - 1, p \in 1 .. n :
        st = [algo |-> "mixed", mixer |-> [arms |-> n, fraction |-> f, policy |-> p]]

\* MadEProcess::update: bets only on the uniform component, with the mean
\* of its earlier rewards.
NewProcess == [uniform_sum |-> Q0, n_uniform |-> 0, n_total |-> 0, log_wealth |-> Q0, trajectory |-> <<>>]
MeanBefore(p) == IF p.n_uniform = 0 THEN Q0 ELSE QDiv(p.uniform_sum, Int2Q(p.n_uniform))
MadProcess(p, diff, uniform) ==
    LET q == [p EXCEPT !.n_total = @ + 1]
        lambda == QDiv(MeanBefore(q), SigmaSquared)
        wealth == QAdd(p.log_wealth, QSub(QMul(lambda, diff), QMul(Q(1, 2), QMul(QSq(lambda), SigmaSquared))))
    IN  IF ~uniform THEN q
        ELSE [q EXCEPT !.log_wealth = wealth, !.trajectory = Append(@, wealth),
                       !.uniform_sum = QAdd(@, diff), !.n_uniform = @ + 1]
MadUpdate(diff, uniform) ==
    /\ Len(st.history) < MaxDifferences
    /\ st' = [st EXCEPT !.process = MadProcess(@, Int2Q(diff), uniform),
                        !.history = Append(@, [diff |-> Int2Q(diff), uniform |-> uniform])]
MadInit == st = [algo |-> "mad", process |-> NewProcess, history |-> <<>>]

-----------------------------------------------------------------------------
(* RewardComposer.  A z-score is a sign and the square of its size.        *)
RootOf(n, square) == [sign |-> IF n[1] > 0 THEN 1 ELSE IF n[1] < 0 THEN -1 ELSE 0, square |-> square]
RootLess(p, q) ==
    \/ p.sign < q.sign
    \/ p.sign = q.sign /\ p.sign = 1 /\ QLt(p.square, q.square)
    \/ p.sign = q.sign /\ p.sign = -1 /\ QLt(q.square, p.square)
ZeroRoot == RootOf(Q0, Q0)

Ema == Q(1, EmaWeight)
NewStats == [mean |-> Q0, variance |-> Q1, ideal |-> ZeroRoot, n |-> 0]
StatsUpdate(s, value) ==
    LET delta == QSub(value, s.mean)
    IN  [s EXCEPT !.mean = QAdd(@, QMul(Ema, delta)), !.n = @ + 1,
                  !.variance = QMul(QSub(Q1, Ema), QAdd(@, QMul(Ema, QSq(delta))))]
normalize(s, value) == RootOf(QSub(value, s.mean), QDiv(QSq(QSub(value, s.mean)), s.variance))

\* update_and_normalize: the ideal is the highest score so far.
RaiseIdeal(s, value) ==
    [s EXCEPT !.ideal = IF RootLess(@, normalize(s, value)) THEN normalize(s, value) ELSE @]
update_and_normalize(s, value) == RaiseIdeal(StatsUpdate(s, value), value)

\* RewardComposer::new: the assertions of each method.
NewComposer(objectives, method) ==
    LET weights == QSeqSum([i \in 1 .. Len(objectives) |-> objectives[i].weight]) IN
    /\ objectives # <<>>
    /\ method = "WEIGHTED" => weights = Q1
    /\ method = "EPSILON" => Cardinality({i \in 1 .. Len(objectives) : objectives[i].is_primary}) = 1
    /\ method = "TCHEBYCHEFF" => \A i \in 1 .. Len(objectives) : QLt(Q0, objectives[i].weight)

\* compose: what each objective adds to the reward, or takes from it.
Credits(o, z, s, method) ==
    CASE method = "WEIGHTED"    -> z.sign
      [] method = "EPSILON"     -> IF o.is_primary THEN z.sign ELSE AtLeast(z.sign, 0)
      [] method = "TCHEBYCHEFF" -> IF RootLess(z, s.ideal) THEN -1 ELSE 0
compose(values) ==
    LET stats == [m \in DOMAIN st.stats |-> update_and_normalize(st.stats[m], Int2Q(values[m]))]
        z(m) == normalize(stats[m], Int2Q(values[m]))
    IN  /\ Len(st.history) < MaxCompositions
        /\ st' = [st EXCEPT !.stats = stats, !.history = Append(@, values),
                            !.credits = [i \in 1 .. Len(st.objectives) |->
                                LET o == st.objectives[i] IN Credits(o, z(o.metric), stats[o.metric], st.method)]]
Objectives ==
    <<[metric |-> "m1", weight |-> Q(2, 3), is_primary |-> TRUE],
      [metric |-> "m2", weight |-> Q(1, 3), is_primary |-> FALSE]>>
ComposerInit ==
    \E method \in {"WEIGHTED", "EPSILON", "TCHEBYCHEFF"} :
        /\ NewComposer(Objectives, method)
        /\ st = [algo |-> "composer", method |-> method, objectives |-> Objectives,
                 stats |-> [m \in {"m1", "m2"} |-> NewStats], history |-> <<>>, credits |-> <<0, 0>>]

BanditInit == ThompsonInit \/ LinUcbInit \/ MixedInit \/ MadInit \/ ComposerInit
BanditNext ==
    \/ /\ Running("linucb")
       /\ \/ \E a \in Elements(BanditArms), r \in BanditRewards, c \in BanditContexts : LinUcbUpdate(a, r, c)
          \/ \E c \in BanditContexts : LinUcbSelect(c)
          \/ LinUcbRestore
    \/ Running("mad") /\ \E d \in Differences, u \in BOOLEAN : MadUpdate(d, u)
    \/ Running("composer") /\ \E v \in [{"m1", "m2"} -> MetricValues] : compose(v)

-----------------------------------------------------------------------------
(* Properties.                                                             *)

\* What a policy reports of a selection is a distribution, and the arm it
\* chose has a positive share of it, so that dividing by it is possible.
PropensitiesAreProper ==
    Running("thompson") \/ (Running("linucb") /\ st.selection.arm # 0) =>
        LET s == st.selection IN
        /\ QSeqSum(s.all) = Q1
        /\ \A i \in 1 .. Len(s.all) : QLeq(Q0, s.all[i])
        /\ QLt(Q0, s.all[s.arm])

\* However rewards and restarts are interleaved, each arm's a_inv is the
\* inverse of I + the sum of x x^T over its own rewards, its b the sum of
\* r x, and the counters agree with them.
PosteriorIsRidge ==
    Running("linucb") =>
        \A a \in DOMAIN st.arms :
            LET mine == SelectSeq(st.history, LAMBDA h : h.arm = a)
                entry(i, j) == QAdd(Identity[i][j], QSumOf(Len(mine), LAMBDA t : QMul(mine[t].x[i], mine[t].x[j])))
                arm == st.arms[a]
            IN  /\ \A i \in 1 .. 2, j \in 1 .. 2 :
                        QAdd(QMul(arm.a_inv[i][1], entry(1, j)), QMul(arm.a_inv[i][2], entry(2, j))) = Identity[i][j]
                /\ \A i \in 1 .. 2 : arm.b[i] = QSumOf(Len(mine), LAMBDA t : QMul(Int2Q(mine[t].reward), mine[t].x[i]))
                /\ arm.n_pulls = Len(mine)
                /\ st.total_rewards = Len(st.history)

\* Every segment of a cold start is placed with an arm no other is predicted
\* to beat, losing arms included.
PlacementIsBest ==
    Running("linucb") =>
        \A c \in BanditContexts :
            LET e == export_affinity_scores(st.arms)[c] IN
            /\ e.placement \in Elements(BanditArms)
            /\ \A a \in Elements(BanditArms) : QLeq(predicted_reward(st.arms[a], context_to_vector(c)), e.score)

\* Over the coin and the uniform index every arm is taken in at least its
\* share of the randomised fraction, whatever the policy prefers.
MixingReachesEveryArm ==
    Running("mixed") =>
        LET m == st.mixer
            draws == (0 .. Coins - 1) \X UniformIndex(m.arms)
        IN  \A a \in 1 .. m.arms :
                Cardinality({d \in draws : MixedArm(m, d[1], d[2]) = a}) * m.arms * Coins
                    >= m.fraction * Cardinality(draws)

\* The wealth of the betting test is what the uniform rewards alone make of
\* it, however many of the policy's own lie between them, and a bet is fixed
\* before its reward is seen.
WealthIgnoresPolicy ==
    Running("mad") =>
        LET u == SelectSeq(st.history, LAMBDA h : h.uniform)
            bet(t) == IF t = 1 THEN Q0
                      ELSE QDiv(QSumOf(t - 1, LAMBDA s : u[s].diff), QMul(Int2Q(t - 1), SigmaSquared))
        IN  /\ st.process.log_wealth =
                    QSumOf(Len(u), LAMBDA t : QSub(QMul(bet(t), u[t].diff), QDiv(QMul(QSq(bet(t)), SigmaSquared), Int2Q(2))))
            /\ Len(st.process.trajectory) = Len(u)
            /\ st.process.n_total = Len(st.history)

\* A metric's running mean and variance are the exponentially weighted ones
\* of all it has seen, with the prior's mean 0 and variance 1 as its oldest
\* observation.
StatsAreWeighted ==
    Running("composer") =>
        \A m \in DOMAIN st.stats :
            LET n == Len(st.history)
                power[k \in 0 .. n] == IF k = 0 THEN Q1 ELSE QMul(power[k - 1], QSub(Q1, Ema))
                weight(t) == QMul(Ema, power[n - t])
                mean == QSumOf(n, LAMBDA t : QMul(weight(t), Int2Q(st.history[t][m])))
                spread == QSumOf(n, LAMBDA t : QMul(weight(t), QSq(QSub(Int2Q(st.history[t][m]), mean))))
            IN  /\ st.stats[m].mean = mean
                /\ st.stats[m].variance = QAdd(QMul(power[n], QAdd(Q1, QSq(mean))), spread)

\* No score ever lies above the ideal it is measured against, from the first
\* observation on: a Tchebycheff reward is never a gain.
IdealIsHighest ==
    Running("composer") /\ st.history # <<>> =>
        \A m \in DOMAIN st.stats :
            LET z == normalize(st.stats[m], Int2Q(st.history[Len(st.history)][m]))
            IN  ~RootLess(st.stats[m].ideal, z)
=============================================================================
