--------------------------- MODULE TestDecisions ----------------------------
(***************************************************************************)
(* The decisions of the statistics crate: what is rejected, when to stop,  *)
(* how long to go on.  Corrections for multiple comparisons, subgroups     *)
(* with Cochran's Q, the sample-ratio check, betting e-values, the         *)
(* boundaries of a group-sequential test and the interim look of an        *)
(* adaptive sample size, in exact arithmetic.                              *)
(***************************************************************************)
EXTENDS EffectEstimates

CONSTANTS
    PValues, PUnit,      \* p-values, in parts of PUnit
    MaxPValues,          \* bound: p-values corrected together
    Subgroups,           \* samples of a segment: [control, treatment]
    SrmCounts,           \* counts of users of a variant
    MaxVariants,         \* bound: variants of the sample-ratio check
    Bets,                \* observations of the betting e-value
    MaxBets,             \* bound: observations
    Spendings,           \* alpha spent by each look, in parts of 2^looks
    Grid,                \* points of the grid between two sample sizes
    MaxSize              \* bound: sample sizes of an interim look

-----------------------------------------------------------------------------
(* Multiple comparisons.                                                   *)

\* A permutation that sorts the p-values, ties in their order.
RankOf(p, i) == Cardinality({j \in 1 .. Len(p) : p[j] < p[i] \/ (p[j] = p[i] /\ j <= i)})
SortedIndices(p) == [r \in 1 .. Len(p) |-> CHOOSE i \in 1 .. Len(p) : RankOf(p, i) = r]

\* p * n / rank, at most one, then the least of the larger ranks.
StepUp(p) ==
    LET n == Len(p)
        s == SortedIndices(p)
        adjusted[r \in 1 .. n] ==
            LET own == QMin(Q(p[s[r]] * n, PUnit * r), Q1)
            IN  IF r = n THEN own ELSE QMin(own, adjusted[r + 1])
    IN  [r \in 1 .. n |-> adjusted[r]]
validate_p_values(p) == p # <<>> /\ \A i \in 1 .. Len(p) : p[i] \in 0 .. PUnit
ProperLevel(level) == level \in 1 .. PUnit - 1

benjamini_hochberg(p, fdr) ==
    IF ~validate_p_values(p) \/ ~ProperLevel(fdr) THEN Err("validation")
    ELSE LET adjusted == [i \in 1 .. Len(p) |-> StepUp(p)[RankOf(p, i)]]
         IN  [adjusted |-> adjusted, rejected |-> {i \in 1 .. Len(p) : QLeq(adjusted[i], Q(fdr, PUnit))}]
bonferroni(p, alpha) ==
    IF ~validate_p_values(p) \/ ~ProperLevel(alpha) THEN Err("validation")
    ELSE LET adjusted == [i \in 1 .. Len(p) |-> QMin(Q(p[i] * Len(p), PUnit), Q1)]
         IN  [adjusted |-> adjusted, rejected |-> {i \in 1 .. Len(p) : QLeq(adjusted[i], Q(alpha, PUnit))}]
guardrail_bonferroni(p, alpha) ==
    IF ~validate_p_values(p) \/ ~ProperLevel(alpha) THEN Err("validation")
    ELSE [rejected |-> {i \in 1 .. Len(p) : QLeq(Q(p[i], PUnit), Q(alpha, PUnit * Len(p)))}]

\* The guardrail monitor's form: one p-value at a time.
corrected_alpha(alpha, k) == Q(alpha, PUnit * k)
is_violated(alpha, k, p) == QLeq(Q(p, PUnit), corrected_alpha(alpha, k))

CorrectionsInit ==
    \E n \in 0 .. MaxPValues : \E p \in [1 .. n -> PValues], level \in PValues :
        st = [algo |-> "corrections", p |-> p, level |-> level]

-----------------------------------------------------------------------------
(* Subgroups.                                                              *)

pool_samples(subgroups, arm) ==
    LET all[i \in 0 .. Len(subgroups)] == IF i = 0 THEN <<>> ELSE all[i - 1] \o subgroups[i][arm]
    IN  all[Len(subgroups)]

\* The inverse variances weight the effects; I2 is a fraction of one.
cochran_q_test(effects, se2s) ==
    LET k == Len(effects)
        weighted(i) == QDiv(effects[i], se2s[i])
        sum_w == QSumOf(k, LAMBDA i : QInv(se2s[i]))
        tau == QDiv(QSumOf(k, weighted), sum_w)
        q == QSumOf(k, LAMBDA i : QDiv(QSq(QSub(effects[i], tau)), se2s[i]))
    IN  IF k < 2 \/ \E i \in 1 .. k : QLeq(se2s[i], Q0) THEN Err("validation")
        ELSE [q |-> q, df |-> k - 1,
              i2 |-> IF QLt(Q0, q) THEN QMax(Q0, QDiv(QSub(q, Int2Q(k - 1)), q)) ELSE Q0]

\* compute_welch_se panics where Welch's test of the same sample fails.
PooledTest(c, t) == welch_ttest(c, t)
CateOfTests(pooled, test) ==
    LET failed == {i \in DOMAIN test : ~IsOk(test[i])} IN
    IF ~IsOk(pooled) THEN pooled
    ELSE IF failed # {} THEN test[Least(failed)]
    ELSE [global |-> pooled.effect, effects |-> [i \in DOMAIN test |-> test[i].effect],
          heterogeneity |-> cochran_q_test([i \in DOMAIN test |-> test[i].effect], [i \in DOMAIN test |-> test[i].se2])]
analyze_cate(subgroups) ==
    IF Len(subgroups) < 2
       \/ \E i \in 1 .. Len(subgroups) : Len(subgroups[i].control) < 2 \/ Len(subgroups[i].treatment) < 2
    THEN Err("validation")
    ELSE CateOfTests(PooledTest(pool_samples(subgroups, "control"), pool_samples(subgroups, "treatment")),
                     [i \in 1 .. Len(subgroups) |-> welch_ttest(subgroups[i].control, subgroups[i].treatment)])

SubgroupsInit ==
    \E k \in 1 .. 3 : \E subgroups \in [1 .. k -> Subgroups] :
        st = [algo |-> "subgroups", subgroups |-> subgroups]

-----------------------------------------------------------------------------
(* The sample-ratio check, as the analysis calls it: equal shares of the   *)
(* variants that were seen.                                                *)

ChiTerm(observed, expected, total) == QDiv(QSq(QSub(Int2Q(observed), expected)), expected)
srm_check(observed) ==
    LET k == Len(observed)
        total == SumOf(observed)
    IN  IF k < 2 \/ total = 0 THEN Err("validation")
        ELSE [chi2 |-> QSumOf(k, LAMBDA i : ChiTerm(observed[i], QMul(Q(1, k), Int2Q(total)), total)),
              df |-> k - 1]

SrmInit ==
    \E k \in 1 .. MaxVariants : \E observed \in [1 .. k -> SrmCounts] :
        st = [algo |-> "srm", observed |-> observed]

-----------------------------------------------------------------------------
(* The betting e-value: the bet on an observation is the mean of those      *)
(* before it, over the variance; what is summed is the logarithm.          *)

Bet(obs, t, sigma2) ==
    IF t = 1 THEN Q0 ELSE QDiv(QDiv(QSum(SubSeq(obs, 1, t - 1)), Int2Q(t - 1)), sigma2)
e_value_grow(obs, sigma2) ==
    IF obs = <<>> \/ QLeq(sigma2, Q0) THEN Err("validation")
    ELSE [log |-> [t \in 1 .. Len(obs) |->
            QSumOf(t, LAMBDA i : LET b == Bet(obs, i, sigma2)
                                 IN  QSub(QMul(b, obs[i]), QMul(Q(1, 2), QMul(QSq(b), sigma2))))]]

WageredInit ==
    \E n \in 1 .. MaxBets : \E obs \in SampleOf(n, Bets), sigma2 \in {1, 2} :
        st = [algo |-> "bets", obs |-> obs, sigma2 |-> Int2Q(sigma2)]

-----------------------------------------------------------------------------
(* Group-sequential boundaries.  The statistic is a walk of +1 and -1 with  *)
(* equal chances - the normal increments of the code - so the density over  *)
(* the continuation region is a count of paths, exactly.                   *)

\* The number of ways to be at s after a look without having crossed.
AtPoint(density, s) == IF s \in DOMAIN density THEN density[s] ELSE 0
Advance(density) ==
    [s \in {d - 1 : d \in DOMAIN density} \cup {d + 1 : d \in DOMAIN density} |->
        AtPoint(density, s - 1) + AtPoint(density, s + 1)]
Inside(density, c) == [s \in {d \in DOMAIN density : d \in -c .. c} |-> density[s]]
PathsIn(density) ==
    LET count[S \in SUBSET DOMAIN density] ==
        IF S = {} THEN 0 ELSE LET s == CHOOSE s \in S : TRUE IN density[s] + count[S \ {s}]
    IN  count[DOMAIN density]

Power2(k) == 2 ^ k

\* The boundary of a look: where the chance of having stayed inside reaches
\* one less the alpha spent so far.
BoundaryOf(density, look, target) ==
    Least({c \in 0 .. look : PathsIn(Inside(density, c)) >= target})

\* Mutant: walks that crossed an earlier boundary are counted on.
StillOpenAnywhere(density, c) == density

StillOpen(density, c) == Inside(density, c)
\* The bisection has its root only between the narrowest and the widest
\* boundary: with less chance to stay in the narrowest than there must be, and
\* with some alpha left to spend at this look.
Bracketed(spent, look, reached, target) ==
    spent[look] > spent[look - 1] /\ PathsIn(Inside(reached, 0)) <= target

\* All looks' boundaries, or none: the first look's is infinite, and the code
\* panics, if nothing may be spent there; a later look's may have no root.
gst_boundaries(spent) ==
    LET looks == Len(spent)
        target(k) == Power2(k) - (spent[k] * Power2(k)) \div Power2(looks)
        state[k \in 0 .. looks] ==
            IF k = 0 THEN [density |-> [s \in {0} |-> 1], boundary |-> 0, found |-> TRUE]
            ELSE LET reached == Advance(state[k - 1].density)
                     c == BoundaryOf(reached, k, target(k))
                 IN  IF k > 1 /\ ~Bracketed(spent, k, reached, target(k))
                     THEN [state[k - 1] EXCEPT !.found = FALSE]
                     ELSE [density |-> StillOpen(reached, c), boundary |-> c, found |-> state[k - 1].found]
    IN  IF looks < 2 THEN Err("validation")
        ELSE IF spent[1] = 0 THEN Err("panic")
        ELSE IF ~state[looks].found THEN Err("numerical")
        ELSE [at |-> [k \in 1 .. looks |-> state[k].boundary]]

\* One look: the statistic against its boundary; what is spent is the
\* spending function's, whatever came of the look.
gst_evaluate(spent, boundaries, look, z, previous) ==
    IF Len(spent) < 2 \/ look \notin 1 .. Len(spent) \/ previous >= spent[Len(spent)] THEN Err("validation")
    ELSE IF ~IsOk(boundaries) THEN boundaries
    ELSE [crossed |-> AtLeast(z, -z) > boundaries.at[look], spent |-> spent[look],
          remaining |-> AtLeast(0, spent[Len(spent)] - spent[look])]

\* An experiment's looks along a walk, until one crosses.
CrossesBy(spent, boundaries, walk) ==
    \E k \in 1 .. Len(walk) :
        LET r == gst_evaluate(spent, boundaries, k, SumOf(SubSeq(walk, 1, k)), IF k = 1 THEN 0 ELSE spent[k - 1])
        IN  IsOk(r) /\ r.crossed

GstInit == \E spent \in Spendings : st = [algo |-> "gst", spent |-> spent]

-----------------------------------------------------------------------------
(* The interim look.  Sizes are multiples of 1 / Grid; the power at a size  *)
(* reaches the target from the size st.reach on.                           *)

zone_classify(cp, favorable, promising) ==
    IF promising >= favorable THEN "panic"
    ELSE IF QLeq(Int2Q(favorable), cp) THEN "favorable"
    ELSE IF QLeq(Int2Q(promising), cp) THEN "promising" ELSE "futile"

ReachesTarget(n, reach) == n >= reach
Halve(lo, hi, reach) ==
    LET mid == (lo + hi) \div 2 IN IF ReachesTarget(mid, reach) THEN <<lo, mid>> ELSE <<mid, hi>>
Bisected(lo, hi, reach) ==
    LET upper[p \in (lo .. hi) \X (lo .. hi)] ==
            LET next == Halve(p[1], p[2], reach) IN
            IF 2 * (next[2] - next[1]) < Grid THEN next[2] ELSE upper[next]
    IN  upper[<<lo, hi>>]
CeilGrid(n) == Grid * ((n + Grid - 1) \div Grid)
Recommended(hi, allowed) == AtMost(CeilGrid(hi), allowed)
required_n_for_power(current, allowed, reach) ==
    IF current <= 0 \/ allowed <= current THEN Err("validation")
    ELSE IF ReachesTarget(current, reach) THEN [n |-> current]
    ELSE IF ~ReachesTarget(allowed, reach) THEN [n |-> allowed]
    ELSE [n |-> Recommended(Bisected(current, allowed, reach), allowed)]

InterimInit ==
    \E half \in 0 .. MaxSize, allowed \in 1 .. MaxSize, reach \in 0 .. (MaxSize + 1) * Grid :
        st = [algo |-> "interim", current |-> (half * Grid) \div 2, allowed |-> allowed * Grid, reach |-> reach]

-----------------------------------------------------------------------------
(* Properties.                                                             *)

\* Benjamini-Hochberg rejects what the step-up definition does: the p-values
\* up to k * fdr / n, for the largest k that as many p-values satisfy; the
\* adjusted p-values keep the order of the raw ones; whatever Bonferroni
\* rejects is rejected.
BenjaminiHochbergIsStepUp ==
    Running("corrections") =>
        LET r == benjamini_hochberg(st.p, st.level)
            n == Len(st.p)
            within(k) == {i \in 1 .. n : st.p[i] * n <= k * st.level}
            ks == {k \in 1 .. n : Cardinality(within(k)) >= k}
        IN  IsOk(r) =>
                /\ r.rejected = (IF ks = {} THEN {} ELSE within(Greatest(ks)))
                /\ \A i, j \in 1 .. n : st.p[i] <= st.p[j] => QLeq(r.adjusted[i], r.adjusted[j])
                /\ bonferroni(st.p, st.level).rejected \subseteq r.rejected

\* The three forms of the Bonferroni correction - adjusted p-values, a
\* divided level, one guardrail at a time - never disagree on a guardrail.
GuardrailFormsAgree ==
    Running("corrections") =>
        LET r == bonferroni(st.p, st.level) IN
        IsOk(r) =>
            /\ guardrail_bonferroni(st.p, st.level).rejected = r.rejected
            /\ {i \in 1 .. Len(st.p) : is_violated(st.level, Len(st.p), st.p[i])} = r.rejected

\* The subgroup analysis never panics: the pooled sample is tested before its
\* error is computed.  Its statistic is not negative, vanishes exactly when
\* the effects are equal, and is blind to a common shift of them.
SubgroupsAreTested ==
    Running("subgroups") =>
        \A r \in {analyze_cate(st.subgroups)} :
        /\ ~IsOk(r) => r.error # "panic"
        /\ IsOk(r) =>
            LET k == Len(r.effects)
                se2s == [i \in 1 .. k |-> welch_ttest(st.subgroups[i].control, st.subgroups[i].treatment).se2]
            IN  /\ QLeq(Q0, r.heterogeneity.q) /\ QLt(r.heterogeneity.i2, Q1)
                /\ r.heterogeneity.q = Q0 <=> \A i, j \in 1 .. k : r.effects[i] = r.effects[j]
                /\ cochran_q_test([i \in 1 .. k |-> QAdd(r.effects[i], Q1)], se2s) = r.heterogeneity

\* The sample-ratio statistic is Pearson's for equal shares: k times the sum
\* of squares over the total, less the total.
SrmIsPearson ==
    Running("srm") =>
        LET r == srm_check(st.observed)
            total == SumOf(st.observed)
            squares == SumOf([i \in 1 .. Len(st.observed) |-> st.observed[i] * st.observed[i]])
        IN  IsOk(r) => r.chi2 = QSub(Q(Len(st.observed) * squares, total), Int2Q(total))

\* A bet never looks at the observation it is placed on: whatever comes next
\* leaves the bet, and the wealth so far, unchanged.
BetsArePredictable ==
    Running("bets") =>
        \A t \in 1 .. Len(st.obs), v \in Bets :
            LET other == [st.obs EXCEPT ![t] = Int2Q(v)] IN
            /\ Bet(other, t, st.sigma2) = Bet(st.obs, t, st.sigma2)
            /\ \A s \in 1 .. t - 1 : e_value_grow(other, st.sigma2).log[s] = e_value_grow(st.obs, st.sigma2).log[s]

\* Under the null the chance that any look up to the k-th crosses its
\* boundary is at most what the spending function has spent by then, counted
\* over all walks; it is zero, at every look, if one look's boundary could not
\* be computed: the looks stand or fall together.
TypeOneErrorIsSpent ==
    Running("gst") =>
        \A boundaries \in {gst_boundaries(st.spent)} :
        \A k \in 1 .. Len(st.spent) :
            Cardinality({w \in [1 .. k -> {-1, 1}] : CrossesBy(st.spent, boundaries, w)})
                * Power2(Len(st.spent) - k) <= (IF IsOk(boundaries) THEN st.spent[k] ELSE 0)

\* The recommended size lies between the current one and the limit, has the
\* target power unless the limit has not, and is at most one and a half users
\* more than needed.
RecommendationIsEnough ==
    Running("interim") =>
        LET r == required_n_for_power(st.current, st.allowed, st.reach) IN
        IsOk(r) =>
            /\ r.n \in st.current .. st.allowed
            /\ ReachesTarget(r.n, st.reach) \/ r.n = st.allowed
            /\ r.n = st.current \/ 2 * r.n < 2 * st.reach + 3 * Grid

\* The decision rules keep their error rates: corrections are the textbook's
\* and agree with each other, bets and boundaries are fixed before the data
\* they judge, and recommended sizes suffice.
DecisionsAreSound ==
    /\ BenjaminiHochbergIsStepUp /\ GuardrailFormsAgree
    /\ SubgroupsAreTested /\ SrmIsPearson /\ BetsArePredictable
    /\ TypeOneErrorIsSpent /\ RecommendationIsEnough
=============================================================================
