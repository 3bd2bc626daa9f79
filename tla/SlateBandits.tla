---------------------------- MODULE SlateBandits ----------------------------
(***************************************************************************)
(* The slate policy of the bandit library, with its attribution models and *)
(* position bias, and the layer that projects an arm distribution onto     *)
(* per-arm bounds.  Draws are choices; the bisection of the projection is  *)
(* taken to its limit.                                                     *)
(***************************************************************************)
EXTENDS Machine, Rationals

CONSTANTS
    SlateArms,       \* arms with a posterior
    SlateSlots,      \* n_slots of the policy
    CandidateLists,  \* candidates of a request, without repeats
    ShownSlates,     \* slates rewards arrive for, as the caller says
    SlateRewards,    \* rewards of a slate
    Biases,          \* position bias models
    MaxSlates,       \* bound: rewards of a slate
    RawWeights,      \* raw weights of an arm
    ArmBounds,       \* bounds of an arm, <<least, most>> in quarters
    TrackedArms,     \* arms whose impressions are counted
    MaxImpressions,  \* bound
    NoClick          \* clicked_position is None

-----------------------------------------------------------------------------
(* select_slate: slot by slot, the candidate with the highest draw.        *)
SlotsFor(candidates, asked) == AtMost(AtMost(asked, Len(candidates)), SlateSlots)
RemoveAt(s, i) == SubSeq(s, 1, i - 1) \o SubSeq(s, i + 1, Len(s))
PickSlot(i) ==
    /\ Len(st.selected) < SlotsFor(st.candidates, st.asked)
    /\ st' = [st EXCEPT !.selected = Append(@, st.remaining[i]), !.remaining = RemoveAt(@, i)]
SelectSlateInit ==
    \E c \in CandidateLists, n \in 0 .. SlateSlots + 1 :
        st = [algo |-> "select_slate", candidates |-> c, asked |-> n, remaining |-> c, selected |-> <<>>]

-----------------------------------------------------------------------------
(* Rewards.                                                                *)
BetaUpdate(arm, reward) == [alpha |-> QAdd(arm.alpha, reward), beta |-> QAdd(arm.beta, QSub(Q1, reward))]

\* exam_probability of a position counted from zero, and debias_reward.
exam_probability(bias, position) ==
    CASE bias.model = "none"        -> Q1
      [] bias.model = "cascade"     -> <<1, bias.gamma ^ position>>
      [] bias.model = "examination" -> IF bias.probs = <<>> THEN Q1
                                       ELSE bias.probs[AtMost(position + 1, Len(bias.probs))]
debias_reward(bias, reward, position) == QMax(Q0, QMin(Q1, QDiv(reward, exam_probability(bias, position))))
position_weight(position) == Q(1, position + 1)

\* The slots a reward is applied to, and what each of them gets.
ThroughTheClick(slate, clicked, n) == IF clicked # NoClick /\ clicked < n THEN 0 .. clicked ELSE 0 .. n - 1
Updated(slate, clicked) ==
    LET n == AtMost(Len(slate), SlateSlots)
    IN  CASE st.attribution = "CLICKED_SLOT_ONLY" -> {p \in 0 .. n - 1 : p = clicked}
          [] st.attribution = "POSITION_WEIGHTED" -> 0 .. n - 1
          [] st.attribution = "LEAVE_ONE_OUT"     -> ThroughTheClick(slate, clicked, n)
SlotReward(clicked, reward, p) ==
    IF p # clicked THEN Q0
    ELSE debias_reward(st.bias, IF st.attribution = "POSITION_WEIGHTED" THEN QMul(reward, position_weight(p)) ELSE reward, p)

\* update: arms without a posterior in their slot are passed over.
SlateUpdate(slate, clicked, reward) ==
    /\ Len(st.history) < MaxSlates
    /\ LET arm(s) == slate[s]
           touched(s, a) == s - 1 \in Updated(slate, clicked) /\ arm(s) = a
       IN  st' = [st EXCEPT
            !.slot_arms = [s \in 1 .. SlateSlots |-> [a \in SlateArms |->
                IF s <= Len(slate) /\ touched(s, a)
                THEN BetaUpdate(st.slot_arms[s][a], SlotReward(clicked, reward, s - 1)) ELSE st.slot_arms[s][a]]],
            !.total_updates = @ + 1,
            !.history = Append(@, [slate |-> slate, clicked |-> clicked, reward |-> reward])]

SlatePolicyInit ==
    \E model \in {"CLICKED_SLOT_ONLY", "POSITION_WEIGHTED", "LEAVE_ONE_OUT"}, b \in Biases :
        st = [algo |-> "slate_policy", attribution |-> model, bias |-> b, total_updates |-> 0, history |-> <<>>,
              slot_arms |-> [s \in 1 .. SlateSlots |-> [a \in SlateArms |-> [alpha |-> Q1, beta |-> Q1]]]]

-----------------------------------------------------------------------------
(* ConstraintSolver::apply with per-arm bounds only.  Raw probabilities    *)
(* are whole weights and bounds whole quarters: the multiplier absorbs the *)
(* scale of the weights.                                                   *)
Unsatisfiable(lo, hi) == SumOf(lo) > 4 \/ SumOf(hi) < 4

\* clamp(r / c, lo, hi), in quarters times c[1], for c = c[1] / c[2].
ClippedShares(r, lo, hi, c) == [i \in 1 .. Len(r) |-> Clamp(4 * r[i] * c[2], lo[i] * c[1], hi[i] * c[1])]

\* The multipliers at which every arm is at a bound, or the free ones share
\* what the others leave.
Multipliers(r, lo, hi) ==
    LET arms == 1 .. Len(r)
        left(a) == 4 - SumOf([i \in arms |-> CASE a[i] = "lo" -> lo[i] [] a[i] = "hi" -> hi[i] [] OTHER -> 0])
        weight(a) == SumOf([i \in arms |-> IF a[i] = "free" THEN r[i] ELSE 0])
    IN  {c \in {<<4 * weight(a), left(a)>> : a \in [arms -> {"lo", "hi", "free"}]}
                \cup {<<4 * r[i], b>> : i \in arms, b \in Elements(lo) \cup Elements(hi)} :
            c[1] > 0 /\ c[2] > 0}

\* bisect_kl_projection: no multiplier raises an arm of weight zero, so the
\* sum at the lower end counts only its least share; at the upper end every
\* arm is at its least share.
bisect_kl_projection(r, lo, hi) ==
    LET highest == SumOf([i \in 1 .. Len(r) |-> IF r[i] = 0 THEN lo[i] ELSE hi[i]])
    IN  IF Unsatisfiable(lo, hi) \/ highest < 4 THEN <<>>
        ELSE IF SumOf(lo) = 4 THEN [i \in 1 .. Len(r) |-> Q(lo[i], 4)]
        ELSE LET c == CHOOSE c \in Multipliers(r, lo, hi) : SumOf(ClippedShares(r, lo, hi, c)) = 4 * c[1]
             IN  [i \in 1 .. Len(r) |-> Q(ClippedShares(r, lo, hi, c)[i], 4 * c[1])]

\* The raw weights, or uniform ones when there are none.
Reference(p) == IF SumOf(p) = 0 THEN [i \in 1 .. Len(p) |-> 1] ELSE p
ApplyBounds(p, lo, hi) ==
    LET q == bisect_kl_projection(Reference(p), lo, hi) IN [feasible |-> q # <<>>, q |-> q]

ProjectionInit ==
    \E p \in [1 .. 3 -> RawWeights], b \in [1 .. 3 -> ArmBounds] :
        LET lo == [i \in 1 .. 3 |-> b[i][1]]
            hi == [i \in 1 .. 3 |-> b[i][2]]
        IN  st = [algo |-> "projection", p |-> p, lo |-> lo, hi |-> hi, result |-> ApplyBounds(p, lo, hi)]

-----------------------------------------------------------------------------
(* ImpressionTracker, decaying by a half.                                  *)
Decayed(ema, arm) == [a \in DOMAIN ema |-> QAdd(QMul(Q(1, 2), ema[a]), IF a = arm THEN Q(1, 2) ELSE Q0)]
record(arm) ==
    /\ Len(st.recorded) < MaxImpressions
    /\ st' = [st EXCEPT !.ema = Decayed(@, arm), !.recorded = Append(@, arm), !.strangers = @ \/ arm \notin DOMAIN st.ema]
add_per_arm_bound(arm) ==
    /\ arm \notin DOMAIN st.ema
    /\ st' = [st EXCEPT !.ema = [a \in DOMAIN @ \cup {arm} |-> IF a = arm THEN Q0 ELSE @[a]]]
TrackerInit ==
    \E arms \in SUBSET TrackedArms :
        st = [algo |-> "impressions", ema |-> [a \in arms |-> Q(1, Cardinality(arms))],
              recorded |-> <<>>, strangers |-> arms = {}]

SlateBanditInit == SelectSlateInit \/ SlatePolicyInit \/ ProjectionInit \/ TrackerInit
SlateBanditNext ==
    \/ Running("select_slate") /\ \E i \in 1 .. Len(st.remaining) : PickSlot(i)
    \/ Running("slate_policy") /\ \E s \in ShownSlates, r \in SlateRewards, c \in {NoClick} \cup 0 .. SlateSlots : SlateUpdate(s, c, r)
    \/ Running("impressions") /\ \E a \in TrackedArms : record(a) \/ add_per_arm_bound(a)

-----------------------------------------------------------------------------
(* Properties.                                                             *)

\* A slate holds different candidates, as many as were asked for, the policy
\* has slots for and there are.
SlateHasNoRepeats ==
    Running("select_slate") =>
        /\ Elements(st.selected) \subseteq Elements(st.candidates)
        /\ Cardinality(Elements(st.selected)) = Len(st.selected)
        /\ Len(st.selected) + Len(st.remaining) = Len(st.candidates)

\* The evidence of an arm in a slot is the number of slates in which its
\* model says the slot was examined: clicked, shown, or not below the click;
\* and no slate gives it more credit than one success.
EvidenceIsExamined ==
    Running("slate_policy") =>
        \A s \in 1 .. SlateSlots, a \in SlateArms :
            LET shown == {t \in 1 .. Len(st.history) : s <= Len(st.history[t].slate) /\ st.history[t].slate[s] = a}
                click(t) == st.history[t].clicked
                lands(t) == click(t) # NoClick /\ click(t) < AtMost(Len(st.history[t].slate), SlateSlots)
                examined == CASE st.attribution = "CLICKED_SLOT_ONLY" -> {t \in shown : click(t) = s - 1}
                              [] st.attribution = "POSITION_WEIGHTED" -> shown
                              [] st.attribution = "LEAVE_ONE_OUT"     -> {t \in shown : lands(t) => s - 1 <= click(t)}
                arm == st.slot_arms[s][a]
            IN  /\ QSub(QAdd(arm.alpha, arm.beta), Int2Q(2)) = Int2Q(Cardinality(examined))
                /\ QLeq(QSub(arm.alpha, Q1), Int2Q(Cardinality({t \in shown : click(t) = s - 1})))

\* Adjusted probabilities are a distribution within the bounds.
AdjustedMeetsBounds ==
    Running("projection") /\ st.result.feasible =>
        /\ QSum(st.result.q) = Q1
        /\ \A i \in 1 .. 3 : QLeq(Q(st.lo[i], 4), st.result.q[i]) /\ QLeq(st.result.q[i], Q(st.hi[i], 4))

\* The fallback to raw probabilities is taken exactly when no distribution
\* meets the bounds that leaves every arm of raw probability zero at its
\* least share.
FallbackIsNeeded ==
    Running("projection") =>
        (st.result.feasible <=>
            \E q \in [1 .. 3 -> 0 .. 4] :
                /\ SumOf(q) = 4
                /\ \A i \in 1 .. 3 :
                    /\ q[i] \in st.lo[i] .. st.hi[i]
                    /\ (st.p[i] = 0 /\ SumOf(st.p) # 0) => q[i] = st.lo[i])

\* The projection is the closest distribution: probabilities that meet the
\* bounds are left alone, and arms off their bounds keep their proportions.
AdjustedIsClosest ==
    Running("projection") /\ st.result.feasible /\ SumOf(st.p) # 0 =>
        LET q == st.result.q
            inside(i) == QLt(Q(st.lo[i], 4), q[i]) /\ QLt(q[i], Q(st.hi[i], 4))
            within(i) == 4 * st.p[i] \in st.lo[i] * SumOf(st.p) .. st.hi[i] * SumOf(st.p)
        IN  /\ (\A i \in 1 .. 3 : within(i)) => \A i \in 1 .. 3 : q[i] = Q(st.p[i], SumOf(st.p))
            /\ \A i, j \in 1 .. 3 : inside(i) /\ inside(j) => QMul(q[i], Int2Q(st.p[j])) = QMul(q[j], Int2Q(st.p[i]))

\* Impression fractions stay shares of one while every arm recorded is known.
ImpressionsAreShares ==
    Running("impressions") =>
        LET sum[S \in SUBSET DOMAIN st.ema] ==
                IF S = {} THEN Q0 ELSE LET a == CHOOSE a \in S : TRUE IN QAdd(st.ema[a], sum[S \ {a}])
        IN  IF st.strangers THEN QLeq(sum[DOMAIN st.ema], Q1) ELSE sum[DOMAIN st.ema] = Q1
=============================================================================
