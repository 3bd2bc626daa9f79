----------------------------- MODULE Portfolio -----------------------------
(***************************************************************************)
(* Portfolio optimisation of the Rust management service: what share of    *)
(* its layer's traffic each running experiment should get, which           *)
(* experiments conflict, what significance level each may use, and what to *)
(* decide about one.  Shares are fractions, compared by cross-             *)
(* multiplication; probabilities and powers are in parts of Hundred.       *)
(* At the end, with the two allocators of buckets: what a layer has to     *)
(* give is accounted for.                                                  *)
(***************************************************************************)
EXTENDS AllocatorScan, BucketReuse

CONSTANTS
    Portfolios,   \* [experiment id -> [state, layer, metric, guardrails, rule, allocation, fraction]]
    Overrides,    \* priority overrides: [a set of ids -> Int]
    Outcomes,     \* [p, alpha, effect, elapsed, power, breached] of an analysis
    Intervals,    \* [lower, upper, delta] of an equivalence test
    Hundred,      \* the denominator of probabilities, powers and fractions
    NoAllocation

ASSUME PortfolioAssumption ==
    /\ \A p \in Portfolios : IsFiniteSet(DOMAIN p)
    /\ \A o \in Overrides : \A e \in DOMAIN o : o[e] \in Int
    /\ Hundred \in Nat
    /\ Outcomes \subseteq [p : Int, alpha : Int, effect : Int, elapsed : Int, power : Int, breached : BOOLEAN]
    /\ \A i \in Intervals : i \in [lower : Int, upper : Int, delta : Int] /\ i.lower <= i.upper

MinPriority == 1
MaxPriority == 5
DefaultPriority == 3
clamp_priority(p) == Clamp(p, MinPriority, MaxPriority)

PriorityOf(overrides, e) ==
    IF e \in DOMAIN overrides THEN clamp_priority(overrides[e]) ELSE DefaultPriority

\* The sum of the values of a function on a finite set.
SumOver(f) ==
    LET sum[T \in SUBSET DOMAIN f] ==
            IF T = {} THEN 0 ELSE LET x == CHOOSE x \in T : TRUE IN f[x] + sum[T \ {x}]
    IN  sum[DOMAIN f]

-----------------------------------------------------------------------------
(* The request.                                                            *)

\* The running experiments, of one layer if the request names one.
Considered(portfolio, layer) ==
    {e \in DOMAIN portfolio : portfolio[e].state = "RUNNING"
                              /\ (layer = "" \/ portfolio[e].layer = layer)}

\* An active allocation gives the buckets; without one they are made up from
\* the variants' fractions, on a layer of Hundred buckets.
BucketsOf(x) ==
    IF x.allocation # NoAllocation THEN x.allocation
    ELSE [start |-> 0, end |-> AtLeast(x.fraction, 1) - 1, total |-> Hundred]

\* traffic_fraction, as <<numerator, denominator>>.
traffic_fraction(x) ==
    LET b == BucketsOf(x)
    IN  IF b.total <= 0 THEN <<0, 1>> ELSE <<Clamp(b.end - b.start + 1, 0, b.total), b.total>>

PortfolioInit ==
    \/ \E p \in Portfolios, o \in Overrides : \E l \in {""} \cup {p[e].layer : e \in DOMAIN p} :
           st = [algo |-> "portfolio", all |-> p, overrides |-> o, layer |-> l,
                 considered |-> Considered(p, l), answer |-> NoAllocation]
    \/ \E o \in Outcomes, i \in Intervals : st = [algo |-> "decision", outcome |-> o, interval |-> i]

-----------------------------------------------------------------------------
(* optimize.                                                               *)

LayerOf(e) == {f \in st.considered : st.all[f].layer = st.all[e].layer}

\* recommend_layer: the experiment's priority among its layer's, at most half.
PriorityTotal(S) == SumOver([f \in S |-> PriorityOf(st.overrides, f)])
UncappedShare(e) == <<PriorityOf(st.overrides, e), PriorityTotal(LayerOf(e))>>
Capped(s) == IF 2 * s[1] > s[2] THEN <<1, 2>> ELSE s
PortfolioShare(e) == <<PriorityOf(st.overrides, e), PriorityTotal(st.considered)>>
recommend_layer(e) == Capped(UncappedShare(e))

RatioLess(a, b) == a[1] * b[2] < b[1] * a[2]

\* Less than three quarters of what is recommended.
Underpowered(e) ==
    LET share == recommend_layer(e)
    IN  share[1] > 0 /\ RatioLess(traffic_fraction(st.all[e]), <<3 * share[1], 4 * share[2]>>)

\* detect_conflicts: each unordered pair of a layer, by the three rules.
Conflicting(a, b, type) ==
    /\ a.layer = b.layer
    /\ CASE type = "primary"    -> a.metric = b.metric /\ a.metric # ""
         [] type = "guardrail"  -> a.guardrails \cap b.guardrails # {}
         [] type = "population" -> a.rule = "" /\ b.rule = ""
detect_conflicts ==
    {c \in [pair : SUBSET st.considered, type : {"primary", "guardrail", "population"}] :
        \E a, b \in st.considered : a # b /\ c.pair = {a, b} /\ Conflicting(st.all[a], st.all[b], c.type)}

\* recommend_alpha, in parts of the family's alpha: the priority's share of
\* it, but at least the uniform share.
recommend_alpha(e) ==
    LET uniform == <<1, Cardinality(st.considered)>>
    IN  IF RatioLess(PortfolioShare(e), uniform) THEN uniform ELSE PortfolioShare(e)

get_portfolio_allocation ==
    /\ st.answer = NoAllocation
    /\ st' = [st EXCEPT !.answer =
                [share |-> [e \in st.considered |-> recommend_layer(e)],
                 underpowered |-> {e \in st.considered : Underpowered(e)},
                 conflicts |-> detect_conflicts]]

PortfolioNext == Running("portfolio") /\ get_portfolio_allocation

-----------------------------------------------------------------------------
(* Decisions about one experiment.                                         *)

Half == Hundred \div 2

classify_learning(o) ==
    CASE o.p < o.alpha /\ o.effect > 0        -> "Winner"
      [] o.p < o.alpha /\ o.effect <= 0       -> "Loser"
      [] o.p >= o.alpha /\ 10 * o.power >= 8 * Hundred -> "Null"
      [] OTHER -> IF o.p < 2 * o.alpha THEN "Directional" ELSE "Inconclusive"

\* The end of both decisions: time is up, or power is lacking half-way.
WithoutVerdict(o) ==
    IF o.elapsed >= Hundred THEN "Stop"
    ELSE IF o.elapsed >= Half /\ o.power < Half THEN "Extend" ELSE "Continue"

evaluate_decision(o) ==
    IF o.breached THEN "Stop"
    ELSE IF o.p < o.alpha THEN (IF o.effect > 0 THEN "Ship" ELSE "Stop")
    ELSE WithoutVerdict(o)

\* The equivalence flag comes from M4a: the interval lies within the margin.
Equivalent(i) == -i.delta < i.lower /\ i.upper < i.delta
evaluate_equivalence_decision(o, i) ==
    IF o.breached THEN "Stop"
    ELSE IF Equivalent(i) THEN "SafeToMigrate"
    ELSE IF i.lower > i.delta \/ i.upper < -i.delta THEN "NotEquivalent"
    ELSE WithoutVerdict(o)

-----------------------------------------------------------------------------
(* Properties.                                                             *)

\* Recommendations never oversubscribe a layer, give no experiment more than
\* half of it, and give a higher priority no less than a lower one - for
\* every override, those out of range included, and whether the request
\* names a layer or not.
LayerIsNotOversubscribed ==
    Running("portfolio") /\ st.answer # NoAllocation =>
        \A e \in st.considered :
            LET layer == LayerOf(e)
                share == st.answer.share
                \* the shares of one layer have one denominator, or are halves
                total == PriorityTotal(layer)
                parts == [f \in layer |-> IF share[f] = <<1, 2>> THEN total ELSE 2 * share[f][1]]
            IN  /\ SumOver(parts) <= 2 * total
                /\ \A f \in layer :
                      PriorityOf(st.overrides, e) < PriorityOf(st.overrides, f) =>
                          ~RatioLess(share[f], share[e])

\* The recommended levels, in units of which the family's alpha has FamilyAlpha:
\* each experiment gets at least the uniform share.
FamilyAlpha == Cardinality(st.considered) * PriorityTotal(st.considered)
AlphaLevels == [e \in st.considered |-> (recommend_alpha(e)[1] * FamilyAlpha) \div recommend_alpha(e)[2]]

\* With this floor the levels of a family add up to its alpha only if all
\* priorities are equal; otherwise they exceed it, by less than as much again.
AlphaIsOverspent ==
    Running("portfolio") /\ st.considered # {} =>
        LET p(e) == PriorityOf(st.overrides, e)
        IN  /\ \A e \in st.considered : Cardinality(st.considered) * AlphaLevels[e] >= FamilyAlpha
            /\ SumOver(AlphaLevels) >= FamilyAlpha /\ SumOver(AlphaLevels) < 2 * FamilyAlpha
            /\ SumOver(AlphaLevels) = FamilyAlpha <=> \A e, f \in st.considered : p(e) = p(f)

\* A decision agrees with the learning it is classified as: an experiment is
\* shipped only as a winner with its guardrails intact, and a loser is
\* stopped; a migration is called safe only when the experiment could not be
\* called harmful on the same interval.
DecisionAgrees ==
    Running("decision") =>
        LET o == st.outcome
            i == st.interval
        IN  /\ evaluate_decision(o) = "Ship" => classify_learning(o) = "Winner" /\ ~o.breached
            /\ classify_learning(o) = "Loser" => evaluate_decision(o) = "Stop"
            /\ evaluate_equivalence_decision(o, i) = "SafeToMigrate" =>
                  ~o.breached /\ i.lower <= i.delta /\ i.upper >= -i.delta

\* A layer's buckets and error budget are never handed out twice: the scan
\* for free buckets is exact, reuse waits for the cooldown, and what the
\* portfolio recommends fits the layer, overspends the family's alpha only as
\* far as priorities differ, and agrees with the evidence.
LayersAreAccounted ==
    /\ ScanMatchesRelation /\ ScanIsFirstFit /\ CooldownIsKept
    /\ LayerIsNotOversubscribed /\ AlphaIsOverspent /\ DecisionAgrees

LayersSpec == (ScanInit \/ ReuseInit \/ PortfolioInit) /\ [][ScanNext \/ ReuseNext \/ PortfolioNext]_st
=============================================================================
