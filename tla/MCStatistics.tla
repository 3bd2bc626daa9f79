---------------------------- MODULE MCStatistics ----------------------------
(***************************************************************************)
(* The statistics library, the analysis service and the bandits on small   *)
(* samples.                                                                *)
(***************************************************************************)
EXTENDS Bandits, SlateBandits, AnalysisReports, ResamplingTests, CausalEstimates

\* Rows of a clustered regression: a binary outcome, two clusters, two arms.
MCRows == [value : {0, 1}, cluster : {"a", "b"}, treated : BOOLEAN]

\* Subgroups: constant, varied and single-observation arms.
QSeq(s) == [i \in 1 .. Len(s) |-> Int2Q(s[i])]
MCSubgroups ==
    {[control |-> QSeq(c), treatment |-> QSeq(t)] :
        c \in {<<0, 0>>, <<0, 1>>, <<0, 2>>}, t \in {<<0>>, <<0, 0>>, <<1, 3>>, <<0, 2>>}}

\* Cumulative error spent at each look, in sixteenths: early and late
\* spending, a look that spends nothing, a single look.
MCSpendings == {<<1, 2, 4, 8>>, <<1, 8, 9, 10>>, <<1, 4, 6>>, <<2, 6, 10, 14>>, <<1, 2>>,
                <<0, 1, 2, 4>>, <<0, 4>>, <<2, 4, 6, 6>>, <<1, 2, 6, 15>>, <<1>>}

\* Metric summaries: for each metric and variant no rows, one, two that vary
\* or do not, or two segments of sessions with logged probabilities.
Row(m, v, u, y, x) ==
    [metric |-> m, variant |-> v, user |-> u, value |-> y, covariate |-> x,
     segment |-> NoValue, session |-> NoValue, probability |-> NoValue]
Logged(m, v, u, y, s) == [Row(m, v, u, y, NoValue) EXCEPT !.segment = s, !.session = "s", !.probability = 8]
MCSample(kind, m, v) ==
    CASE kind = "none"     -> <<>>
      [] kind = "one"      -> <<Row(m, v, 1, 1, 1)>>
      [] kind = "constant" -> <<Row(m, v, 1, 2, 1), Row(m, v, 2, 2, NoValue)>>
      [] kind = "varied"   -> <<Row(m, v, 1, 0, 0), Row(m, v, 2, 1, 2)>>
      [] kind = "high"     -> <<Row(m, v, 1, 3, 1), Row(m, v, 2, 5, 3), Row(m, v, 3, 4, 3)>>
      [] kind = "logged"   -> <<Logged(m, v, 1, 0, "NEW"), Logged(m, v, 1, 2, "NEW"),
                                Logged(m, v, 2, 1, "TRIAL"), Logged(m, v, 3, IF v = "a" THEN 7 ELSE 4, "TRIAL")>>
MCTable(k) ==
    MCSample(k[1], "m1", "b") \o MCSample(k[2], "m1", "control") \o MCSample(k[3], "m1", "a")
        \o MCSample(k[4], "m2", "a") \o MCSample(k[5], "m2", "control")
MCTables ==
    {MCTable(k) : k \in {"none", "logged"} \X {"one", "constant", "varied", "logged"} \X {"one", "constant", "high", "logged"}
                        \X {"none", "high"} \X {"varied"}}
        \cup {MCTable(<<"varied", "none", "high", "none", "none">>), MCTable(<<"none", "varied", "none", "none", "none">>), <<>>}
MCGrowth == <<MCTable(<<"none", "varied", "one", "none", "none">>), MCTable(<<"none", "varied", "high", "none", "none">>),
              MCTable(<<"varied", "varied", "high", "none", "none">>)>>
Interim(f, p) == [favorable |-> f, promising |-> p, target |-> 5, multiple |-> 2, extension |-> 2]
Equivalence(d, r, a) == [delta |-> d, relative |-> r, alpha |-> a]
MCAnalyses == {
    [method |-> "NONE", covariate |-> FALSE, adaptive |-> NoValue, equivalence |-> Equivalence(4, NoValue, 0)],
    [method |-> "AVLM", covariate |-> TRUE, adaptive |-> Interim(30, 1), equivalence |-> NoValue],
    [method |-> "MSPRT", covariate |-> FALSE, adaptive |-> Interim(1, 1), equivalence |-> Equivalence(0, 2, 2)]}
MCNameOrder == <<"NEW", "TRIAL", "a", "b", "control", "m1", "m2">>

\* Panels and series of one and two metrics; no, one and two treated units.
PanelRow(m, u, p, post, t) == [metric |-> m, unit |-> u, period |-> p, post |-> post, treated |-> t, value |-> 10 * p + Len(m)]
MCPanelRows == {
    <<PanelRow("m1", "b", 1, FALSE, TRUE), PanelRow("m1", "b", 2, TRUE, TRUE), PanelRow("m1", "a", 1, FALSE, FALSE),
      PanelRow("m1", "a", 2, TRUE, FALSE), PanelRow("m2", "a", 3, TRUE, TRUE)>>,
    <<PanelRow("m1", "b", 1, FALSE, TRUE), PanelRow("m1", "b", 2, FALSE, TRUE), PanelRow("m1", "b", 3, TRUE, TRUE),
      PanelRow("m1", "a", 1, FALSE, FALSE), PanelRow("m1", "a", 2, FALSE, FALSE)>>,
    <<PanelRow("m1", "b", 1, FALSE, TRUE), PanelRow("m1", "a", 1, FALSE, TRUE)>>, <<>>}
EffectRow(m, p, t) == [metric |-> m, period |-> p, value |-> p * p, treated |-> t]
MCEffectRows == {
    <<EffectRow("m1", 4, TRUE), EffectRow("m2", 2, TRUE), EffectRow("m2", 3, FALSE), EffectRow("m2", 5, TRUE)>>,
    <<EffectRow("m1", 7, TRUE), EffectRow("m1", 5, FALSE), EffectRow("m2", 1, TRUE), EffectRow("m2", 3, FALSE)>>}
MCSheets ==
    LET score == [algorithms : {{"a", "b"}}, winner : {"a", "b", NoValue}]
                    \cup [algorithms : {{"a", "b", "control"}}, winner : {"a", "control", "m1"}]
    IN  UNION {[1 .. n -> score] : n \in 0 .. 3}
WatchRow(v, c, w, n) == [variant |-> v, content |-> c, watch |-> w, viewers |-> n]
MCWatchTables ==
    {<<WatchRow("control", "m1", x[1], x[2]), WatchRow("control", "m2", 2, 3), WatchRow("a", "m1", x[3], x[4]),
       WatchRow("a", x[5], 2, 3), WatchRow(x[6], "NEW", 1, 1)>> :
        x \in {0, 4} \X {0, 1, 9} \X {1, 4} \X {1, 9} \X {"m2", "TRIAL"} \X {"control", "b"}}
        \cup {<<WatchRow("control", "m1", 4, 1), WatchRow("control", "m2", 2, 3), WatchRow("a", "m2", 2, 3), WatchRow("a", "m1", 4, 1)>>}
MCRetrainings == UNION {[1 .. n -> [contamination : {0, 1, 4, 5}, pre : {1}, post : {1, 2, 5}]] : n \in 2 .. 3}
MCProjections == UNION {[1 .. n -> [predicted : {0, 1, 4}, actual : {0, 1, 3}, low : {0}, high : {2}]] : n \in 0 .. 3}
MCDailyEffects ==
    {[i \in 1 .. 3 |-> [day |-> 2 * (i - 1), effect |-> y[i], size |-> w[i]]] :
        y \in [1 .. 3 -> {0, 1, 3}], w \in [1 .. 3 -> {1, 2}]}

\* Switchbacks: alternating, in reverse order, with a washout, and two that
\* are refused.
Block(i, t, w) == [index |-> i, treated |-> t, washout |-> w]
Alternating(n) == [i \in 1 .. n |-> Block(i, i % 2 = 0, FALSE)]
MCBlockPlans == {
    Alternating(4), Alternating(5),
    [i \in 1 .. 5 |-> Block(6 - i, i > 3, FALSE)],
    [i \in 1 .. 5 |-> Block((i * 2) % 5, i = 3, i = 1)],
    [i \in 1 .. 4 |-> Block(i, TRUE, FALSE)],
    [i \in 1 .. 4 |-> Block(i, i < 3, i = 4)] }
MCBlockValues == {-1, 0, 2}
MCArmPairs == {<<<<0, 1>>, <<0, 2>>>>, <<<<1, 1>>, <<0, 1, 3>>>>}

\* Instruments: uneven folds, and folds without variation of the treatment.
MCInstruments == {<<0, 0, 1, 1>>, <<0, 1, 2, 0, 1>>}

\* Q-functions: nothing fitted, and two that are wrong.
MCQWeights == {
    <<<<Q0, Q0, Q0>>, <<Q0, Q0, Q0>>>>,
    <<<<Q1, Q0, Int2Q(2)>>, <<Q(1, 2), Q1, Q0>>>>,
    <<<<Int2Q(-1), Q1, Q1>>, <<Int2Q(3), Int2Q(-2), Q1>>>>}
MCFirstRewards == {[a \in {0, 1} |-> 2 * a], [a \in {0, 1} |-> 1 - a]}
MCSecondRewards == [{0, 1} \X {0, 1} -> {0, 3}]
MCDiscounts == {Q1, Q(1, 2)}
MCTargetShares == {Q0, Q(1, 4), Q1}
MCLoggedShares == {Q(1, 2), Q(2, 3), Q1}
MCMaxDensityRatio == Int2Q(4)
Panel(values, n) == [donors : [1 .. 2 -> [1 .. n -> values]], treated : [1 .. n -> values]]
Alternate(p, q) == <<p, q, p, q, p, q, p, q>>
MCPanels ==
    Panel({-1, 0, 2}, 2) \cup Panel({0, 1}, 4)
    \cup {[donors |-> <<Alternate(1, 0), Alternate(0, k)>>, treated |-> Alternate(p, q)] : k \in 1 .. 2, p \in -1 .. 2, q \in 0 .. 2}
MCLinearSystems ==
    {[a |-> <<<<x[1], x[2]>>, <<x[3], x[4]>>>>, b |-> <<1, 3>>] : x \in [1 .. 4 -> {-1, 0, 2}]}
        \cup {[a |-> <<<<x[1], x[2], x[3]>>, <<x[4], x[5], x[6]>>, <<x[7], x[8], x[9]>>>>, b |-> <<1, 0, 2>>] :
                  x \in [1 .. 9 -> {0, 1}]}
MCShares == {Q(1, 100), Q(1, 10), Q(1, 2), Q(4, 5)}
PowerSpec(v, d, n) == [variance |-> v, delta2 |-> d, n_variants |-> n]
MCPowerSpecs == {<<PowerSpec(1, 2, 2)>>, <<PowerSpec(1, 2, 2), PowerSpec(3, 2, 3)>>,
                 <<PowerSpec(1, 5, 3), PowerSpec(2, 2, 2), PowerSpec(5, 3, 2)>>}

\* Two arms, two features of which a context may lack one.
MCBanditArms == <<"x", "y">>
MCBanditFeatures == <<"f", "g">>
MCBanditContexts == {[f |-> 1], [f |-> 1, g |-> 1]}
MCBanditRewards == {-1, 1}
MCUcbAlpha == Q1
MCDifferences == {-1, 0, 2}
MCSigmaSquared == Int2Q(2)
MCMetricValues == {-1, 0, 2}

\* Slates with an arm the policy does not know, shorter and longer than it.
MCCandidateLists == {<<>>, <<"x">>, <<"x", "y">>, <<"y", "q", "x">>}
MCShownSlates == {<<"x", "y">>, <<"y", "q">>, <<"y">>, <<"q", "x", "y">>}
MCSlateRewards == {Q1, Q(1, 3)}
MCBiases == {[model |-> "none"], [model |-> "cascade", gamma |-> 2], [model |-> "examination", probs |-> <<Q(1, 2)>>]}
MCArmBounds == {<<0, 4>>, <<1, 4>>, <<0, 2>>, <<2, 2>>, <<0, 1>>}

Init ==
    \/ TostInit \/ SrmInit \/ GstInit \/ InterimInit \/ CorrectionsInit \/ WageredInit
    \/ WeightedInit \/ ArmsInit \/ ClusteredInit \/ SubgroupsInit \/ ReportsInit
    \/ ResamplingInit \/ BanditInit \/ SlateBanditInit \/ AnalysisInit \/ CausalInit \/ AnalysedInit

Next == BanditNext \/ SlateBanditNext \/ AnalysisNext \/ CausalNext

\* However selections, rewards and restarts interleave, what a bandit keeps
\* is what its history determines, and what it reports of a selection can be
\* used to correct for it.
BanditsAreSound ==
    /\ PropensitiesAreProper /\ PosteriorIsRidge /\ PlacementIsBest
    /\ MixingReachesEveryArm /\ WealthIgnoresPolicy /\ StatsAreWeighted
    /\ IdealIsHighest /\ SlateHasNoRepeats /\ EvidenceIsExamined
    /\ AdjustedMeetsBounds /\ FallbackIsNeeded /\ AdjustedIsClosest
    /\ ImpressionsAreShares
=============================================================================
