---------------------------- MODULE MCAlgorithms ----------------------------
(***************************************************************************)
(* The self-contained algorithms of the services, each on small inputs.    *)
(***************************************************************************)
EXTENDS Sessionizer, Interleaving, Assignment, FeatureFlags, CustomMigrator,
        SqlTranslation, MetricCatalog, MetricQL, FilterSql, ExperimentTypes,
        Readers, Portfolio

\* Targeting operands: a word, two numbers.
MCNumberOf == [v \in {"v", "1", "2"} |-> CASE v = "1" -> 1 [] v = "2" -> 2 [] OTHER -> NotANumber]
MCSubstrings == [v \in {"v", "1", "2"} |-> {v}]

\* Experiments.
Variant(i, f, c) == [id |-> i, fraction |-> f, control |-> c]
AB == [state |-> "RUNNING", type |-> "AB", salt |-> 1, layer |-> "L", start |-> 0, end |-> 0,
       holdout |-> FALSE, variants |-> <<Variant("c", 2, TRUE), Variant("t", 2, FALSE)>>,
       targeting |-> None, cross_session |-> FALSE, arms |-> None, switchback |-> None]
SBConfig(d) == [duration |-> 3, cycles |-> 4, washout |-> 1, design |-> d,
                group |-> [c \in {""} |-> TRUE], coin |-> [x \in {""} \X {0, 1} |-> TRUE]]
NotV == << <<[key |-> "k", operator |-> "NOT_IN", values |-> <<"v">>]>> >>

\* A holdout of each kind beside a regular experiment of its layer and one
\* of another layer.
MCConfigs == {
    [h |-> [AB EXCEPT !.holdout = TRUE],
     a |-> [AB EXCEPT !.salt = 2, !.end = 1],
     s |-> [AB EXCEPT !.type = "SESSION_LEVEL", !.layer = "M", !.end = 1]],
    [h |-> [AB EXCEPT !.holdout = TRUE, !.type = "SESSION_LEVEL", !.cross_session = TRUE],
     a |-> [AB EXCEPT !.type = "META", !.arms = {"x"}, !.salt = 2, !.end = 1],
     w |-> [AB EXCEPT !.type = "SWITCHBACK", !.layer = "M", !.switchback = SBConfig("SIMPLE_ALTERNATING")]],
    [h |-> [AB EXCEPT !.holdout = TRUE, !.type = "MAB"],
     a |-> [AB EXCEPT !.type = "CONTEXTUAL_BANDIT", !.arms = {"x", "y"}],
     w |-> [AB EXCEPT !.type = "SWITCHBACK", !.layer = "M", !.switchback = SBConfig("REGULAR_BALANCED")]],
    [h |-> [AB EXCEPT !.holdout = TRUE, !.targeting = NotV],
     a |-> [AB EXCEPT !.type = "SLATE_BANDIT"],
     b |-> [AB EXCEPT !.targeting = << <<>> >>, !.end = 1]] }
MCSlates == {<<1, 1>>}

\* Heartbeats and the limits of a QoE event.
Heartbeat(id, startup, rebuffering, bitrate, height) ==
    [given |-> {"user_id", "device_id", "content_id"}, timestamp |-> 0, session_id |-> id,
     is_startup |-> startup, is_rebuffering |-> rebuffering, buffer |-> 0,
     bitrate |-> bitrate, height |-> height]
MCHeartbeats == {Heartbeat("c", TRUE, FALSE, 0, 0), Heartbeat("", FALSE, TRUE, 3, 2),
                 Heartbeat("c", FALSE, FALSE, 2, 1), Heartbeat("c", TRUE, TRUE, 1, 1)}
MCLimit == [bitrate |-> 3, height |-> 2, ratio |-> 4, ttff |-> 1, count |-> 1, duration |-> 2]

\* Ranked lists: empty, single, overlapping, with a repeated item.
MCRankings == {<<>>, <<"a">>, <<"a", "b">>, <<"b", "c", "a">>, <<"c", "c", "d">>}

\* Flags, the splits of their variants, and tables: two flags promoted to
\* running experiments, one of them alone, a flag with variants not yet
\* promoted, and a service that could not connect to M5.
FlagPb(t, e, r, v) == [type |-> t, enabled |-> e, rollout |-> r, variants |-> v]
MCFlagRequests == {FlagPb("BOOLEAN", TRUE, 1, <<>>), FlagPb("STRING", FALSE, 2, <<2, 2>>),
                   FlagPb("UNSPECIFIED", TRUE, 1, <<>>)}
MCFlagSplits == {<<>>} \cup {<<a, 4 - a>> : a \in 0 .. 4} \cup {<<1, 1, 1>>}
OnFlag == FlagPb("BOOLEAN", TRUE, 1, <<>>)
Became(f) == [flag |-> f, state |-> "RUNNING", type |-> "AB", variants |-> build_variants(OnFlag, <<>>)]
Table(row, m5, c, r, a, n) == [row |-> row, m5 |-> m5, connected |-> c, reconciling |-> r, action |-> a, calls |-> n]
Linked(e) == [Fresh(OnFlag) EXCEPT !.promoted = e]
MCFlagTables == {
    Table([f |-> Linked(1), g |-> Linked(2)], <<Became("f"), Became("g")>>, TRUE, TRUE, "rollout_full", 0),
    Table([f |-> Linked(1)], <<Became("f")>>, TRUE, TRUE, "rollback", 1),
    Table([f |-> Fresh(FlagPb("STRING", TRUE, 3, <<2, 2>>))], <<>>, TRUE, FALSE, "keep", 2),
    Table([f |-> Fresh(OnFlag)], <<>>, FALSE, TRUE, "keep", 2)}

\* The migration of CUSTOM metrics: the tool's commands on three metrics.
\* A metric of every tier; the expression of the second reads the third,
\* which M5 may not have yet when the report is made.
MCCustomMetrics == <<"a", "b", "c">>
MCShapeOf == [a |-> "tier1_filtered_mean", b |-> "tier2_metricql", c |-> "tier3_untranslatable"]
MCOperandsOf == [a |-> {}, b |-> {"c"}, c |-> {}]

\* SQL of CUSTOM metrics: arithmetic over pivots with every grouping,
\* filters with every pair of predicates, and joins on a window.
Pivot(i) == FnCall("max", <<CaseWhen(Cmp("=", Col("metric_id"), Str(i)), Col("metric_value"), "")>>)
PivotOperands == {Pivot("a"), Pivot("b"), Num("0.5")}
ArithOps == {"+", "-", "*", "/"}
Pairwise == {Arith(op, l, r) : op \in ArithOps, l \in PivotOperands, r \in PivotOperands}
            \cup {Arith("/", l, NullIf(Pivot("b"))) : l \in PivotOperands}
Chained == {Arith(op, l, r) : op \in {"+", "-"}, l \in Pairwise, r \in PivotOperands}
Grouped == {Arith(op, Nest(l), r) : op \in ArithOps, l \in Pairwise, r \in PivotOperands}
           \cup {Arith(op, l, Nest(r)) : op \in ArithOps, l \in PivotOperands, r \in Pairwise}
           \cup {Arith(op, Nest(Arith(p, Pivot("a"), Pivot("b"))), Nest(r)) : op \in ArithOps, p \in ArithOps, r \in Pairwise}
Item(e) == [e |-> e, alias |-> ""]
Select(items, main, join, on, where) ==
    [kind |-> "select", items |-> items, main |-> main, join |-> join, on |-> on, where |-> where]
Ratio == Arith("/", FnCall("sum", <<Pivot("a")>>), Nest(FnCall("sum", <<Pivot("b")>>)))
MCArithmetic ==
    {Select(<<Item(Col("user_id")), Item(e)>>, "metric_summaries", "", {}, {}) : e \in Pairwise \cup Chained \cup Grouped}
    \cup {Select(<<Item(Ratio)>>, "events", "", {}, {})}

TypeIs(t) == Cmp("=", Col("event_type"), Str(t))
XIs(v) == Cmp("=", Col("x"), Str(v))
Predicates == {
    TypeIs("e"), TypeIs("f"), XIs("1"), Cmp("!=", Nest(Col("x")), Str("2")), Cmp("=", Str("1"), Col("x")),
    InList("", Col("x"), <<Str("1"), Str("2")>>), InList("NOT", Col("x"), <<Str("1")>>),
    IsNull("", Col("x")), NotE(Nest(XIs("1"))), Nest(Logic("OR", XIs("1"), TypeIs("f"))),
    Nest(Logic("AND", XIs("1"), Nest(IsNull("NOT", Col("x"))))), Nest(Logic("OR", Col("flag"), Col("x"))),
    Opaque("like", Col("x")), Cmp("=", Col("x"), Opaque("subquery", Star))}
Aggregates == {
    FnCall("avg", <<Col("v")>>), Arith("/", Nest(FnCall("sum", <<Col("v")>>)), FnCall("count", <<Star>>)),
    FnCall("sum", <<Col("v")>>), Cast(FnCall("count", <<Star>>)),
    Cast(FnCall("max", <<CaseWhen(TypeIs("e"), Num("1"), "else")>>)),
    Windowed("avg", <<Col("v")>>), Arith("*", FnCall("avg", <<Col("v")>>), FnCall("rand", <<>>))}
And(p, q) == Logic("AND", p, q)
MCFiltered ==
    {Select(<<Item(Col("user_id")), Item(a)>>, "metric_events", "", {}, {And(And(p, q), r)}) :
        a \in Aggregates, p \in {TypeIs("e"), XIs("1")}, q \in Predicates, r \in Predicates}
    \cup {Select(<<Item(a)>>, "metric_events", j, {}, w) :
            a \in Aggregates, j \in {"exposures", "users"}, w \in {{}} \cup {{p} : p \in Predicates}}

Timed(op, e) == Cmp(op, Col("event_timestamp"), e)
Until(n) == Timed("<", Arith("+", Col("exposure_ts"), Interval(n)))
SameUser == Cmp("=", Col("user_id"), Col("user_id"))
MCWindowed ==
    {Select(<<Item(Cast(FnCall("count", <<Star>>)))>>, main, "metric_events",
            {And(And(And(SameUser, TypeIs("e")), And(Timed(">=", Col("exposure_ts")), Until(n))), p)}, {}) :
        main \in {"exposures", "users"}, n \in {"1", "2", "9", "day"},
        p \in Predicates \ {TypeIs("f"), Nest(Logic("OR", Col("flag"), Col("x")))}}
    \cup {[Select(<<Item(Pivot("a"))>>, "metric_summaries", "", {}, {}) EXCEPT !.kind = "with"]}
MCStatements == MCArithmetic \cup MCFiltered \cup MCWindowed

\* Metric definitions: leaves, composites and expressions that may close a
\* cycle, and two migrations of one metric.
Leaf(i, t) ==
    [id |-> i, name |-> "n", type |-> t, config |-> NoConfig,
     expression |-> [reads |-> "blank", refs |-> <<>>]]
Comp(i, op, s) ==
    [Leaf(i, "COMPOSITE") EXCEPT !.config =
        [of |-> "COMPOSITE", operator |-> op,
         operands |-> [k \in 1 .. Len(s) |-> [id |-> s[k], weight |-> 1]]]]
Ql(i, s) == [Leaf(i, "METRICQL") EXCEPT !.expression = [reads |-> "ok", refs |-> s]]
Create(d) == [kind |-> "create", def |-> d, old |-> "", shadow |-> "", operator |-> ""]
Migrate(d, o) == [kind |-> "migrate", def |-> d, old |-> o, shadow |-> "s", operator |-> "op"]
MCMetricRequests == {
    Create(Leaf("a", "CUSTOM")), Create(Leaf("b", "MEAN")),
    Create(Comp("b", "ADD", <<"a", "a">>)), Create(Ql("a", <<"b">>)),
    Create(Ql("c", <<"b">>)), Create(Ql("d", <<"c">>)),
    Create(Comp("d", "SUBTRACT", <<"b", "c">>)), Create(Comp("d", "SUBTRACT", <<"d", "c", "a">>)),
    Migrate(Ql("c", <<"a">>), "a"), Migrate(Ql("d", <<>>), "a")}

\* Bucket ranges: overlapping, contained, and one past the layer's end.
MCRanges == {[start |-> 0, end |-> 2], [start |-> 1, end |-> 2], [start |-> 1, end |-> 3]}

\* Typed experiments.
At(s, n) == [seconds |-> s, nanos |-> n]
Instants == {None} \cup {At(x, n) : x \in 0 .. 4, n \in 0 .. 2}
Typed(t, c) == [type |-> t, variants |-> <<"c", "t">>, config |-> c, equivalence |-> None]
MCTyped ==
    {Typed("SWITCHBACK", [cycles |-> c, duration |-> d, washout |-> w]) :
        c \in 2 .. 5, d \in 0 .. 3, w \in -1 .. 3}
    \cup {Typed("QUASI", [treated |-> "u", donors |-> s, outcome |-> "m", pre |-> p, treatment |-> t]) :
            s \in {<<"d">>, <<"d", "e">>}, p \in Instants, t \in Instants}
    \cup {Typed("META", [algorithm |-> a, outcomes |-> {"m"}, objectives |-> o]) :
            a \in {"UNSPECIFIED", "LINUCB"},
            o \in {<< <<4>> >>, << <<4>>, <<2, 2>> >>, << <<4>>, <<>> >>, << <<4>>, <<2, 1>> >>}}
    \cup {Typed("META", None)}
    \cup {[Typed("AB", None) EXCEPT !.equivalence = [delta |-> d, alpha |-> a, relative |-> 0]] :
            d \in {None, 0, 1}, a \in 0 .. 2}

\* Portfolios: an open layer, a full one, and one with nothing running.
Exp(l, m, g, r, a) ==
    [state |-> "RUNNING", layer |-> l, metric |-> m, guardrails |-> g, rule |-> r,
     allocation |-> a, fraction |-> 100]
Alloc(s, t) == [start |-> s, end |-> t, total |-> 100]
Sleeping == [Exp("L", "m", {}, "", NoAllocation) EXCEPT !.state = "PAUSED"]
MCPortfolios == {
    [a |-> Exp("L", "m", {"g"}, "", Alloc(0, 50)), b |-> Exp("L", "m", {"g"}, "", NoAllocation),
     c |-> Exp("M", "", {}, "r", NoAllocation)],
    [a |-> Exp("L", "m", {"g"}, "", Alloc(0, 9)), b |-> Exp("L", "m", {}, "r", Alloc(10, 99)),
     c |-> Exp("L", "n", {"g"}, "", NoAllocation), d |-> Sleeping],
    [d |-> Sleeping]}
MCOverrides == UNION {[S -> {0, 1, 2, 5, 9}] : S \in SUBSET {"a", "b", "c"}}
MCOutcomes == [p : {0, 4, 5, 9, 10}, alpha : {5}, effect : -1 .. 1, elapsed : {0, 50, 100},
               power : {49, 50, 80}, breached : BOOLEAN]
MCIntervals == {x \in [lower : -2 .. 2, upper : -2 .. 2, delta : {1}] : x.lower <= x.upper}

\* Source texts, and token sequences: every arithmetic one up to five
\* tokens, five whole sentences, and those with one token dropped or changed.
MCSources == UNION {[1 .. n -> {" ", "a", "1", ".", "'", "!", "=", "<", "A"}] : n \in 0 .. 4}
Arithmetic == UNION {[1 .. n -> {"@", "a", "1", "-", "*", "(", ")"}] : n \in 0 .. 5}
Spoken == {
    <<"mean", "(", "a", ".", "b", ")", "where", "a", "=", "'s'", "and", "b", ".", "a", "in",
      "[", "1", ",", "'s'", "]", "within", "1", "days", "of", "exposure">>,
    <<"percentile", "(", "0.5", ")", "(", "a", ".", "b", ")", "within", "100", "hours", "of", "exposure">>,
    <<"count", "(", "a", ")">>,
    <<"sum", "(", "a", ".", "b", ")", "where", "a", "<", "0">>,
    <<"ratio", "(", "@", "a", ",", "@", "b", ")", "/", "1", "-", "@", "b">>}
Without(t, i) == SubSeq(t, 1, i - 1) \o SubSeq(t, i + 1, Len(t))
Misspelt ==
    UNION {{Without(t, i) : i \in 1 .. Len(t)} : t \in Spoken}
    \cup UNION {{[t EXCEPT ![i] = x] : i \in 1 .. Len(t),
                   x \in {"a", "0", "100", "(", "]", ",", "and", "within", "count", "@"}} : t \in Spoken}
MCSentences == Arithmetic \cup Spoken \cup Misspelt

\* Filters: words, quotes and parentheses; numbers and punctuation.
MCFilters ==
    UNION {[1 .. n -> {"x", "'", "(", " ", "S", "I", "U", "N"}] : n \in 0 .. 5}
    \cup UNION {[1 .. n -> {"1", "-", ".", "=", "!", "x", "X", ",", ")", ";", "#"}] : n \in 0 .. 4}

Init ==
    \/ SlateInit \/ VariantsInit \/ BroadcastInit \/ ScanInit \/ TargetingInit \/ InterleaveInit
    \/ ValidationInit \/ AssignmentInit \/ SessionInit
    \/ FlagsInit \/ EvaluationInit \/ CatalogInit \/ ReuseInit \/ TypesInit
    \/ ListingInit \/ PortfolioInit \/ MetricQLInit \/ FilterInit
    \/ MigratorInit \/ DurationInit \/ TranslationInit

Next ==
    \/ SessionNext \/ InterleaveNext \/ AssignmentNext \/ BroadcastNext
    \/ ScanNext \/ FlagsNext \/ MigratorNext
    \/ CatalogNext \/ ReuseNext \/ ListingNext \/ PortfolioNext

\* An expression or a filter means what its text says: nothing is lost, cut
\* or regrouped between the text, the tokens, the tree and the references,
\* and the parser's language is the documented one.
LanguageIsExact ==
    /\ LexIsExact /\ ParserIsItsGrammar /\ TreeIsRight /\ RefsAreComplete
    /\ FilterPassesAgree
=============================================================================
