--------------------------- MODULE SqlTranslation ---------------------------
(***************************************************************************)
(* How the migration tool turns the SQL of a CUSTOM metric into a          *)
(* structured metric: the classifier that recognises a shape, the tier 1   *)
(* translators (filtered mean, windowed count, composite), and the tier 2  *)
(* translators, which write MetricQL that M5's own parser reads back.      *)
(* SQL is its syntax tree, as the SQL parser hands it over.  An optional   *)
(* result is a set of at most one member.                                  *)
(***************************************************************************)
EXTENDS MetricQL, Rationals

CONSTANTS
    Statements,     \* statements of CUSTOM metrics
    MaxWindow       \* the longest window M5 accepts, in hours

-----------------------------------------------------------------------------
(* Syntax trees: a kind, a text and subtrees.                              *)

Sql(k, v, kids) == [k |-> k, v |-> v, kids |-> kids]
Col(c)       == Sql("col", c, <<>>)
Str(s)       == Sql("str", s, <<>>)
Num(n)       == Sql("num", n, <<>>)
Nest(e)      == Sql("nest", "", <<e>>)
Arith(op, l, r) == Sql("arith", op, <<l, r>>)
Cmp(op, l, r)   == Sql("cmp", op, <<l, r>>)
Logic(op, l, r) == Sql("logic", op, <<l, r>>)
NotE(e)      == Sql("not", "", <<e>>)
InList(neg, e, list) == Sql("in", neg, <<e>> \o list)
IsNull(neg, e) == Sql("isnull", neg, <<e>>)
FnCall(f, args)  == Sql("fn", f, args)
Windowed(f, args)  == Sql("over", f, args)
NullIf(e)      == Sql("nullif", "", <<e>>)
CaseWhen(c, r, else) == Sql("case", else, <<c, r>>)
Cast(e)        == Sql("cast", "", <<e>>)
Interval(n)    == Sql("interval", n, <<>>)
Star           == Sql("star", "", <<>>)
Opaque(k, e)   == Sql(k, "", <<e>>)      \* a subquery, LIKE, BETWEEN...

BinaryKinds == {"arith", "cmp", "logic"}

\* The nodes reached from e through nodes of some kinds.
RECURSIVE Within(_, _)
Within(e, kinds) ==
    {e} \cup IF e.k \in kinds THEN UNION {Within(e.kids[i], kinds) : i \in 1 .. Len(e.kids)} ELSE {}

RECURSIVE unwrap_nested(_)
unwrap_nested(e) == IF e.k = "nest" THEN unwrap_nested(e.kids[1]) ELSE e

RECURSIVE collect_and_predicates(_)
collect_and_predicates(e) ==
    IF e.k = "logic" /\ e.v = "AND" THEN collect_and_predicates(e.kids[1]) \o collect_and_predicates(e.kids[2])
    ELSE IF e.k = "nest" THEN collect_and_predicates(e.kids[1]) ELSE <<e>>

strip_table_alias(e) == IF e.k = "col" THEN {e.v} ELSE {}

\* The first result of a sequence of optional ones.
FirstSome(options) ==
    LET some == {i \in 1 .. Len(options) : options[i] # {}}
    IN  IF some = {} THEN {} ELSE options[Least(some)]

-----------------------------------------------------------------------------
(* The classifier.                                                         *)

contains_subquery(e) ==
    \E x \in Within(e, BinaryKinds \cup {"not", "nest", "between", "in", "case"}) : x.k = "subquery"
expr_contains_window_fn(e) ==
    \E x \in Within(e, BinaryKinds \cup {"fn", "nullif", "not", "nest", "cast"}) : x.k = "over"
contains_nondeterministic(e) ==
    \E x \in Within(e, BinaryKinds \cup {"fn", "nullif", "not", "nest", "cast"}) :
        x.k = "fn" /\ x.v \in {"rand", "random", "now", "uuid", "current_timestamp"}
is_pivot(e) == e.k = "fn" /\ e.v \in {"max", "min"} /\ \E i \in 1 .. Len(e.kids) : e.kids[i].k = "case"
expr_contains_metric_pivot(e) == \E x \in Within(e, {"nullif", "arith", "nest", "cast"}) : is_pivot(x)
is_count_expr(e) == \E x \in Within(e, {"cast", "nest"}) : x.k = "fn" /\ x.v = "count"
expr_contains_plain_aggregate(e) ==
    \E x \in Within(e, BinaryKinds \cup {"cast", "nest"}) :
        x.k = "fn" /\ x.v \in {"avg", "count", "sum", "min", "max"}
is_sum_agg(e) == LET x == unwrap_nested(e) IN x.k = "fn" /\ x.v = "sum"
is_sum_divide_sum(e) ==
    LET x == unwrap_nested(e)
    IN  x.k = "arith" /\ x.v = "/" /\ is_sum_agg(x.kids[1]) /\ is_sum_agg(x.kids[2])
from_has_interval_join(s) ==
    \E on \in s.on : \E x \in Within(on, BinaryKinds \cup {"not", "nest", "between"}) : x.k = "interval"

Exprs(s) == {s.items[i].e : i \in 1 .. Len(s.items)}

extract_shape(s) ==
    IF \/ s.kind # "select"
       \/ \E w \in s.where : contains_subquery(w)
       \/ \E e \in Exprs(s) : expr_contains_window_fn(e) \/ contains_nondeterministic(e)
    THEN "none"
    ELSE IF s.main = "metric_summaries" /\ \E e \in Exprs(s) : expr_contains_metric_pivot(e)
    THEN "CompositeArithmetic"
    ELSE IF (\E e \in Exprs(s) : is_count_expr(e)) /\ from_has_interval_join(s) THEN "WindowedAggregation"
    ELSE IF \E e \in Exprs(s) : is_sum_divide_sum(e) THEN "RatioOfSums"
    ELSE IF \E e \in Exprs(s) : expr_contains_plain_aggregate(e) THEN "FilteredAggregation"
    ELSE "none"

from_is_events_with_optional_exposures_join(s) == s.main = "metric_events" /\ s.join \in {"", "exposures"}
from_is_exposures_with_metric_events_join(s) == s.main = "exposures" /\ s.join = "metric_events"

-----------------------------------------------------------------------------
(* Tier 1: predicates.                                                     *)

\* column = 'literal'
FieldLiteral(e, column) ==
    IF e.k = "cmp" /\ e.v = "=" /\ strip_table_alias(e.kids[1]) = {column} /\ e.kids[2].k = "str"
    THEN {e.kids[2].v} ELSE {}
extract_event_type_literal(e) == FieldLiteral(e, "event_type")

\* The first event type, and the other predicates.
split_where_by_event_type(w) ==
    LET preds == collect_and_predicates(w)
        typed == {i \in 1 .. Len(preds) : extract_event_type_literal(preds[i]) # {}}
        first == Least(typed)
    IN  IF typed = {} THEN {}
        ELSE {[event |-> e, rest |-> SubSeq(preds, 1, first - 1) \o SubSeq(preds, first + 1, Len(preds))] :
                e \in extract_event_type_literal(preds[first])}

\* A text is a sequence of comparisons and words.
Word(w) == Sql("word", w, <<>>)
RECURSIVE Simple(_)
Simple(e) == e.k \in {"col", "str", "num", "null"} \/ (e.k = "nest" /\ Simple(e.kids[1]))
AllSimple(e) == \A i \in 1 .. Len(e.kids) : Simple(e.kids[i])

RECURSIVE serialize_predicate(_)
serialize_predicate(e) ==
    CASE e.k = "cmp" -> IF AllSimple(e) THEN {<<e>>} ELSE {}
      [] e.k = "logic" -> IF AllSimple(e) THEN {<<e.kids[1], Word(e.v), e.kids[2]>>} ELSE {}
      [] e.k = "nest" -> serialize_predicate(e.kids[1])
      [] e.k = "not" -> {<<Word("NOT")>> \o t : t \in serialize_predicate(e.kids[1])}
      [] e.k \in {"in", "isnull"} -> IF AllSimple(e) THEN {<<e>>} ELSE {}
      [] OTHER -> {}

\* The texts, joined by AND; one that cannot be written spoils them all.
Joined(texts) ==
    LET join[i \in 0 .. Len(texts)] ==
            IF i = 0 THEN <<>> ELSE IF i = 1 THEN texts[1] ELSE join[i - 1] \o <<Word("AND")>> \o texts[i]
    IN  join[Len(texts)]
All(options) ==
    IF \E i \in 1 .. Len(options) : options[i] = {} THEN {}
    ELSE {[i \in 1 .. Len(options) |-> CHOOSE x \in options[i] : TRUE]}
predicates_to_filter_sql(preds) ==
    {Joined(t) : t \in All([i \in 1 .. Len(preds) |-> serialize_predicate(preds[i])])}

-----------------------------------------------------------------------------
(* Tier 1: the three translators.                                          *)

extract_avg_col(e) ==
    LET x == unwrap_nested(e)
    IN  IF x.k = "fn" /\ x.v = "avg" THEN strip_table_alias(x.kids[1]) ELSE {}
is_count_star_or_one(e) ==
    e.k = "fn" /\ e.v = "count" /\ (e.kids = <<>> \/ e.kids[1].k = "star" \/ (e.kids[1].k = "num" /\ e.kids[1].v = "1"))
extract_sum_div_count_col(e) ==
    LET x == unwrap_nested(e)
        l == unwrap_nested(x.kids[1])
        r == unwrap_nested(x.kids[2])
    IN  IF x.k # "arith" \/ x.v # "/" THEN {}
        ELSE IF is_count_star_or_one(r) /\ l.k = "fn" /\ l.v = "sum" THEN strip_table_alias(l.kids[1])
        ELSE {}
ValueColumn(s) ==
    FirstSome([i \in 1 .. Len(s.items) |-> extract_avg_col(s.items[i].e)]
              \o [i \in 1 .. Len(s.items) |-> extract_sum_div_count_col(s.items[i].e)])

Proposal(tier, config) == [tier |-> tier, config |-> config]

translate_filtered_mean(s) ==
    IF ~from_is_events_with_optional_exposures_join(s) THEN {}
    ELSE UNION {{Proposal("FILTERED_MEAN",
                          [agg |-> "mean", column |-> c, event |-> parts.event, filter |-> f]) :
                    f \in predicates_to_filter_sql(parts.rest) \ {<<>>}} :
                 c \in ValueColumn(s), parts \in UNION {split_where_by_event_type(w) : w \in s.where}}

\* The predicates of the join that the window itself stands for.
MentionsColumn(e, columns) ==
    \E x \in Within(e, BinaryKinds \cup {"not", "nest"}) : x.k = "col" /\ x.v \in columns
is_user_id_join_predicate(e) ==
    e.k = "cmp" /\ e.v = "=" /\ strip_table_alias(e.kids[1]) = {"user_id"} /\ strip_table_alias(e.kids[2]) = {"user_id"}
is_timestamp_predicate(e) == MentionsColumn(e, {"event_timestamp", "exposure_ts"})

\* event_timestamp < ... + INTERVAL n HOUR
IntervalHours(e) ==
    IF e.k = "arith" /\ e.v = "+" /\ e.kids[2].k = "interval" THEN {e.kids[2].v} \cap {"1", "2", "9"} ELSE {}
extract_window_hours(preds) ==
    FirstSome([i \in 1 .. Len(preds) |->
        IF preds[i].k = "cmp" /\ preds[i].v = "<" /\ MentionsColumn(preds[i].kids[1], {"event_timestamp"})
        THEN IntervalHours(preds[i].kids[2]) ELSE {}])
FirstEventType(preds) == FirstSome([i \in 1 .. Len(preds) |-> extract_event_type_literal(preds[i])])
Leftover(preds) ==
    SelectSeq(preds, LAMBDA p : /\ ~is_user_id_join_predicate(p)
                                /\ extract_event_type_literal(p) = {}
                                /\ ~is_timestamp_predicate(p))

Hours == [n \in {"1", "2", "9"} |-> CASE n = "1" -> 1 [] n = "2" -> 2 [] n = "9" -> 9]

translate_windowed_count(s) ==
    LET preds == collect_and_predicates(CHOOSE on \in s.on : TRUE)
    IN  IF ~from_is_exposures_with_metric_events_join(s) \/ s.on = {} THEN {}
        ELSE {Proposal("WINDOWED_COUNT", [agg |-> "count", column |-> "", event |-> e, hours |-> h, filter |-> f]) :
                e \in FirstEventType(preds),
                h \in {x \in extract_window_hours(preds) : Hours[x] <= MaxWindow},
                f \in predicates_to_filter_sql(Leftover(preds))}

\* MAX(CASE WHEN metric_id = 'x' THEN metric_value END): the metric x.
extract_pivot_metric_id(e) ==
    LET x == unwrap_nested(e)
    IN  IF x.k = "fn" /\ x.v \in {"max", "min"} /\ x.kids[1].k = "case"
        THEN FieldLiteral(x.kids[1].kids[1], "metric_id") ELSE {}
unwrap_nullif_pivot(e) == IF e.k = "nullif" THEN e.kids[1] ELSE e

RECURSIVE collect_plus_leaves(_)
collect_plus_leaves(e) ==
    LET x == unwrap_nested(e)
    IN  IF x.k = "arith" /\ x.v = "+" THEN Append(collect_plus_leaves(x.kids[1]), x.kids[2]) ELSE <<x>>

extract_number_literal(e) == LET x == unwrap_nested(e) IN IF x.k = "num" THEN {x.v} ELSE {}
Weighted(leaf) ==
    LET x == unwrap_nested(leaf)
        pair(w, e) == {[id |-> i, weight |-> n] : n \in extract_number_literal(w), i \in extract_pivot_metric_id(e)}
    IN  IF x.k # "arith" \/ x.v # "*" THEN {}
        ELSE IF extract_number_literal(x.kids[1]) # {} THEN pair(x.kids[1], x.kids[2])
        ELSE pair(x.kids[2], x.kids[1])
try_weighted_sum(e) ==
    LET leaves == collect_plus_leaves(e)
    IN  IF Len(leaves) < 2 THEN {} ELSE All([i \in 1 .. Len(leaves) |-> Weighted(leaves[i])])
Unweighted(leaf) == {[id |-> i, weight |-> "0"] : i \in extract_pivot_metric_id(leaf)}
try_add(e) ==
    LET leaves == collect_plus_leaves(e) IN All([i \in 1 .. Len(leaves) |-> Unweighted(leaves[i])])

CompositeOf(op, operandLists) == {[operator |-> op, operands |-> o] : o \in operandLists}
BothOperands(l, r) == All(<<Unweighted(l), Unweighted(r)>>)
extract_composite_op_and_operands(e) ==
    LET x == unwrap_nested(e)
        l == x.kids[1]
        r == x.kids[2]
    IN  IF try_weighted_sum(x) # {} THEN CompositeOf("WEIGHTED_SUM", try_weighted_sum(x))
        ELSE IF x.k = "arith" /\ x.v = "/" THEN CompositeOf("DIVIDE", BothOperands(l, unwrap_nullif_pivot(unwrap_nested(r))))
        ELSE IF x.k = "arith" /\ x.v = "-" THEN CompositeOf("SUBTRACT", BothOperands(l, r))
        ELSE IF x.k = "arith" /\ x.v = "*" /\ BothOperands(l, r) # {} THEN CompositeOf("MULTIPLY", BothOperands(l, r))
        ELSE CompositeOf("ADD", {o \in try_add(x) : Len(o) >= 2})

\* The aliased expression, or the last one that is no column.
find_metric_value_expr(s) ==
    LET named == {i \in 1 .. Len(s.items) : s.items[i].alias = "metric_value"}
        computed == {i \in 1 .. Len(s.items) : s.items[i].e.k # "col"}
    IN  IF named # {} THEN {s.items[Least(named)].e}
        ELSE IF computed # {} THEN {s.items[Greatest(computed)].e} ELSE {}

\* The catalog's own check of a composite: positive weights.
ValidComposite(c) ==
    c.operator = "WEIGHTED_SUM" => \A i \in 1 .. Len(c.operands) : c.operands[i].weight # "0"
translate_composite(s) ==
    {Proposal("COMPOSITE", c) :
        c \in {x \in UNION {extract_composite_op_and_operands(e) : e \in find_metric_value_expr(s)} : ValidComposite(x)}}

Tier1(s, shape) ==
    CASE shape = "FilteredAggregation" -> translate_filtered_mean(s)
      [] shape = "WindowedAggregation" -> translate_windowed_count(s)
      [] shape = "CompositeArithmetic" -> translate_composite(s)
      [] OTHER -> {}

-----------------------------------------------------------------------------
(* Tier 2: MetricQL.                                                       *)

RECURSIVE PivotUnderNullif(_)
PivotUnderNullif(e) ==
    LET x == unwrap_nested(e) IN IF x.k = "nullif" THEN PivotUnderNullif(x.kids[1]) ELSE extract_pivot_metric_id(x)
unwrap_nullif(e) == LET x == unwrap_nested(e) IN IF x.k = "nullif" THEN unwrap_nested(x.kids[1]) ELSE x

\* emit_metricql_expr: parentheses around sums under products only.
Additive(e) == e.k = "arith" /\ e.v \in {"+", "-"}

\* Mutant: a sum on the left of a product loses its parentheses.
NeedsParensOnRight(op, e, side) == side = 2 /\ op \in {"*", "/"} /\ Additive(e)

NeedsParens(op, e, side) == op \in {"*", "/"} /\ Additive(e)
Parens(text, needed) == IF needed THEN <<"(">> \o text \o <<")">> ELSE text
RECURSIVE emit_metricql_expr(_)
emit_metricql_expr(e) ==
    LET x == unwrap_nested(e)
        l == unwrap_nested(x.kids[1])
        r == IF x.v = "/" THEN unwrap_nullif(x.kids[2]) ELSE unwrap_nested(x.kids[2])
    IN  IF PivotUnderNullif(x) # {} THEN {<<"@", i>> : i \in PivotUnderNullif(x)}
        ELSE IF extract_number_literal(x) # {} THEN {<<n>> : n \in extract_number_literal(x)}
        ELSE IF x.k # "arith" THEN {}
        ELSE {Parens(a, NeedsParens(x.v, l, 1)) \o <<x.v>> \o Parens(b, NeedsParens(x.v, r, 2)) :
                a \in emit_metricql_expr(l), b \in emit_metricql_expr(r)}

translate_composite_arithmetic(s) == UNION {emit_metricql_expr(e) : e \in find_metric_value_expr(s)}

extract_sum_pivot_id(e) ==
    LET x == unwrap_nested(e) IN IF x.k = "fn" /\ x.v = "sum" THEN PivotUnderNullif(x.kids[1]) ELSE {}
translate_ratio_of_sums(s) ==
    FirstSome([i \in 1 .. Len(s.items) |->
        LET x == unwrap_nested(s.items[i].e)
        IN  IF ~is_sum_divide_sum(x) THEN {}
            ELSE {<<"ratio", "(", "@", n, ",", "@", d, ")">> :
                    n \in extract_sum_pivot_id(x.kids[1]), d \in extract_sum_pivot_id(x.kids[2])}])

RECURSIVE serialize_metricql_predicate(_)
serialize_metricql_predicate(e) ==
    CASE e.k = "cmp" -> IF AllSimple(e) THEN {<<e>>} ELSE {}
      [] e.k = "logic" /\ e.v = "AND" ->
            {l \o <<Word("AND")>> \o r : l \in serialize_metricql_predicate(e.kids[1]),
                                         r \in serialize_metricql_predicate(e.kids[2])}
      [] e.k = "in" -> IF AllSimple(e) THEN {<<e>>} ELSE {}
      [] e.k = "nest" -> serialize_metricql_predicate(e.kids[1])
      [] OTHER -> {}
\* The grammar wants a field before the operator and literals after it.
ReadsBack(text) ==
    \A i \in 1 .. Len(text) :
        text[i].k = "word" \/ (/\ unwrap_nested(text[i].kids[1]).k = "col"
                               /\ \A j \in 2 .. Len(text[i].kids) : unwrap_nested(text[i].kids[j]).k \in {"str", "num"})
MetricqlFilter(preds) ==
    {f \in {Joined(t) : t \in All([i \in 1 .. Len(preds) |-> serialize_metricql_predicate(preds[i])])} : ReadsBack(f)}

\* try_extract_agg: AVG, COUNT, SUM, or a proportion, under casts.
extract_proportion_event_type(e) ==
    LET x == unwrap_nested(e)
    IN  IF /\ x.k = "fn" /\ x.v \in {"max", "min"} /\ x.kids[1].k = "case"
           /\ x.kids[1].v = "else" /\ x.kids[1].kids[2].k = "num" /\ x.kids[1].kids[2].v = "1"
        THEN FieldLiteral(x.kids[1].kids[1], "event_type") ELSE {}
RECURSIVE try_extract_agg(_)
try_extract_agg(e) ==
    LET x == unwrap_nested(e)
        agg(f, columns) == {[agg |-> f, column |-> c] : c \in columns}
    IN  CASE x.k = "fn" /\ x.v = "avg"   -> agg("mean", strip_table_alias(x.kids[1]))
          [] x.k = "fn" /\ x.v = "sum"   -> agg("sum", strip_table_alias(x.kids[1]))
          [] x.k = "fn" /\ x.v = "count" -> agg("count", {""})
          [] x.k = "cast" ->
                IF extract_proportion_event_type(x.kids[1]) # {}
                THEN agg("proportion", extract_proportion_event_type(x.kids[1]))
                ELSE try_extract_agg(x.kids[1])
          [] OTHER -> {}
extract_agg_info(s) == FirstSome([i \in 1 .. Len(s.items) |-> try_extract_agg(s.items[i].e)])

Aggregation(a, event, filter, hours) ==
    [agg |-> a.agg, column |-> a.column, event |-> event, filter |-> filter, hours |-> hours]
ProportionOf(a, s) ==
    LET untyped(w) == SelectSeq(collect_and_predicates(w), LAMBDA p : extract_event_type_literal(p) = {})
        typed(w) == UNION {extract_event_type_literal(p) : p \in Elements(collect_and_predicates(w))}
    IN  {Aggregation([agg |-> "proportion", column |-> ""], a.column, f, "") :
            f \in IF s.where = {} THEN {<<>>}
                  ELSE UNION {IF typed(w) \subseteq {a.column} THEN MetricqlFilter(untyped(w)) ELSE {} : w \in s.where}}
translate_filtered_aggregation(s) ==
    IF ~from_is_events_with_optional_exposures_join(s) THEN {}
    ELSE UNION {IF a.agg = "proportion" THEN ProportionOf(a, s)
                ELSE UNION {{Aggregation(a, parts.event, f, "") : f \in MetricqlFilter(parts.rest)} :
                              parts \in UNION {split_where_by_event_type(w) : w \in s.where}} :
                a \in extract_agg_info(s)}

translate_windowed_aggregation(s) ==
    LET preds == collect_and_predicates(CHOOSE on \in s.on : TRUE)
    IN  IF ~from_is_exposures_with_metric_events_join(s) \/ s.on = {} THEN {}
        ELSE {Aggregation([agg |-> "count", column |-> ""], e, f, h) :
                e \in FirstEventType(preds), h \in extract_window_hours(preds), f \in MetricqlFilter(Leftover(preds))}

\* What was written is parsed again, and the references must exist.
Checked(texts) == {t \in texts : validate_metricql(t, QlIdentifiers).ok}
Tier2(s, shape) ==
    {Proposal("METRICQL", x) :
        x \in CASE shape = "CompositeArithmetic"  -> Checked(translate_composite_arithmetic(s))
                [] shape = "RatioOfSums"          -> Checked(translate_ratio_of_sums(s))
                [] shape = "FilteredAggregation"  -> translate_filtered_aggregation(s)
                [] shape = "WindowedAggregation"  -> translate_windowed_aggregation(s)
                [] OTHER -> {}}

classify_and_translate(s) ==
    LET shape == extract_shape(s)
    IN  IF Tier1(s, shape) # {} THEN Tier1(s, shape) ELSE Tier2(s, shape)

TranslationInit ==
    \E s \in Statements :
        st = [algo |-> "translation", sql |-> s, shape |-> extract_shape(s), proposals |-> classify_and_translate(s)]

-----------------------------------------------------------------------------
(* What SQL, a composite and MetricQL mean.                                *)

\* Values of the metrics; division by zero has no value.
MetricValue == [a |-> Int2Q(5), b |-> Int2Q(3)]
Literal == [n \in Numbers |-> CASE n = "0" -> Q0 [] n = "0.5" -> Q(1, 2) [] n = "1" -> Q1 [] n = "100" -> Int2Q(100)]
NothingRead == <<0, 0>>
Combined(op, x, y) ==
    IF NothingRead \in {x, y} THEN NothingRead
    ELSE CASE op = "+" -> QAdd(x, y) [] op = "-" -> QSub(x, y) [] op = "*" -> QMul(x, y)
           [] op = "/" -> IF y = Q0 THEN NothingRead ELSE QDiv(x, y)
RECURSIVE SqlValue(_)
SqlValue(e) ==
    CASE e.k \in {"nest", "cast", "nullif"} -> SqlValue(e.kids[1])
      [] e.k = "num" -> Literal[e.v]
      [] e.k = "arith" -> Combined(e.v, SqlValue(e.kids[1]), SqlValue(e.kids[2]))
      [] OTHER -> MetricValue[CHOOSE i \in PivotUnderNullif(e) : TRUE]
RECURSIVE QlValue(_)
QlValue(n) ==
    CASE n.kind = "ref" -> MetricValue[n.name]
      [] n.kind = "literal" -> Literal[n.name]
      [] n.kind = "negate" -> Combined("-", Q0, QlValue(n.kids[1]))
      [] n.kind = "ratio" -> Combined("/", QlValue(n.kids[1]), QlValue(n.kids[2]))
      [] n.kind = "binary" -> Combined(n.name, QlValue(n.kids[1]), QlValue(n.kids[2]))
CompositeValue(c) ==
    LET v(i) == MetricValue[c.operands[i].id]
        w(i) == Literal[c.operands[i].weight]
        n == Len(c.operands)
        product[i \in 0 .. n] == IF i = 0 THEN Q1 ELSE QMul(product[i - 1], v(i))
    IN  CASE c.operator = "ADD" -> QSumOf(n, v)
          [] c.operator = "WEIGHTED_SUM" -> QSumOf(n, LAMBDA i : QMul(w(i), v(i)))
          [] c.operator = "MULTIPLY" -> product[n]
          [] c.operator = "SUBTRACT" -> QSub(v(1), v(2))
          [] c.operator = "DIVIDE" -> Combined("/", v(1), v(2))

\* Events, with their age in hours since the exposure.
Rows == [event_type : {"e", "f"}, x : {"1", "2", "null"}, flag : {"0", "1"}, age : -1 .. 2]
Field(row, e) ==
    LET x == unwrap_nested(e) IN IF x.k = "col" THEN row[x.v] ELSE x.v
RECURSIVE Holds(_, _)
Holds(row, e) ==
    CASE e.k = "nest" -> Holds(row, e.kids[1])
      [] e.k = "not" -> ~Holds(row, e.kids[1])
      [] e.k = "logic" -> IF e.v = "AND" THEN Holds(row, e.kids[1]) /\ Holds(row, e.kids[2])
                          ELSE Holds(row, e.kids[1]) \/ Holds(row, e.kids[2])
      [] e.k = "col" -> row[e.v] = "1"
      [] e.k = "in" -> (e.v = "NOT") # (\E j \in 2 .. Len(e.kids) : Field(row, e.kids[1]) = Field(row, e.kids[j]))
      [] e.k = "isnull" -> (e.v = "NOT") # (Field(row, e.kids[1]) = "null")
      [] e.k = "cmp" /\ is_user_id_join_predicate(e) -> TRUE
      [] e.k = "cmp" /\ is_timestamp_predicate(e) ->
            IF e.v = "<" THEN row.age < Hours[CHOOSE h \in IntervalHours(e.kids[2]) : TRUE] ELSE row.age >= 0
      [] e.k = "cmp" /\ ~is_user_id_join_predicate(e) /\ ~is_timestamp_predicate(e) ->
            (e.v = "!=") # (Field(row, e.kids[1]) = Field(row, e.kids[2]))
      [] OTHER -> row.x = "2"

\* A text: OR binds weakest, then AND, then NOT.
RECURSIVE HoldsText(_, _)
HoldsText(row, t) ==
    LET at(w) == {i \in 1 .. Len(t) : t[i].k = "word" /\ t[i].v = w}
        side(i, j) == HoldsText(row, SubSeq(t, i, j))
    IN  IF t = <<>> THEN TRUE
        ELSE IF at("OR") # {} THEN side(1, Least(at("OR")) - 1) \/ side(Least(at("OR")) + 1, Len(t))
        ELSE IF at("AND") # {} THEN side(1, Least(at("AND")) - 1) /\ side(Least(at("AND")) + 1, Len(t))
        ELSE IF at("NOT") # {} THEN ~side(2, Len(t))
        ELSE Holds(row, t[1])

\* The rows a statement aggregates, and those its replacement does.
SqlRows(s) == {r \in Rows : \A e \in s.where \cup s.on : Holds(r, e)}
ProposedRows(c) ==
    {r \in Rows : /\ r.event_type = c.event
                  /\ HoldsText(r, c.filter)
                  /\ ("hours" \in DOMAIN c /\ c.hours # "") => r.age \in 0 .. Hours[c.hours] - 1}

ArithmeticRun == Running("translation") /\ st.shape = "CompositeArithmetic"
ValueOf(p) == IF p.tier = "COMPOSITE" THEN CompositeValue(p.config) ELSE QlValue(parse(p.config).node)

\* A subtrahend that is a sum or a divisor that is a product.
GroupedRight(e) ==
    \E x \in Within(e, {"arith", "nest"}) :
        /\ x.k = "arith"
        /\ LET r == IF x.v = "/" THEN unwrap_nullif(x.kids[2]) ELSE unwrap_nested(x.kids[2])
           IN  \/ x.v = "-" /\ Additive(r)
               \/ x.v = "/" /\ r.k = "arith" /\ r.v \in {"*", "/"}

\* Read from left to right: a group right of an operator of its own
\* precedence is opened, a - (b + c) as (a - b) + c, a / (b * c) as (a / b) * c.
RECURSIVE Opened(_, _, _)
Opened(op, l, r) ==
    IF r.k = "arith" /\ (Additive(r) <=> op \in {"+", "-"})
    THEN Arith(r.v, Opened(op, l, r.kids[1]), r.kids[2]) ELSE Arith(op, l, r)
RECURSIVE LeftToRight(_)
LeftToRight(e) ==
    LET x == unwrap_nested(e)
    IN  IF x.k # "arith" THEN x
        ELSE Opened(x.v, LeftToRight(x.kids[1]),
                    LeftToRight(IF x.v = "/" THEN unwrap_nullif(x.kids[2]) ELSE x.kids[2]))

\* AND, OR or NOT of bare Boolean columns.
BareColumns(e) ==
    \E x \in Within(e, {"logic", "not", "nest"}) :
        x.k = "logic" /\ \E i \in 1 .. 2 : unwrap_nested(x.kids[i]).k = "col"

-----------------------------------------------------------------------------
(* Properties.                                                             *)

\* What a translation of arithmetic over metrics computes, through the text
\* and M5's parser: a composite, what the SQL did; MetricQL, the SQL read from
\* left to right, its parentheses kept between sums and products only - which
\* is what the SQL did unless it subtracts a parenthesised sum or divides by a
\* parenthesised product.  The checks of tier 2 let those through.
ArithmeticIsKept ==
    ArithmeticRun =>
        \A p \in st.proposals, e \in find_metric_value_expr(st.sql) :
            /\ ValueOf(p) = SqlValue(IF p.tier = "COMPOSITE" THEN e ELSE LeftToRight(e))
            /\ ~GroupedRight(e) => ValueOf(p) = SqlValue(e)

\* A filtered aggregation reads the same rows as the SQL did: no predicate
\* is dropped or regrouped (but for AND and OR of bare Boolean columns), and
\* what cannot be written is left alone.
RowsAreKept ==
    Running("translation") /\ st.shape = "FilteredAggregation" =>
        \A p \in st.proposals :
            (\A w \in st.sql.where : ~BareColumns(w)) =>
                ProposedRows(p.config) = {r \in SqlRows(st.sql) :
                    p.config.agg = "proportion" => r.event_type = p.config.event}

\* A windowed count counts the events the join did, when the join starts at
\* the exposure, names one event type and has no other bound on the time.
WindowIsKept ==
    Running("translation") /\ st.shape = "WindowedAggregation" =>
        \A p \in st.proposals : ProposedRows(p.config) = SqlRows(st.sql)

\* A CUSTOM metric that is translated computes what its SQL did, outside the
\* forms named in each part; for arithmetic, what it computes there too.
TranslationIsFaithful ==
    /\ ArithmeticIsKept /\ RowsAreKept /\ WindowIsKept
=============================================================================
