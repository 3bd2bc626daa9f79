----------------------------- MODULE MetricQL -----------------------------
(***************************************************************************)
(* The MetricQL front end of M5: the lexer, the recursive-descent parser   *)
(* and the semantic analysis of a metric's expression.  A source is a      *)
(* sequence of characters, one letter, digit or sign standing for its      *)
(* class; a token is its text.                                             *)
(***************************************************************************)
EXTENDS Machine

CONSTANTS
    Sources,      \* character sequences to lex
    Sentences     \* token sequences to parse

-----------------------------------------------------------------------------
(* The lexer.                                                              *)

Blanks == {" "}
Digits == {"1"}
Letters == {"a", "_"}
Single == {"@", "(", ")", "[", "]", ",", ".", "+", "-", "*", "/", "="}

CharAt(src, p) == IF p <= Len(src) THEN src[p] ELSE ""

\* The last position of the run of characters of S that holds position p.
EndOfRun(src, p, S) ==
    LET after == {q \in p .. Len(src) : src[q] \notin S}
    IN  IF after = {} THEN Len(src) ELSE Least(after) - 1

\* lex_number: digits, then a fraction only if a digit follows the dot.
NumberEnd(src, p) ==
    LET whole == EndOfRun(src, p, Digits)
    IN  IF CharAt(src, whole + 1) = "." /\ CharAt(src, whole + 2) \in Digits
        THEN EndOfRun(src, whole + 2, Digits) ELSE whole

\* lex_string: up to the next quote, or 0 when there is none.
StringEnd(src, p) ==
    LET quotes == {q \in p + 1 .. Len(src) : src[q] = "'"}
    IN  IF quotes = {} THEN 0 ELSE Least(quotes)

\* Where the token that starts at p ends; 0 is a lexical error.
TokenEnd(src, p) ==
    LET c == src[p] IN
    CASE c \in Single -> p
      [] c \in {"<", ">"} -> IF CharAt(src, p + 1) = "=" THEN p + 1 ELSE p
      [] c = "!" -> IF CharAt(src, p + 1) = "=" THEN p + 1 ELSE 0
      [] c = "'" -> StringEnd(src, p)
      [] c \in Digits -> NumberEnd(src, p)
      [] c \in Letters -> EndOfRun(src, p, Letters \cup Digits)
      [] OTHER -> 0

\* tokenize: the spans <<first, last>> of the tokens, or an error.
RECURSIVE Tokenize(_, _, _)
Tokenize(src, p, spans) ==
    IF p > Len(src) THEN [ok |-> TRUE, spans |-> spans]
    ELSE IF src[p] \in Blanks THEN Tokenize(src, p + 1, spans)
    ELSE IF TokenEnd(src, p) = 0 THEN [ok |-> FALSE, spans |-> <<>>]
    ELSE Tokenize(src, TokenEnd(src, p) + 1, Append(spans, <<p, TokenEnd(src, p)>>))

-----------------------------------------------------------------------------
(* The parser, over tokens.                                                *)

QlIdentifiers == {"a", "b"}
Numbers == {"0", "0.5", "1", "100"}
Aggregations == {"mean", "sum", "count", "count_distinct", "proportion", "percentile"}
Comparisons == {"=", "!=", "<", "<=", ">", ">=", "in"}

TokenAt(T, p) == IF p <= Len(T) THEN T[p] ELSE "eof"
Follows(T, p, classes) == \A i \in 1 .. Len(classes) : TokenAt(T, p + i - 1) \in classes[i]

Node(kind, name, kids) == [kind |-> kind, name |-> name, kids |-> kids]
Got(node, p) == [ok |-> TRUE, node |-> node, next |-> p]
ParseError == [ok |-> FALSE, node |-> Node("error", "", <<>>), next |-> 0]

\* parse_source, parse_field_ref: IDENT ('.' IDENT)?; the name tells which.
parse_source(T, p) ==
    IF TokenAt(T, p) \notin QlIdentifiers THEN ParseError
    ELSE IF TokenAt(T, p + 1) # "." THEN Got(Node("source", "", <<>>), p + 1)
    ELSE IF TokenAt(T, p + 2) \in QlIdentifiers THEN Got(Node("source", "field", <<>>), p + 3)
    ELSE ParseError

RECURSIVE parse_value(_, _)
RECURSIVE parse_list(_, _)
parse_value(T, p) ==
    IF TokenAt(T, p) \in {"'s'"} \cup Numbers THEN Got(Node("value", "", <<>>), p + 1)
    ELSE IF TokenAt(T, p) = "[" THEN parse_list(T, p + 1)
    ELSE ParseError
parse_list(T, p) ==
    LET v == parse_value(T, p)
    IN  IF ~v.ok THEN ParseError
        ELSE CASE TokenAt(T, v.next) = "," -> parse_list(T, v.next + 1)
               [] TokenAt(T, v.next) = "]" -> Got(v.node, v.next + 1)
               [] OTHER -> ParseError

\* parse_filter, from behind 'where' or 'and': predicates joined by 'and'.
RECURSIVE parse_filter(_, _)
Compared(T, f) ==
    IF f.ok /\ TokenAt(T, f.next) \in Comparisons THEN parse_value(T, f.next + 1) ELSE ParseError
FilterFrom(T, v) == IF v.ok /\ TokenAt(T, v.next) = "and" THEN parse_filter(T, v.next + 1) ELSE v
parse_filter(T, p) == FilterFrom(T, Compared(T, parse_source(T, p)))

\* parse_window: a positive whole number of hours or days.
parse_window(T, p) ==
    IF Follows(T, p, <<{"1", "100"}, {"hours", "days"}, {"of"}, {"exposure"}>>)
    THEN Got(Node("window", "", <<>>), p + 4) ELSE ParseError

\* parse_aggregation; the percentile is strictly between 0 and 100.
Aggregated(func, s, w) == IF w.ok THEN Got(Node("aggregation", func, <<s.node>>), w.next) ELSE ParseError
WindowAfter(T, f) == IF f.ok /\ TokenAt(T, f.next) = "within" THEN parse_window(T, f.next + 1) ELSE f
FilterAfter(T, s) ==
    IF ~s.ok \/ TokenAt(T, s.next) # ")" THEN ParseError
    ELSE IF TokenAt(T, s.next + 1) = "where" THEN parse_filter(T, s.next + 2)
    ELSE Got(s.node, s.next + 1)
ClausesAfter(T, func, s) == Aggregated(func, s, WindowAfter(T, FilterAfter(T, s)))
AggregationBody(T, p, func) ==
    IF TokenAt(T, p) = "(" THEN ClausesAfter(T, func, parse_source(T, p + 1)) ELSE ParseError
parse_aggregation(T, p) ==
    IF TokenAt(T, p) # "percentile" THEN AggregationBody(T, p + 1, TokenAt(T, p))
    ELSE IF Follows(T, p + 1, <<{"("}, {"0.5", "1"}, {")"}>>) THEN AggregationBody(T, p + 4, "percentile")
    ELSE ParseError

parse_metric_ref(T, p) ==
    IF Follows(T, p, <<{"@"}, QlIdentifiers>>) THEN Got(Node("ref", TokenAt(T, p + 1), <<>>), p + 2)
    ELSE ParseError

parse_ratio(T, p) ==
    IF Follows(T, p, <<{"ratio"}, {"("}, {"@"}, QlIdentifiers, {","}, {"@"}, QlIdentifiers, {")"}>>)
    THEN Got(Node("ratio", "", <<Node("ref", TokenAt(T, p + 3), <<>>),
                                 Node("ref", TokenAt(T, p + 6), <<>>)>>), p + 8)
    ELSE ParseError

RECURSIVE parse_composite(_, _)
parse_factor(T, p) ==
    CASE TokenAt(T, p) = "@" -> parse_metric_ref(T, p)
      [] TokenAt(T, p) \in Numbers -> Got(Node("literal", TokenAt(T, p), <<>>), p + 1)
      [] TokenAt(T, p) = "(" ->
            LET inner == parse_composite(T, p + 1)
            IN  IF inner.ok /\ TokenAt(T, inner.next) = ")" THEN Got(inner.node, inner.next + 1)
                ELSE ParseError
      [] TokenAt(T, p) = "ratio" -> parse_ratio(T, p)
      [] OTHER -> ParseError

\* parse_unary: one minus at most, and the only place that makes a Negate.
Negated(r) == IF r.ok THEN Got(Node("negate", "", <<r.node>>), r.next) ELSE ParseError
parse_unary(T, p) ==
    IF TokenAt(T, p) = "-" THEN Negated(parse_factor(T, p + 1)) ELSE parse_factor(T, p)

\* parse_term, parse_composite: operators of one precedence bind to the left.
Binary(op, l, r) == Node("binary", op, <<l, r>>)
RECURSIVE TermFrom(_, _)
TermFrom(T, left) ==
    IF ~left.ok \/ TokenAt(T, left.next) \notin {"*", "/"} THEN left
    ELSE LET right == parse_unary(T, left.next + 1)
         IN  IF right.ok THEN TermFrom(T, Got(Binary(TokenAt(T, left.next), left.node, right.node), right.next))
             ELSE ParseError
parse_term(T, p) == TermFrom(T, parse_unary(T, p))

RECURSIVE CompositeFrom(_, _)
CompositeFrom(T, left) ==
    IF ~left.ok \/ TokenAt(T, left.next) \notin {"+", "-"} THEN left
    ELSE LET right == parse_term(T, left.next + 1)
         IN  IF right.ok
             THEN CompositeFrom(T, Got(Binary(TokenAt(T, left.next), left.node, right.node), right.next))
             ELSE ParseError
parse_composite(T, p) == CompositeFrom(T, parse_term(T, p))

\* parse_expression and the check that nothing trails it.
parse_expression(T) ==
    CASE TokenAt(T, 1) \in Aggregations -> parse_aggregation(T, 1)
      [] TokenAt(T, 1) \in {"@", "(", "-", "ratio"} \cup Numbers -> parse_composite(T, 1)
      [] OTHER -> ParseError
NothingTrails(T, e) == IF e.ok /\ e.next = Len(T) + 1 THEN e ELSE ParseError
parse(T) == NothingTrails(T, parse_expression(T))

-----------------------------------------------------------------------------
(* Semantic analysis.                                                      *)

\* collect_refs
RECURSIVE collect_refs(_)
collect_refs(n) ==
    IF n.kind = "ref" THEN {n.name} ELSE UNION {collect_refs(n.kids[i]) : i \in 1 .. Len(n.kids)}

\* analyze_aggregation: count and proportion take no field, the others one.
FieldFits(n) == (n.name \in {"count", "proportion"}) # (n.kids[1].name = "field")

\* analyze, with the ids the store knows: the root is no bare reference or
\* number, every field fits and every reference is known.
RECURSIVE Clean(_, _)
Clean(n, known) ==
    CASE n.kind = "aggregation" -> FieldFits(n)
      [] n.kind = "ref" -> n.name \in known
      [] OTHER -> \A i \in 1 .. Len(n.kids) : Clean(n.kids[i], known)
analyze(n, known) == n.kind \notin {"ref", "literal"} /\ Clean(n, known)

\* validate_metricql
Validated(e, known) ==
    IF e.ok /\ analyze(e.node, known) THEN [ok |-> TRUE, refs |-> collect_refs(e.node)]
    ELSE [ok |-> FALSE, refs |-> {}]
validate_metricql(T, known) == Validated(parse(T), known)

MetricQLInit ==
    \/ \E s \in Sources : st = [algo |-> "lexer", source |-> s]
    \/ \E t \in Sentences : st = [algo |-> "parser", tokens |-> t]

-----------------------------------------------------------------------------
(* References.                                                             *)

\* The grammar of the parser's documentation, with its numeric conditions as
\* terminals of their own.
Grammar == [
    expression  |-> {<<"aggregation">>, <<"composite">>},
    aggregation |-> {<<"func", "body">>, <<"func", "body", "clauses">>},
    func        |-> {<<"AGG">>, <<"PERCENTILE", "(", "PERCENT", ")">>},
    body        |-> {<<"(", "source", ")">>},
    clauses     |-> {<<"filter">>, <<"window">>, <<"filter", "window">>},
    source      |-> {<<"IDENT">>, <<"IDENT", ".", "IDENT">>},
    filter      |-> {<<"where", "predicate">>, <<"filter", "and", "predicate">>},
    predicate   |-> {<<"source", "OPERATOR", "value">>},
    value       |-> {<<"STRING">>, <<"NUMBER">>, <<"[", "values", "]">>},
    values      |-> {<<"value">>, <<"values", ",", "value">>},
    window      |-> {<<"within", "COUNT", "UNIT", "of", "exposure">>},
    composite   |-> {<<"term">>, <<"composite", "ADDITIVE", "term">>},
    term        |-> {<<"unary">>, <<"term", "MULTIPLICATIVE", "unary">>},
    unary       |-> {<<"factor">>, <<"-", "factor">>},
    factor      |-> {<<"metric">>, <<"NUMBER">>, <<"(", "composite", ")">>, <<"ratio", "(", "metric", ",", "metric", ")">>},
    metric      |-> {<<"@", "IDENT">>}]

Terminals == [AGG |-> Aggregations \ {"percentile"}, PERCENTILE |-> {"percentile"},
              PERCENT |-> {"0.5", "1"}, COUNT |-> {"1", "100"}, UNIT |-> {"hours", "days"},
              IDENT |-> QlIdentifiers, OPERATOR |-> Comparisons, STRING |-> {"'s'"}, NUMBER |-> Numbers,
              ADDITIVE |-> {"+", "-"}, MULTIPLICATIVE |-> {"*", "/"}]
TerminalOf(s) == IF s \in DOMAIN Terminals THEN Terminals[s] ELSE {s}

\* The symbols derive the tokens i .. j.
RECURSIVE Derives(_, _, _, _)
Derives(T, symbols, i, j) ==
    IF symbols = <<>> THEN i > j
    ELSE LET s == Head(symbols)
             rest == Tail(symbols)
         IN  \/ i <= j /\ T[i] \in TerminalOf(s) /\ Derives(T, rest, i + 1, j)
             \/ /\ s \in DOMAIN Grammar
                /\ \E k \in i .. j - Len(rest) :
                      /\ Derives(T, rest, k + 1, j)
                      /\ \E production \in Grammar[s] : Derives(T, production, i, k)

\* The tree of an arithmetic expression, found from the outside: the last
\* additive operator outside parentheses splits it, then the last
\* multiplicative one, then a sign, then parentheses.
OpenAt(T, i, k) ==
    Cardinality({q \in i .. k : T[q] = "("}) - Cardinality({q \in i .. k : T[q] = ")"})
Splits(T, i, j, ops) ==
    {k \in i + 1 .. j : T[k] \in ops /\ T[k - 1] \in Numbers \cup QlIdentifiers \cup {")"}
                        /\ OpenAt(T, i, k) = 0}
RECURSIVE TreeOf(_, _, _)
TreeOf(T, i, j) ==
    LET split(ops) == LET k == Greatest(Splits(T, i, j, ops))
                      IN  Binary(T[k], TreeOf(T, i, k - 1), TreeOf(T, k + 1, j))
    IN  CASE Splits(T, i, j, {"+", "-"}) # {} -> split({"+", "-"})
          [] Splits(T, i, j, {"+", "-"}) = {} /\ Splits(T, i, j, {"*", "/"}) # {} -> split({"*", "/"})
          [] OTHER ->
                IF T[i] = "-" THEN Node("negate", "", <<TreeOf(T, i + 1, j)>>)
                ELSE IF T[i] = "(" THEN TreeOf(T, i + 1, j - 1)
                ELSE IF T[i] = "@" THEN Node("ref", T[j], <<>>)
                ELSE IF T[i] = "ratio" THEN parse_ratio(T, i).node
                ELSE Node("literal", T[i], <<>>)

-----------------------------------------------------------------------------
(* Properties.                                                             *)

\* The lexer loses nothing and splits nothing: its spans cover every
\* character that is no blank, and two tokens that touch are never a number,
\* a word or an operator cut in two.
LexIsExact ==
    Running("lexer") =>
        LET src == st.source
            lexed == Tokenize(src, 1, <<>>)
            spans == lexed.spans
        IN  lexed.ok =>
              /\ \A p \in 1 .. Len(src) :
                    src[p] \in Blanks \/ Cardinality({i \in 1 .. Len(spans) : p \in spans[i][1] .. spans[i][2]}) = 1
              /\ \A i \in 1 .. Len(spans) - 1 :
                    LET last  == src[spans[i][2]]
                        first == src[spans[i + 1][1]]
                    IN  spans[i][2] + 1 = spans[i + 1][1] =>
                          /\ ~(last \in Letters \cup Digits /\ first \in Digits)
                          /\ ~(last \in Letters /\ first \in Letters)
              /\ \A i \in 1 .. Len(spans) :
                    src[spans[i][1]] \in Digits => src[spans[i][2]] \in Digits

\* The parser accepts exactly the sentences of the documented grammar, its
\* conditions on percentiles and windows included.
ParserIsItsGrammar ==
    Running("parser") => parse(st.tokens).ok = Derives(st.tokens, <<"expression">>, 1, Len(st.tokens))

\* An accepted arithmetic expression means what it says: the tree has the
\* usual precedence, binds to the left, and a minus negates one factor.
TreeIsRight ==
    Running("parser") =>
        \A e \in {parse(st.tokens)} :
            e.ok /\ e.node.kind # "aggregation" => e.node = TreeOf(st.tokens, 1, Len(st.tokens))

\* The references handed to the cycle check are all the references of the
\* text: none is lost on the way through the tree.
RefsAreComplete ==
    Running("parser") =>
        \A v \in {validate_metricql(st.tokens, QlIdentifiers)} :
            v.ok => v.refs = {st.tokens[i + 1] : i \in {k \in 1 .. Len(st.tokens) - 1 : st.tokens[k] = "@"}}
=============================================================================
