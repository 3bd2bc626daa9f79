----------------------------- MODULE FilterSql -----------------------------
(***************************************************************************)
(* The allowlist M5 applies to a metric's filter_sql: whole-text checks    *)
(* for what is forbidden, then a tokenizer that knows only what is         *)
(* allowed.  A filter is a sequence of characters; a keyword is one        *)
(* character that is a word of its own: N for AND, OR, NOT and IN, I for   *)
(* IS, U for NULL, S for SELECT; x is a lower-case letter, X an upper-case *)
(* one, # either end of a block comment.                                   *)
(***************************************************************************)
EXTENDS Machine

CONSTANTS
    Filters,        \* texts
    MaxFilterLen    \* MAX_FILTER_SQL_LEN

WordChars == {"x", "X", "1", "N", "I", "U", "S"}
SqlChar(s, p) == IF p \in 1 .. Len(s) THEN s[p] ELSE ""

\* The last position of the word at p; p - 1 when there is none.
WordEnd(s, p) ==
    LET after == {q \in p .. Len(s) : s[q] \notin WordChars}
    IN  IF after = {} THEN Len(s) ELSE Least(after) - 1
WordAt(s, p) == SubSeq(s, p, WordEnd(s, p))

\* is_identifier: lower-case, not starting with a digit.
is_identifier(w) == w # <<>> /\ w[1] = "x" /\ Elements(w) \subseteq {"x", "1"}

-----------------------------------------------------------------------------
(* The checks of the whole text.                                           *)

\* string_literal_mask: every quote toggles; quotes are masked too.
QuotesBefore(s, p) == Cardinality({q \in 1 .. p - 1 : s[q] = "'"})

\* Mutant: a doubled quote stays inside the literal.
MaskWithEscapes(s, p) ==
    s[p] = "'" \/ Cardinality({q \in 1 .. p - 1 : s[q] = "'" /\ SqlChar(s, q - 1) # "'"}) % 2 = 1

Masked(s, p) == s[p] = "'" \/ QuotesBefore(s, p) % 2 = 1

\* A word outside literals that starts at p.
WordStart(s, p) ==
    /\ s[p] \in WordChars /\ ~Masked(s, p)
    /\ p = 1 \/ SqlChar(s, p - 1) \notin WordChars

contains_function_call(s) ==
    \E p \in 1 .. Len(s) :
        /\ WordStart(s, p) /\ SqlChar(s, WordEnd(s, p) + 1) = "("
        /\ WordAt(s, p) # <<"N">>

contains_select_keyword(s) == \E p \in 1 .. Len(s) : WordStart(s, p) /\ WordAt(s, p) = <<"S">>

Forbidden(s) ==
    \/ Elements(s) \subseteq {" "} \/ Len(s) > MaxFilterLen
    \/ ";" \in Elements(s) \/ "#" \in Elements(s)
    \/ \E p \in 1 .. Len(s) - 1 : s[p] = "-" /\ s[p + 1] = "-"
    \/ contains_function_call(s) \/ contains_select_keyword(s)

-----------------------------------------------------------------------------
(* The tokenizer.                                                          *)

SkipBlanks(s, p) ==
    LET inked == {q \in p .. Len(s) : s[q] # " "} IN IF inked = {} THEN Len(s) + 1 ELSE Least(inked)

DigitsEnd(s, p) ==
    LET after == {q \in p .. Len(s) : s[q] # "1"} IN IF after = {} THEN Len(s) ELSE Least(after) - 1

\* match_numeric: a sign, digits, and a fraction that has digits; 0 is none.
match_numeric(s, p) ==
    LET first == IF s[p] = "-" THEN p + 1 ELSE p
        whole == DigitsEnd(s, first)
    IN  IF SqlChar(s, first) # "1" THEN 0
        ELSE IF SqlChar(s, whole + 1) # "." THEN whole
        ELSE IF SqlChar(s, whole + 2) # "1" THEN 0 ELSE DigitsEnd(s, whole + 2)

match_symbolic_operator(s, p) ==
    IF s[p] = "!" THEN (IF SqlChar(s, p + 1) = "=" THEN p + 1 ELSE 0)
    ELSE IF s[p] = "=" THEN p ELSE 0

\* IS [NOT] NULL, whose words may be apart.
IsNullEnd(s, p) ==
    LET second == SkipBlanks(s, WordEnd(s, p) + 1)
        third  == SkipBlanks(s, WordEnd(s, second) + 1)
    IN  IF WordAt(s, second) = <<"U">> THEN WordEnd(s, second)
        ELSE IF WordAt(s, second) = <<"N">> /\ WordAt(s, third) = <<"U">> THEN WordEnd(s, third)
        ELSE 0

\* next_token at an inked position: its kind and where it ends; 0 is a
\* disallowed token.
next_token(s, p) ==
    LET c == s[p]
        w == WordAt(s, p)
        quotes == {q \in p + 1 .. Len(s) : s[q] = "'"}
        token(kind, end) == [kind |-> IF end = 0 THEN "error" ELSE kind, from |-> p, to |-> end]
    IN  CASE c \in {"(", ")", ","} -> token(c, p)
          [] c \in {"=", "!"} -> token("operator", match_symbolic_operator(s, p))
          [] c = "'" -> token("literal", IF quotes = {} THEN 0 ELSE Least(quotes))
          [] c \in {"-", "1"} -> token("number", match_numeric(s, p))
          [] w = <<"N">> -> token("operator", p)
          [] w = <<"I">> -> token("operator", IsNullEnd(s, p))
          [] c \in WordChars \ {"1"} /\ w \notin {<<"N">>, <<"I">>} ->
                token("identifier", IF is_identifier(w) THEN WordEnd(s, p) ELSE 0)
          [] OTHER -> token("error", 0)

RECURSIVE FilterTokens(_, _)
FilterTokens(s, p) ==
    LET at == SkipBlanks(s, p)
        t  == next_token(s, at)
    IN  IF at > Len(s) THEN <<>>
        ELSE IF t.kind = "error" THEN <<t>> ELSE <<t>> \o FilterTokens(s, t.to + 1)

validate_filter_sql(s) ==
    /\ ~Forbidden(s)
    /\ \A t \in Elements(FilterTokens(s, 1)) : t.kind # "error"

FilterInit == \E s \in Filters : st = [algo |-> "filter", text |-> s]

\* The two passes agree.  What the whole-text checks took for a string
\* literal is what the tokenizer reads as one, so in an accepted filter no
\* identifier stands directly before a parenthesis, no SELECT is outside a
\* literal, and the tokens cover the text but for the blanks.
FilterPassesAgree ==
    Running("filter") /\ validate_filter_sql(st.text) =>
        LET s == st.text
            tokens == Elements(FilterTokens(s, 1))
        IN  /\ \A t, u \in tokens :
                  t.kind = "identifier" /\ u.kind = "(" => u.from # t.to + 1
            /\ \A p \in 1 .. Len(s) :
                  /\ s[p] # " " => \E t \in tokens : p \in t.from .. t.to
                  /\ Masked(s, p) <=> \E t \in tokens : t.kind = "literal" /\ p \in t.from .. t.to
=============================================================================
