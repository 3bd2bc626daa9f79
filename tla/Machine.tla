------------------------------ MODULE Machine ------------------------------
(***************************************************************************)
(* The state of a self-contained algorithm.  The modules of the platform's *)
(* algorithms all keep their state in the one variable st, a record whose  *)
(* field algo names the algorithm, so that one run can check several of    *)
(* them, each from its own initial states.                                 *)
(***************************************************************************)
EXTENDS Integers, Sequences, FiniteSets

VARIABLE st

Running(name) == st.algo = name

Least(S)    == CHOOSE x \in S : \A y \in S : x <= y
Greatest(S) == CHOOSE x \in S : \A y \in S : y <= x

AtMost(x, y)  == IF x < y THEN x ELSE y
AtLeast(x, y) == IF x > y THEN x ELSE y
Clamp(x, lo, hi) == AtLeast(lo, AtMost(x, hi))

Elements(s) == {s[i] : i \in 1 .. Len(s)}

\* The members of a sequence that are in S, in order.
Filtered(s, S) ==
    LET kept[i \in 0 .. Len(s)] ==
            IF i = 0 THEN <<>> ELSE IF s[i] \in S THEN Append(kept[i - 1], s[i]) ELSE kept[i - 1]
    IN  kept[Len(s)]

\* The first outcome of a sequence of checks that is not "ok".
FirstFailure(checks) ==
    LET bad == {i \in 1 .. Len(checks) : checks[i] # "ok"}
    IN  IF bad = {} THEN "ok" ELSE checks[Least(bad)]

\* The n smallest members of a set of numbers, in order.
Smallest(S, n) ==
    [k \in 1 .. AtMost(n, Cardinality(S)) |->
        CHOOSE x \in S : Cardinality({y \in S : y < x}) = k - 1]

\* The sum of a sequence of integers.
SumOf(s) ==
    LET sum[i \in 0 .. Len(s)] == IF i = 0 THEN 0 ELSE sum[i - 1] + s[i] IN sum[Len(s)]
=============================================================================
