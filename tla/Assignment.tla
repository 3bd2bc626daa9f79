---------------------------- MODULE Assignment ----------------------------
(***************************************************************************)
(* M1's assignment path: the lookup, targeting, bucketing and delegation   *)
(* of GetAssignment, slates, and the batch of GetAssignments, which        *)
(* evaluates the experiments of one snapshot one after the other while the *)
(* configuration it reads each of them from goes on changing.              *)
(*                                                                         *)
(* A configuration is a function from experiment ids to records; hash is   *)
(* any function from (entity, salt) to buckets.  Fractions and             *)
(* probabilities are counted in units of 1/Whole.  What depends on M4b is  *)
(* the set of possible answers.                                            *)
(***************************************************************************)
EXTENDS Machine

CONSTANTS
    Configs,       \* configurations the run starts from
    Users,
    Sessions,      \* session ids; "" when the request has none
    Buckets,       \* total_buckets
    Salts,
    PolicyArms,    \* arms M4b may answer with
    PolicySlates,  \* slates M4b may answer with
    Whole,         \* the units of a fraction
    MaxUpdates,    \* bound: configuration changes
    MaxVariants,   \* bound: variants of a divided range
    MaxRange,      \* bound: buckets of a divided range
    MaxCandidates, \* bound: candidates of a slate
    NumberOf,      \* attribute value -> its number (parse::<f64>), or NotANumber
    Substrings,    \* attribute value -> the values it contains
    NotANumber,
    None

ExperimentFields == {"state", "type", "salt", "layer", "start", "end", "holdout", "targeting",
                     "cross_session", "arms", "switchback", "variants"}

\* Variants of an experiment have ids of their own; the times of a switchback
\* are numbers, and the hash bit of a cluster is a bit.
ASSUME AssignmentAssumption ==
    /\ Whole \in Nat \ {0} /\ MaxVariants \in Nat /\ MaxRange \in Nat /\ MaxCandidates \in Nat
    /\ \A v \in DOMAIN NumberOf : NumberOf[v] # NotANumber => NumberOf[v] \in Int
    /\ \A c \in Configs : \A e \in DOMAIN c :
          /\ DOMAIN c[e] = ExperimentFields
          /\ Len(c[e].variants) \in Nat
          /\ \A i, j \in 1 .. Len(c[e].variants) :
                c[e].variants[i].id # "" /\ (i # j => c[e].variants[i].id # c[e].variants[j].id)
          /\ c[e].switchback # None =>
                /\ c[e].switchback.duration \in Int /\ c[e].switchback.washout \in Int
                /\ c[e].switchback.group[""] \in BOOLEAN

-----------------------------------------------------------------------------
(* Targeting rules: all of the groups of a rule must match, a group if one *)
(* of its predicates does.                                                 *)

\* compare_numeric: both sides must be numbers.
CompareNumeric(v, values, Holds(_, _)) ==
    /\ NumberOf[v] # NotANumber
    /\ Len(values) > 0 /\ NumberOf[Head(values)] # NotANumber
    /\ Holds(NumberOf[v], NumberOf[Head(values)])

Greater(a, b) == a > b
Less(a, b) == a < b
GreaterOrEqual(a, b) == a >= b
LessOrEqual(a, b) == a <= b

\* A missing attribute never matches, whatever the operator.
AttributePresent(p, attributes) == p.key \in DOMAIN attributes

evaluate_predicate(p, attributes) ==
    /\ AttributePresent(p, attributes)
    /\ p.key \in DOMAIN attributes =>
         LET v == attributes[p.key]
             first == Len(p.values) > 0
         IN  CASE p.operator = "EQUALS" -> first /\ Head(p.values) = v
               [] p.operator = "NOT_EQUALS" -> first /\ Head(p.values) # v
               [] p.operator = "IN" -> v \in Elements(p.values)
               [] p.operator = "NOT_IN" -> v \notin Elements(p.values)
               [] p.operator = "CONTAINS" -> first /\ Head(p.values) \in Substrings[v]
               [] p.operator = "GT" -> CompareNumeric(v, p.values, Greater)
               [] p.operator = "LT" -> CompareNumeric(v, p.values, Less)
               [] p.operator = "GTE" -> CompareNumeric(v, p.values, GreaterOrEqual)
               [] p.operator = "LTE" -> CompareNumeric(v, p.values, LessOrEqual)
               [] OTHER -> FALSE

evaluate_group(g, attributes) == g = <<>> \/ \E p \in Elements(g) : evaluate_predicate(p, attributes)

evaluate(rule, attributes) == \A g \in Elements(rule) : evaluate_group(g, attributes)

\* Inputs: a rule of up to two groups of up to two predicates.
Operators == {"EQUALS", "NOT_EQUALS", "IN", "NOT_IN", "CONTAINS", "GT", "LT", "GTE", "LTE", "UNSPECIFIED"}
Operands == DOMAIN NumberOf
TargetingInit ==
    \E k \in [1 .. 2 -> {"k", "m"}], o \in [1 .. 2 -> Operators], n \in 0 .. 2,
       v \in Operands, u \in Operands, split \in BOOLEAN, keys \in SUBSET {"k", "m"} :
        LET p(i) == [key |-> k[i], operator |-> o[i], values |-> SubSeq(<<v, u>>, 1, n)]
        IN  st = [algo |-> "targeting", attributes |-> [x \in keys |-> u],
                  rule |-> IF split THEN << <<p(1)>>, <<p(2)>> >> ELSE << <<p(1), p(2)>>, <<>> >>]

\* Targeting fails closed: a user who has none of the attributes a group asks
\* about is never targeted, not by a negated operator either; and of a
\* comparison and its negation at most one matches.
TargetingFailsClosed ==
    Running("targeting") =>
        /\ \A g \in Elements(st.rule) :
              g # <<>> /\ (\A p \in Elements(g) : p.key \notin DOMAIN st.attributes)
                => ~evaluate(st.rule, st.attributes)
        /\ \A g \in Elements(st.rule) : \A p \in Elements(g) :
              \A pair \in {<<"EQUALS", "NOT_EQUALS">>, <<"IN", "NOT_IN">>, <<"GT", "LTE">>, <<"LT", "GTE">>} :
                  ~(/\ evaluate_predicate([p EXCEPT !.operator = pair[1]], st.attributes)
                    /\ evaluate_predicate([p EXCEPT !.operator = pair[2]], st.attributes))

-----------------------------------------------------------------------------
(* One assignment.                                                         *)

Response(e, variant, active) ==
    [status |-> "ok", experiment |-> e, variant |-> variant, active |-> active]
Error(e, code) == [status |-> code, experiment |-> e, variant |-> "", active |-> FALSE]

\* bucket and is_in_allocation
Bucket(hash, entity, salt) == hash[<<entity, salt>>] % Buckets
is_in_allocation(b, x) == x.start <= b /\ b <= x.end

\* select_variant: the first variant whose cumulative share of the range is
\* beyond the bucket, else the last.
Beyond(rel, share, size) == rel * Whole < share * size
select_variant(x, b) ==
    LET size == x.end - x.start + 1
        share(i) == SumOf([j \in 1 .. i |-> x.variants[j].fraction])
        hit == {i \in 1 .. Len(x.variants) : Beyond(b - x.start, share(i), size)}
    IN  x.variants[IF hit = {} THEN Len(x.variants) ELSE Least(hit)]

\* The client's calls: M4b's answers when there is a client; a timeout or an
\* error is no answer.
select_arm(client) == IF client THEN PolicyArms ELSE {}
select_slate(client) == IF client THEN PolicySlates ELSE {}

\* select_arm_uniform: one of the configured arms.
select_arm_uniform(e, arms) ==
    IF arms = {} THEN {Error(e, "failed_precondition")} ELSE {Response(e, a, TRUE) : a \in arms}

\* M4b's arm, or one of the local arms when it does not answer.
assign_bandit(e, x, client) ==
    IF x.arms = None THEN {Error(e, "failed_precondition")}
    ELSE {Response(e, a, TRUE) : a \in select_arm(client)} \cup select_arm_uniform(e, x.arms)

\* The arm of the policy of the variant the user is in.
assign_meta(e, x, v, client) ==
    IF x.arms = None THEN {Error(e, "failed_precondition")}
    ELSE {Response(e, a, TRUE) : a \in select_arm(client)} \cup select_arm_uniform(e, x.arms)

-----------------------------------------------------------------------------
(* Switchback: the variant alternates with the block of the clock.         *)

compute_block_index(now, duration) == IF duration <= 0 THEN 0 ELSE now \div duration

is_in_washout(now, duration, washout) ==
    washout > 0 /\ duration > 0 /\ now % duration < washout

\* validate_config, with the least duration and the fewest cycles as 2 and 4.
MinBlock == 2
MinCycles == 4
ValidSwitchback(s) ==
    /\ s.duration >= MinBlock /\ s.cycles >= MinCycles /\ s.washout >= 0
    /\ s.washout > 0 => s.washout < s.duration

simple_alternating(block) == block % 2 # 0

\* Group and coin are hash bits of the cluster, and of the cluster and block.
UseTreatment(s, block, cluster) ==
    CASE s.design = "REGULAR_BALANCED" -> simple_alternating(block) # s.group[cluster]
      [] s.design = "RANDOMIZED" -> s.coin[<<cluster, block % 2>>]
      [] OTHER -> simple_alternating(block)

ControlIndex(x) ==
    LET c == {i \in 1 .. Len(x.variants) : x.variants[i].control}
    IN  IF c = {} THEN 1 ELSE Least(c)
TreatmentIndex(x) == IF ControlIndex(x) = 1 THEN AtMost(2, Len(x.variants)) ELSE 1

assign_switchback(e, x, q) ==
    LET s == x.switchback
        block == compute_block_index(q.now, s.duration)
    IN  IF s = None THEN Error(e, "failed_precondition")
        ELSE IF ~ValidSwitchback(s) THEN Error(e, "failed_precondition")
        ELSE IF is_in_washout(q.now, s.duration, s.washout) THEN Response(e, "", TRUE)
        ELSE Response(e, x.variants[IF UseTreatment(s, block, q.cluster) THEN TreatmentIndex(x)
                                    ELSE ControlIndex(x)].id, TRUE)

-----------------------------------------------------------------------------
(* GetAssignment.                                                          *)

\* The entity that is hashed: the session, unless variation across sessions
\* is ruled out.
HashInput(x, q) ==
    IF x.type = "SESSION_LEVEL" /\ x.cross_session THEN q.session ELSE q.user

Bucketed(e, x, q, hash, client) ==
    LET b == Bucket(hash, HashInput(x, q), x.salt)
        v == select_variant(x, b)
    IN  IF x.type = "SESSION_LEVEL" /\ q.session = "" THEN {Error(e, "invalid_argument")}
        ELSE IF ~is_in_allocation(b, x) THEN {Response(e, "", TRUE)}
        ELSE IF x.type = "META" THEN assign_meta(e, x, v, client)
        ELSE {Response(e, v.id, TRUE)}

\* assign: the possible answers for experiment e under configuration c.
assign(c, e, q, hash, client) ==
    IF e \notin DOMAIN c THEN {Error(e, "not_found")}
    ELSE LET x == c[e] IN
         IF x.state # "RUNNING" THEN {Response(e, "", FALSE)}
         ELSE IF x.targeting # None /\ ~evaluate(x.targeting, q.attributes)
              THEN {Response(e, "", TRUE)}
         ELSE IF x.layer = None THEN {Error(e, "internal")}
         ELSE CASE x.type \in {"MAB", "CONTEXTUAL_BANDIT"} -> assign_bandit(e, x, client)
                [] x.type = "SWITCHBACK" -> {assign_switchback(e, x, q)}
                [] x.type = "SLATE_BANDIT" -> {Response(e, "", TRUE)}
                [] OTHER -> Bucketed(e, x, q, hash, client)

-----------------------------------------------------------------------------
(* GetAssignments.  holdouts and regular hold what is left of the two      *)
(* phases; claimed the layers a holdout took.                              *)

Queue(c, holdout) == {e \in DOMAIN c : c[e].holdout = holdout}

AssignmentInit ==
    \E c \in Configs, u \in Users, s \in Sessions, client \in BOOLEAN,
       hash \in [(Users \cup (Sessions \ {""})) \X Salts -> 0 .. Buckets - 1] :
        st = [algo |-> "assignment", config |-> c, hash |-> hash, client |-> client,
              query |-> [user |-> u, session |-> s, attributes |-> <<>>, now |-> 3, cluster |-> ""],
              snapshot |-> c, holdouts |-> Queue(c, TRUE), regular |-> Queue(c, FALSE),
              claimed |-> {}, answers |-> {}, updates |-> 0]

\* The stream client replaces the snapshot: an experiment changes its state
\* or is removed.
UpdateConfig ==
    /\ st.updates < MaxUpdates /\ st.holdouts \cup st.regular # {}
    /\ \E e \in DOMAIN st.config :
         \/ st' = [st EXCEPT !.updates = @ + 1,
                             !.config = [d \in DOMAIN @ \ {e} |-> @[d]]]
         \/ \E s \in {"RUNNING", "PAUSED"} \ {st.config[e].state} :
              st' = [st EXCEPT !.updates = @ + 1, !.config[e].state = s]

\* Mutant: a holdout that fails does not claim the user.
ClaimsVariantOnly(r) == r.status = "ok" /\ r.variant # ""

Claims(r) == r.status # "ok" \/ r.variant # ""

EvaluateHoldout ==
    \E e \in st.holdouts :
        \E r \in assign(st.config, e, st.query, st.hash, st.client) :
            st' = [st EXCEPT
                    !.holdouts = @ \ {e},
                    !.claimed = IF Claims(r) THEN @ \cup {st.snapshot[e].layer} ELSE @,
                    !.answers = IF r.status = "ok" THEN @ \cup {r} ELSE @]

\* Regular experiments follow the holdouts; an error is skipped.
EvaluateRegular ==
    /\ st.holdouts = {}
    /\ \E e \in st.regular :
         \/ /\ st.snapshot[e].layer \in st.claimed
            /\ st' = [st EXCEPT !.regular = @ \ {e}]
         \/ /\ st.snapshot[e].layer \notin st.claimed
            /\ \E r \in assign(st.config, e, st.query, st.hash, st.client) :
                 st' = [st EXCEPT !.regular = @ \ {e},
                                  !.answers = IF r.status = "ok" THEN @ \cup {r} ELSE @]

-----------------------------------------------------------------------------
(* GetSlateAssignment, and how a range is divided: inputs to check.        *)

\* The Fisher-Yates shuffle of the fallback: draw[i] is the position that is
\* swapped with position i, from the last to the second.
Swap(s, i, j) == [s EXCEPT ![i] = s[j], ![j] = s[i]]
Draws(n) == {d \in [2 .. n -> 1 .. n] : \A i \in 2 .. n : d[i] <= i}
Shuffle(s, draw) ==
    LET after[i \in 1 .. Len(s)] ==
            IF i = Len(s) THEN s ELSE Swap(after[i + 1], i + 1, draw[i + 1])
    IN  IF s = <<>> THEN <<>> ELSE after[1]

\* assign_slate: the possible answers; M4b's is passed on as it is.
Slate(code, items) == [status |-> code, items |-> items]
assign_slate(r) ==
    IF ~r.known THEN {Slate("not_found", <<>>)}
    ELSE IF r.state # "RUNNING" THEN {Slate("ok", <<>>)}
    ELSE IF r.slots = None \/ r.slots = 0 THEN {Slate("failed_precondition", <<>>)}
    ELSE IF Len(r.candidates) < r.slots THEN {Slate("invalid_argument", <<>>)}
    ELSE {Slate("ok", s) : s \in select_slate(r.client)} \cup
         {Slate("ok", SubSeq(Shuffle(r.candidates, d), 1, r.slots)) : d \in Draws(Len(r.candidates))}

SlateInit ==
    \E known, client \in BOOLEAN, state \in {"RUNNING", "PAUSED"}, slots \in {None} \cup 0 .. MaxCandidates,
       n \in 0 .. MaxCandidates :
        st = [algo |-> "slate",
              request |-> [known |-> known, client |-> client, state |-> state, slots |-> slots,
                           candidates |-> [i \in 1 .. n |-> i]]]

VariantsInit ==
    \E n \in 1 .. MaxVariants, size \in 1 .. MaxRange, fractions \in [1 .. MaxVariants -> 0 .. Whole] :
        st = [algo |-> "variants",
              experiment |-> [start |-> 2, end |-> size + 1,
                              variants |-> [i \in 1 .. n |-> [id |-> i, fraction |-> fractions[i]]]]]

AssignmentNext ==
    Running("assignment") /\ (UpdateConfig \/ EvaluateHoldout \/ EvaluateRegular)

-----------------------------------------------------------------------------
(* Properties.                                                             *)

\* A holdout leaks to nobody: who got a variant of a holdout, or whose
\* holdout could not be evaluated, gets no variant of another experiment of
\* its layer in the same answer, however the configuration changes meanwhile.
HoldoutIsExclusive ==
    Running("assignment") =>
        \A h \in Queue(st.snapshot, TRUE) \ st.holdouts :
            (\/ \E r \in st.answers : r.experiment = h /\ r.variant # ""
             \/ \A r \in st.answers : r.experiment # h)
                => \A r \in st.answers :
                      r.variant # "" /\ r.experiment \in Queue(st.snapshot, FALSE)
                        => st.snapshot[r.experiment].layer # st.snapshot[h].layer

\* The variants of an experiment divide its buckets as their fractions say:
\* when the fractions are whole, every variant is within one bucket of its
\* share, whatever the size of the range.
SharesAreFair ==
    Running("variants") =>
        LET x == st.experiment
            size == x.end - x.start + 1
            of(i) == {b \in x.start .. x.end : select_variant(x, b).id = i}
        IN  SumOf([i \in 1 .. Len(x.variants) |-> x.variants[i].fraction]) = Whole =>
              \A i \in 1 .. Len(x.variants) :
                  LET off == Whole * Cardinality(of(i)) - x.variants[i].fraction * size
                  IN  -Whole < off /\ off < Whole

\* Without variation across sessions a user keeps the variant in every session.
SessionsAreSticky ==
    Running("assignment") =>
        \A e \in DOMAIN st.config :
            st.config[e].type = "SESSION_LEVEL" /\ ~st.config[e].cross_session =>
                \A s, t \in Sessions \ {""} :
                    LET in(z) == [st.query EXCEPT !.session = z]
                    IN  assign(st.config, e, in(s), st.hash, st.client)
                          = assign(st.config, e, in(t), st.hash, st.client)

\* The slate served while M4b is away is a fair lottery: every sequence of
\* draws gives a different order of the candidates, and every order is drawn.
SlateIsFair ==
    Running("slate") =>
        LET c == st.request.candidates
            D == Draws(Len(c))
        IN  /\ \A d, f \in D : d # f => Shuffle(c, d) # Shuffle(c, f)
            /\ {Shuffle(c, d) : d \in D}
                 = {p \in [1 .. Len(c) -> Elements(c)] : Elements(p) = Elements(c)}
            /\ \A a \in assign_slate(st.request) :
                  a.status = "ok" /\ a.items # <<>> /\ ~st.request.client =>
                      Cardinality(Elements(a.items)) = st.request.slots

\* Layers: experiments of one layer never both assign a variant to a user.
LayerIsExclusive ==
    Running("assignment") =>
        \A r, t \in st.answers :
            r.variant # "" /\ t.variant # "" /\ r.experiment # t.experiment =>
                st.snapshot[r.experiment].layer # st.snapshot[t.experiment].layer

\* The blocks of a valid switchback: everyone of a cluster has a variant
\* outside the washout and none in it, and the next block has the other.
SwitchbackAlternates ==
    Running("assignment") =>
        \A e \in DOMAIN st.config :
            LET x == st.config[e]
                at(t) == assign_switchback(e, x, [st.query EXCEPT !.now = t])
                alternating == /\ x.type = "SWITCHBACK" /\ x.switchback # None /\ Len(x.variants) > 1
                               /\ ValidSwitchback(x.switchback) /\ x.switchback.design # "RANDOMIZED"
            IN  alternating =>
                  \A t \in 0 .. 2 * x.switchback.duration - 1 :
                      /\ at(t).status = "ok"
                      /\ at(t).variant = "" <=>
                            t % x.switchback.duration < x.switchback.washout
                      /\ at(t).variant # "" =>
                            at(t).variant # at(t + x.switchback.duration).variant

\* What M1 answers is a controlled assignment: holdouts and targeting keep
\* out whom they should, variants get their shares, and a user stays where
\* the session, the block or the lottery puts them.
AssignmentIsSound ==
    /\ TargetingFailsClosed /\ HoldoutIsExclusive /\ SharesAreFair
    /\ SessionsAreSticky /\ SwitchbackAlternates /\ SlateIsFair
=============================================================================
