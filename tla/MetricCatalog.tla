--------------------------- MODULE MetricCatalog ---------------------------
(***************************************************************************)
(* The metric definitions of M5: creation, with the walk over operands and *)
(* references that looks for cycles, and the migration of a CUSTOM metric  *)
(* to a structured one.  Handlers run concurrently, and every lookup of    *)
(* the walk is a query of its own.  A definition is never changed or       *)
(* deleted.                                                                *)
(***************************************************************************)
EXTENDS Machine

CONSTANTS
    MetricIds,        \* metric ids; "" is blank
    MetricRequests,   \* [kind, def, old, shadow, operator] of callers
    Handlers,         \* concurrent requests
    ShadowRuns,       \* M3's shadow runs
    Identifiers,      \* strings that are bare lowercase identifiers
    CleanFilters,     \* strings validate_filter_sql accepts
    DepthCap,         \* DEFAULT_DEPTH_CAP
    MaxHours,         \* WINDOWED_COUNT_MAX_HOURS
    MaxCalls,         \* bound: requests received
    NoMetric, NoConfig, Infinite

NoRequest == [phase |-> "idle"]

Definitions == {r.def : r \in MetricRequests}
Composites ==
    [of : {"COMPOSITE"}, operator : {"UNSPECIFIED", "ADD", "SUBTRACT", "MULTIPLY", "DIVIDE", "WEIGHTED_SUM"},
     operands : Seq([id : MetricIds, weight : Int \cup {Infinite}])]

CatalogInit ==
    /\ st = [algo |-> "catalog", metric |-> [i \in MetricIds |-> NoMetric],
             migrations |-> {}, approved |-> {}, calls |-> 0,
             req |-> [h \in Handlers |-> NoRequest]]

-----------------------------------------------------------------------------
(* The checks that read nothing but the definition.                        *)

Require(condition) == IF condition THEN "ok" ELSE "invalid_argument"

validate_metric_common_fields(m) == FirstFailure(<<Require(m.id # ""), Require(m.name # "")>>)

\* A config of another type than the metric's is no config.
ConfigOf(m, type) == IF m.config = NoConfig \/ m.config.of # type THEN NoConfig ELSE m.config

validate_filtered_mean(cfg) ==
    IF cfg = NoConfig THEN Require(FALSE)
    ELSE FirstFailure(<<Require(cfg.column \in Identifiers),
                        Require(cfg.filter # ""), Require(cfg.filter \in CleanFilters)>>)

validate_windowed_count(cfg) ==
    IF cfg = NoConfig THEN Require(FALSE)
    ELSE FirstFailure(<<Require(cfg.event \in Identifiers),
                        Require(cfg.hours > 0), Require(cfg.hours <= MaxHours),
                        Require(cfg.filter # "" => cfg.filter \in CleanFilters)>>)

\* A usable operator, its arity, the weights of a weighted sum, the ids.
ArityFits(op, n) ==
    CASE op \in {"ADD", "MULTIPLY", "WEIGHTED_SUM"} -> n >= 2
      [] op \in {"SUBTRACT", "DIVIDE"} -> n = 2
validate_composite(cfg) ==
    IF cfg = NoConfig THEN Require(FALSE)
    ELSE FirstFailure(<<
        Require(cfg.operator # "UNSPECIFIED"),
        Require(cfg.operator # "UNSPECIFIED" => ArityFits(cfg.operator, Len(cfg.operands))),
        Require(cfg.operator = "WEIGHTED_SUM" =>
                    \A o \in Elements(cfg.operands) : o.weight # Infinite /\ o.weight > 0),
        Require(\A o \in Elements(cfg.operands) : o.id # "")>>)

\* An expression is what the parser makes of it: blank, diagnostics, or refs.
validate_metricql_arm(expression) == Require(expression.reads = "ok")

StaticCheck(m) ==
    FirstFailure(<<validate_metric_common_fields(m),
        CASE m.type = "FILTERED_MEAN"  -> validate_filtered_mean(ConfigOf(m, m.type))
          [] m.type = "WINDOWED_COUNT" -> validate_windowed_count(ConfigOf(m, m.type))
          [] m.type = "COMPOSITE"      -> validate_composite(ConfigOf(m, m.type))
          [] m.type = "METRICQL"       -> validate_metricql_arm(m.expression)
          [] OTHER -> "ok">>)

-----------------------------------------------------------------------------
(* The store.                                                              *)

\* get_composite_operands, get_metricql_refs: the edges of a stored metric.
Neighbors(m) ==
    CASE m.type = "COMPOSITE" -> [i \in 1 .. Len(m.config.operands) |-> m.config.operands[i].id]
      [] m.type = "METRICQL"  -> m.expression.refs
      [] OTHER -> <<>>

exists_metric(i) == st.metric[i] # NoMetric
exists_all_metrics(ids) == \A i \in ids : exists_metric(i)

\* What INSERT keeps: an infinite weight becomes JSON's null, read back as 0.
build_metric_type_config(m) ==
    IF m.config = NoConfig \/ m.config.of # "COMPOSITE" THEN m
    ELSE LET operands == m.config.operands IN
         [m EXCEPT !.config.operands = [i \in 1 .. Len(operands) |->
            [operands[i] EXCEPT !.weight = IF @ = Infinite THEN 0 ELSE @]]]

Inserted(m) == [st.metric EXCEPT ![m.id] = build_metric_type_config(m)]

\* Definitions are records over the ids there are, a row is told from no row,
\* and there are more ids than levels.
ASSUME CatalogAssumption ==
    /\ Definitions \subseteq [id : MetricIds, name : {d.name : d \in Definitions},
                              type : {d.type : d \in Definitions},
                              config : {d.config : d \in Definitions},
                              expression : [reads : {"blank", "diagnostics", "ok"}, refs : Seq(MetricIds)]]
    /\ \A d \in Definitions : d.config = NoConfig \/ d.config.of # "COMPOSITE" \/ d.config \in Composites
    /\ \A d \in Definitions : build_metric_type_config(d) # NoMetric
    /\ \A r \in MetricRequests : r.old \in MetricIds \cup {""}
    /\ DepthCap \in Nat /\ MaxCalls \in Nat
    /\ IsFiniteSet(MetricIds) /\ DepthCap <= Cardinality(MetricIds)

-----------------------------------------------------------------------------
(* Handlers.                                                               *)

Done(h) == [st.req EXCEPT ![h] = NoRequest]
Continue(h, r) == [st EXCEPT !.req[h] = r]

\* The frame of the root, with the operands of the incoming definition.
Root(r) == [r EXCEPT !.phase = "walk",
                     !.color = [i \in MetricIds |-> IF i = r.def.id THEN "gray" ELSE "white"],
                     !.stack = <<[node |-> r.def.id, remaining |-> Neighbors(r.def)]>>]
AfterWalk(r) == [r EXCEPT !.phase = IF r.kind = "migrate" THEN "shadow" ELSE "insert",
                          !.color = <<>>, !.stack = <<>>]

Calling(h) == st.req[h].phase = "idle" /\ st.calls < MaxCalls
Accept(h, r) ==
    st' = [st EXCEPT !.calls = @ + 1,
                     !.req[h] = [kind |-> r.kind, def |-> r.def, old |-> r.old, shadow |-> r.shadow,
                                 phase |-> IF r.kind = "migrate" THEN "old" ELSE "exists",
                                 color |-> <<>>, stack |-> <<>>]]

create_metric_definition(h, r) ==
    /\ Calling(h) /\ r.kind = "create"
    /\ StaticCheck(r.def) = "ok"
    /\ Accept(h, r)

\* migrate_metric_definition: the new metric is structured and another one.
migrate_metric_definition(h, r) ==
    /\ Calling(h) /\ r.kind = "migrate"
    /\ r.old # "" /\ r.operator # ""
    /\ r.def.type # "CUSTOM" /\ r.def.id # r.old
    /\ Accept(h, r)

\* The old metric exists and is CUSTOM; then the definition is validated.
CheckOld(h) ==
    LET r == st.req[h] IN
    /\ r.phase = "old"
    /\ IF exists_metric(r.old) /\ st.metric[r.old].type = "CUSTOM" /\ StaticCheck(r.def) = "ok"
       THEN st' = Continue(h, [r EXCEPT !.phase = "exists"])
       ELSE st' = [st EXCEPT !.req = Done(h)]

\* exists_all_metrics, then check_no_cycles starts: no self-reference, and a
\* depth cap that allows one level.
CheckExists(h) ==
    LET r == st.req[h]
        ids == Elements(Neighbors(r.def))
    IN  /\ r.phase = "exists"
        /\ \/ /\ ids = {} /\ st' = Continue(h, AfterWalk(r))
           \/ /\ ids # {} /\ exists_all_metrics(ids) /\ r.def.id \notin ids /\ DepthCap > 0
              /\ st' = Continue(h, Root(r))
           \/ /\ ids # {} /\ ~(exists_all_metrics(ids) /\ r.def.id \notin ids /\ DepthCap > 0)
              /\ st' = [st EXCEPT !.req = Done(h)]

\* One turn of the walk's loop: the next child of the top frame.
TooDeep(r) == Len(r.stack) > DepthCap
WalkChild(h) ==
    LET r     == st.req[h]
        top   == Len(r.stack)
        child == Head(r.stack[top].remaining)
        next  == [r EXCEPT !.stack[top].remaining = Tail(@)]
    IN  /\ r.phase = "walk" /\ r.stack[top].remaining # <<>>
        /\ \/ /\ \/ TooDeep(r) \/ r.color[child] = "gray"
                 \/ r.color[child] = "white" /\ st.metric[child] = NoMetric
              /\ st' = [st EXCEPT !.req = Done(h)]
           \/ /\ ~TooDeep(r) /\ r.color[child] = "black"
              /\ st' = Continue(h, next)
           \/ /\ ~TooDeep(r) /\ r.color[child] = "white" /\ st.metric[child] # NoMetric
              /\ st' = Continue(h, [next EXCEPT
                    !.color[child] = "gray",
                    !.stack = Append(@, [node |-> child,
                                         remaining |-> Neighbors(st.metric[child])])])

WalkReturn(h) ==
    LET r   == st.req[h]
        top == Len(r.stack)
        up  == [r EXCEPT !.color[r.stack[top].node] = "black",
                         !.stack = SubSeq(@, 1, top - 1)]
    IN  /\ r.phase = "walk" /\ r.stack[top].remaining = <<>>
        /\ st' = Continue(h, IF top = 1 THEN AfterWalk(r) ELSE up)

\* GetShadowResults: only an approved run lets the migration go on.
CheckShadow(h) ==
    LET r == st.req[h] IN
    /\ r.phase = "shadow"
    /\ st' = IF r.shadow \in st.approved THEN Continue(h, [r EXCEPT !.phase = "insert"])
             ELSE [st EXCEPT !.req = Done(h)]

\* Mutant: an id that exists is replaced.
create_metric_upserts(h) ==
    LET r == st.req[h] IN
    /\ r.phase = "insert" /\ r.kind = "create"
    /\ st' = [st EXCEPT !.req = Done(h), !.metric = Inserted(r.def)]

\* create_metric: the primary key refuses an id that exists.
create_metric(h) ==
    LET r == st.req[h] IN
    /\ r.phase = "insert" /\ r.kind = "create"
    /\ st' = [st EXCEPT !.req = Done(h),
                        !.metric = IF exists_metric(r.def.id) THEN @ ELSE Inserted(r.def)]

\* migrate_metric: one transaction, the metric and the audit row; the audit
\* row's key is the old metric.
Migrated(r) == \E x \in st.migrations : x.old = r.old
migrate_metric(h) ==
    LET r  == st.req[h]
        ok == ~exists_metric(r.def.id) /\ ~Migrated(r)
    IN  /\ r.phase = "insert" /\ r.kind = "migrate"
        /\ st' = [st EXCEPT !.req = Done(h),
                            !.metric = IF ok THEN Inserted(r.def) ELSE @,
                            !.migrations = IF ~ok THEN @
                                ELSE @ \cup {[old |-> r.old, new |-> r.def.id, shadow |-> r.shadow]}]

\* M3 approves a shadow run.
ApproveShadow(s) == s \notin st.approved /\ st' = [st EXCEPT !.approved = @ \cup {s}]

CatalogNext ==
    /\ Running("catalog")
    /\ \/ \E s \in ShadowRuns : ApproveShadow(s)
       \/ \E h \in Handlers :
            \/ \E r \in MetricRequests : create_metric_definition(h, r) \/ migrate_metric_definition(h, r)
            \/ CheckOld(h) \/ CheckExists(h) \/ WalkChild(h) \/ WalkReturn(h)
            \/ CheckShadow(h) \/ create_metric(h) \/ migrate_metric(h)

CatalogSpec == CatalogInit /\ [][CatalogNext]_st

-----------------------------------------------------------------------------
(* Properties.                                                             *)

\* The metrics reachable from a metric in at most n steps.
Reach(m, n) ==
    LET reach[k \in 0 .. n] ==
            IF k = 0 THEN {m}
            ELSE reach[k - 1] \cup UNION {Elements(Neighbors(st.metric[x])) : x \in
                                            {y \in reach[k - 1] : st.metric[y] # NoMetric}}
    IN  reach[n]

Stored == {i \in MetricIds : st.metric[i] # NoMetric}

\* Whatever creations and migrations run at the same time, no metric is
\* defined in terms of itself and none refers to one that does not exist:
\* each walk saw the catalog at several moments, and only definitions that
\* never change make their verdict last.
CatalogIsSound ==
    Running("catalog") =>
        \A i \in Stored :
            LET below == UNION {Reach(x, Cardinality(MetricIds)) : x \in Elements(Neighbors(st.metric[i]))}
            IN  i \notin below /\ below \subseteq Stored

\* Everything a metric is computed from is at most DepthCap levels below it
\* along some chain of references.  (Along the longest chain it may be
\* further: a metric already walked is not walked again.)
CatalogIsShallow ==
    Running("catalog") =>
        \A i \in Stored : Reach(i, Cardinality(MetricIds)) = Reach(i, DepthCap)

\* A CUSTOM metric is replaced at most once, by a structured metric that
\* exists, and the CUSTOM metric stays.
MigratedOnce ==
    Running("catalog") =>
        \A x, y \in st.migrations :
            /\ x.old = y.old => x = y
            /\ {x.old, x.new} \subseteq Stored
            /\ st.metric[x.old].type = "CUSTOM" /\ st.metric[x.new].type # "CUSTOM"

\* What M5 lets into its catalog can be computed, though the checks read the
\* catalog at other moments than the insert: the graph of metrics stays
\* acyclic and shallow, and every metric is migrated once.
DefinitionsAreSound ==
    /\ CatalogIsSound /\ CatalogIsShallow /\ MigratedOnce
=============================================================================
