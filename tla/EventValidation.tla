-------------------------- MODULE EventValidation --------------------------
(***************************************************************************)
(* The schema checks of the ingest crate.  An event is a record: the set   *)
(* given of its text fields that are not empty, its timestamps, and its    *)
(* numbers.  A timestamp is an integer or one of the malformed ones; a     *)
(* number is an integer or NaN, which makes the check panic.  The checks   *)
(* run in the order of the code: an event with two faults is answered for  *)
(* the first.                                                              *)
(***************************************************************************)
EXTENDS Machine

CONSTANTS
    Day,             \* 24 hours
    NaN,             \* a number that is not finite
    Absent,          \* a timestamp that is missing
    NegativeNanos,   \* a timestamp with negative nanoseconds
    Unrepresentable, \* a timestamp chrono has no date for
    Limit            \* the upper bound of each bounded number

validate_timestamp(t, now) == IF t < now - Day \/ t > now + Day THEN "invalid" ELSE "ok"

validate_required(e, fields) == IF fields \subseteq e.given THEN "ok" ELSE "invalid"

Malformed(t) == t \in {Absent, NegativeNanos, Unrepresentable}

require_timestamp(t, now) == IF Malformed(t) THEN "invalid" ELSE validate_timestamp(t, now)

assert_finite(x) == IF x = NaN THEN "panic" ELSE "ok"

InRange(x, lo, hi) == IF x = NaN \/ (lo <= x /\ x <= hi) THEN "ok" ELSE "invalid"

\* A map from items to algorithms, as a set of pairs; "" is an empty name.
validate_interleaving_provenance(provenance) ==
    IF \E p \in provenance : p[1] = "" \/ p[2] = "" THEN "invalid" ELSE "ok"

validate_exposure(e, now) ==
    FirstFailure(<<validate_required(e, {"event_id", "experiment_id", "user_id", "variant_id"}),
                   require_timestamp(e.timestamp, now),
                   assert_finite(e.value),
                   validate_interleaving_provenance(e.provenance)>>)

validate_metric_event(e, now) ==
    FirstFailure(<<validate_required(e, {"event_id", "user_id", "event_type"}),
                   require_timestamp(e.timestamp, now), assert_finite(e.value)>>)

validate_reward_event(e, now) ==
    FirstFailure(<<validate_required(e, {"event_id", "experiment_id", "user_id", "arm_id"}),
                   require_timestamp(e.timestamp, now), assert_finite(e.value)>>)

require_retraining_timestamp(t) == IF Malformed(t) THEN "invalid" ELSE "ok"

validate_model_retraining_event(e) ==
    FirstFailure(<<validate_required(e, {"event_id", "model_id"}),
                   require_retraining_timestamp(e.start),
                   require_retraining_timestamp(e.end),
                   IF Malformed(e.start) \/ Malformed(e.end) \/ e.end > e.start
                   THEN "ok" ELSE "invalid">>)

\* The key of a retraining event is its model and the start of its window; a
\* start that is present but malformed still has seconds.
model_retraining_dedup_key(e) ==
    IF e.start = Absent THEN <<"event_id", e.id>> ELSE <<e.model, e.start>>

validate_heartbeat_event(h, now) ==
    FirstFailure(<<validate_required(h, {"user_id", "device_id", "content_id"}),
                   require_timestamp(h.timestamp, now),
                   assert_finite(h.buffer),
                   IF h.buffer # NaN /\ h.buffer < 0 THEN "invalid" ELSE "ok",
                   InRange(h.bitrate, 0, Limit["bitrate"]),
                   InRange(h.height, 0, Limit["height"])>>)

validate_playback_metrics(m) ==
    FirstFailure(<<assert_finite(m.rebuffer_ratio), InRange(m.rebuffer_ratio, 0, Limit["ratio"]),
                   assert_finite(m.startup_failure_rate),
                   IF m.startup_failure_rate \in {0, Limit["ratio"], NaN} THEN "ok" ELSE "invalid",
                   InRange(m.time_to_first_frame, 0, Limit["ttff"]),
                   InRange(m.rebuffer_count, 0, Limit["count"]),
                   InRange(m.avg_bitrate, 0, Limit["bitrate"]),
                   InRange(m.resolution_switches, 0, Limit["count"]),
                   InRange(m.playback_duration, 0, Limit["duration"]),
                   InRange(m.peak_height, 0, Limit["height"])>>)

validate_qoe_event(e, now) ==
    FirstFailure(<<validate_required(e, {"event_id", "session_id", "content_id", "user_id"}),
                   require_timestamp(e.timestamp, now),
                   validate_playback_metrics(e.metrics)>>)

-----------------------------------------------------------------------------
(* Inputs: one event that carries the fields of every kind.                *)

Timestamps == {Absent, NegativeNanos, Unrepresentable} \cup -1 .. Day + 1
Names == {"event_id", "experiment_id", "user_id", "variant_id", "arm_id", "event_type", "model_id"}

ValidationInit ==
    \E missing \in Names \cup {"nothing"}, t, start, end \in Timestamps, v \in {0, NaN},
       p \in SUBSET {<<"item", "algo">>, <<"", "algo">>, <<"item", "">>} :
        st = [algo |-> "validation",
              event |-> [given |-> Names \ {missing}, timestamp |-> t, start |-> start, end |-> end,
                         value |-> v, provenance |-> p, id |-> "x", model |-> "m"]]

Verdicts ==
    [exposure |-> validate_exposure(st.event, 0), metric |-> validate_metric_event(st.event, 0),
     reward |-> validate_reward_event(st.event, 0), retraining |-> validate_model_retraining_event(st.event)]

\* Nothing unusable passes, and nothing that is refused takes the process
\* down: an accepted event can be keyed by its names and placed in time, its
\* numbers are finite, and the check that panics is only reached by an event
\* that was sound up to there.
ValidatedIsUsable ==
    Running("validation") =>
        LET e == st.event
            near(t) == ~Malformed(t) /\ -Day <= t /\ t <= Day
        IN  /\ \A k \in {"exposure", "metric", "reward"} :
                  Verdicts[k] # "invalid" => near(e.timestamp) /\ {"event_id", "user_id"} \subseteq e.given
            /\ \A k \in {"exposure", "metric", "reward"} : Verdicts[k] = "ok" => e.value # NaN
            /\ Verdicts.exposure = "ok" => \A p \in e.provenance : "" \notin {p[1], p[2]}
            /\ Verdicts.retraining = "ok" =>
                  /\ ~Malformed(e.start) /\ ~Malformed(e.end) /\ e.start < e.end
                  /\ model_retraining_dedup_key(e) = <<e.model, e.start>>
=============================================================================
