---------------------------- MODULE Sessionizer ----------------------------
(***************************************************************************)
(* Heartbeat sessionization: heartbeats of one viewer, device and content  *)
(* are folded into a session, which an inactivity gap, a sweep or the      *)
(* shutdown turns into one QoE event.  Time is counted in heartbeat        *)
(* intervals.  log is history: the accepted heartbeats of each session.    *)
(***************************************************************************)
EXTENDS EventValidation

CONSTANTS
    SessionKeys,    \* (user_id, device_id, content_id)
    Heartbeats,     \* heartbeats without their key and time
    Gap,            \* session_gap
    MaxClock,       \* bound: server time
    MaxHeartbeats,  \* bound: heartbeats ingested
    Scale,          \* the denominator of ratios
    NoSession

\* A ratio is counted in parts of Scale; what is no number is told from one.
ASSUME SessionAssumption ==
    /\ Day \in Nat /\ Gap \in Nat /\ Scale \in Nat /\ MaxClock \in Nat
    /\ \A k \in {"bitrate", "height", "ratio", "ttff", "count", "duration"} : Limit[k] \in Nat
    /\ Limit["ratio"] = Scale
    /\ \A x \in {NaN, Absent, NegativeNanos, Unrepresentable} : x \notin Int
    /\ Heartbeats \subseteq
          [given : {h.given : h \in Heartbeats}, timestamp : Int,
           session_id : {h.session_id : h \in Heartbeats}, is_startup : BOOLEAN, is_rebuffering : BOOLEAN,
           buffer : {h.buffer : h \in Heartbeats}, bitrate : Int, height : Int]

SessionInit ==
    st = [algo |-> "sessionizer", clock |-> 0, taken |-> 0, dropped |-> 0,
          sessions |-> [k \in SessionKeys |-> NoSession],
          log |-> [k \in SessionKeys |-> <<>>],
          emitted |-> {}]

\* SessionState::open
Open(h, t) ==
    [client_id |-> h.session_id, first |-> t, last |-> t,
     first_frame |-> IF h.is_startup THEN Absent ELSE t,
     transitions |-> IF h.is_rebuffering THEN 1 ELSE 0, rebuffering |-> h.is_rebuffering,
     rebuffer_time |-> 0, bitrate_sum |-> h.bitrate, count |-> 1,
     height |-> h.height, switches |-> 0, peak |-> AtLeast(h.height, 0),
     started |-> ~h.is_startup]

\* SessionState::apply
Apply(s, h, t) ==
    [s EXCEPT !.rebuffer_time = IF s.rebuffering THEN @ + (t - s.last) ELSE @,
              !.transitions = IF ~s.rebuffering /\ h.is_rebuffering THEN @ + 1 ELSE @,
              !.rebuffering = h.is_rebuffering,
              !.started = @ \/ ~h.is_startup,
              !.first_frame = IF ~h.is_startup /\ ~s.started THEN t ELSE @,
              !.bitrate_sum = @ + h.bitrate, !.count = @ + 1,
              !.switches = IF s.height # h.height THEN @ + 1 ELSE @,
              !.height = h.height, !.peak = AtLeast(@, h.height), !.last = t]

Duration(s) == AtLeast(s.last - s.first, 0)
Ttff(s) ==
    IF s.first_frame = Absent THEN 0
    ELSE AtMost(AtLeast(s.first_frame - s.first, 0), Limit["ttff"])

\* ebvs_detected: the player never left startup.
Ebvs(s) == ~s.started

\* Mutant: the count is passed on as it is.
RebufferCountUnclamped(s) == s.transitions

\* Numbers are clamped to what validate_playback_metrics accepts.
RebufferCount(s) == Clamp(s.transitions, 0, Limit["count"])

\* SessionState::finalize
Finalize(s) ==
    [given |-> {"event_id", "session_id", "content_id", "user_id"}, timestamp |-> s.last,
     session_id |-> IF s.client_id = "" THEN <<"srv-sess", s.first>> ELSE s.client_id,
     metrics |->
        [time_to_first_frame |-> Ttff(s), rebuffer_count |-> RebufferCount(s),
         rebuffer_ratio |-> IF Duration(s) > 0
                            THEN (Scale * AtMost(s.rebuffer_time, Duration(s))) \div Duration(s)
                            ELSE 0,
         avg_bitrate |-> Clamp(s.bitrate_sum \div s.count, 0, Limit["bitrate"]),
         resolution_switches |-> Clamp(s.switches, 0, Limit["count"]),
         peak_height |-> Clamp(s.peak, 0, Limit["height"]),
         startup_failure_rate |-> IF s.started THEN 0 ELSE Scale,
         playback_duration |-> AtMost(Duration(s), Limit["duration"]),
         ebvs_detected |-> Ebvs(s)]]

Emission(k) == [event |-> Finalize(st.sessions[k]), log |-> st.log[k], at |-> st.clock]

\* An open session takes a heartbeat that is at most the gap behind it.
WithinGap(s, t) == t - s.last <= Gap

Ingest(k, h, t) ==
    LET hb  == [h EXCEPT !.timestamp = t]
        s   == st.sessions[k]
        old == s # NoSession
        in  == [st EXCEPT !.taken = @ + 1, !.emitted = {}]
    IN  /\ st.taken < MaxHeartbeats
        /\ validate_heartbeat_event(hb, st.clock) = "ok"
        /\ \/ /\ old /\ t < s.last
              /\ st' = [in EXCEPT !.dropped = @ + 1]
           \/ /\ old /\ t >= s.last /\ WithinGap(s, t)
              /\ st' = [in EXCEPT !.sessions[k] = Apply(s, hb, t), !.log[k] = Append(@, hb)]
           \/ /\ old /\ t >= s.last /\ ~WithinGap(s, t)
              /\ st' = [in EXCEPT !.emitted = {Emission(k)},
                                  !.sessions[k] = Open(hb, t), !.log[k] = <<hb>>]
           \/ /\ ~old
              /\ st' = [in EXCEPT !.sessions[k] = Open(hb, t), !.log[k] = <<hb>>]

Close(keys) ==
    st' = [st EXCEPT !.emitted = {Emission(k) : k \in keys},
                     !.sessions = [k \in SessionKeys |-> IF k \in keys THEN NoSession ELSE @[k]],
                     !.log = [k \in SessionKeys |-> IF k \in keys THEN <<>> ELSE @[k]]]

OpenKeys == {k \in SessionKeys : st.sessions[k] # NoSession}

flush_expired ==
    LET expired == {k \in OpenKeys : st.sessions[k].last < st.clock - Gap}
    IN  expired # {} /\ Close(expired)

drain == OpenKeys # {} /\ Close(OpenKeys)

Tick == st.clock < MaxClock /\ st' = [st EXCEPT !.clock = @ + 1, !.emitted = {}]

SessionNext ==
    /\ Running("sessionizer")
    /\ \/ \E k \in SessionKeys, h \in Heartbeats, t \in -Day .. MaxClock + Day : Ingest(k, h, t)
       \/ flush_expired \/ drain \/ Tick

IngestionSpec == (SessionInit \/ ValidationInit) /\ [][SessionNext]_st

-----------------------------------------------------------------------------
(* Properties.                                                             *)

\* Every QoE event the sessionizer emits - at a gap, a sweep or the shutdown -
\* passes the validation of the ingestion service, unless nobody swept and
\* the session's last heartbeat is more than a day old.
EmittedPassesValidation ==
    Running("sessionizer") =>
        \A x \in st.emitted :
            \/ validate_qoe_event(x.event, x.at) = "ok"
            \/ x.event.timestamp < x.at - Day
               /\ validate_playback_metrics(x.event.metrics) = "ok"

Rising(l) == {i \in 1 .. Len(l) : l[i].is_rebuffering /\ (i = 1 \/ ~l[i - 1].is_rebuffering)}

\* What an event reports is what its heartbeats say: the session is a run of
\* heartbeats in time order, none further than the gap behind the one before,
\* and its counts, its average, its peak and whether a frame was ever shown
\* agree with them, up to the clamps.
EmittedIsItsHeartbeats ==
    Running("sessionizer") =>
        \A x \in st.emitted :
            LET l == x.log
                m == x.event.metrics
            IN  /\ \A i \in 1 .. Len(l) - 1 :
                      l[i + 1].timestamp - l[i].timestamp \in 0 .. Gap
                /\ m.rebuffer_count = AtMost(Cardinality(Rising(l)), Limit["count"])
                /\ m.avg_bitrate =
                      SumOf([i \in 1 .. Len(l) |-> l[i].bitrate]) \div Len(l)
                /\ m.peak_height = Greatest({l[i].height : i \in 1 .. Len(l)})
                /\ m.ebvs_detected <=> \A i \in 1 .. Len(l) : l[i].is_startup

\* What reaches Kafka from the ingestion side can be used: validation lets
\* nothing unusable pass and takes nothing down, and what the sessionizer
\* emits is what its heartbeats say and is itself valid.
IngestionIsSound ==
    /\ EmittedPassesValidation /\ EmittedIsItsHeartbeats
    /\ ValidatedIsUsable
=============================================================================
