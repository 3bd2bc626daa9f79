--------------------------- MODULE ManagementPort ---------------------------
(***************************************************************************)
(* M5's Rust port: the lifecycle handlers over PostgreSQL, the guardrail   *)
(* consumer, and the configuration stream to one M1 client.  A handler is  *)
(* a sequence of store calls; between two of them the other handlers, the  *)
(* consumer and the stream go on, and a call may fail or its client go     *)
(* away, which ends the handler where it is.                               *)
(*                                                                         *)
(* raced and missed are history: the experiments whose broadcasts do not   *)
(* follow the order of their transitions, and those with a broadcast that  *)
(* M1's stream did not carry and nothing sent since made good.             *)
(***************************************************************************)
EXTENDS Integers, Sequences, FiniteSets, TLC

CONSTANTS
    Experiments,
    Handlers,       \* concurrent requests
    Types,          \* experiment types of the run
    Capacity,       \* BROADCAST_CAPACITY
    MaxRequests,    \* bound: requests begun
    MaxFaults,      \* bound: failed calls, lost clients, alerts the store refused
    MaxAlerts,      \* bound: guardrail alerts produced
    MaxRestarts,    \* bound: restarts of M5
    MaxConnects,    \* bound: streams M1 opens
    NoExperiment

ASSUME PortAssumption ==
    /\ Capacity \in Nat \ {0} /\ NoExperiment \notin Experiments
    /\ {MaxRequests, MaxFaults, MaxAlerts, MaxRestarts, MaxConnects} \subseteq Nat

VARIABLES
    db,        \* experiment -> [state, type, config], the row
    req,       \* handler -> the request it serves
    version,   \* SharedState.version
    log,       \* what this process has broadcast
    m1,        \* the client: its stream, its view, the version it knows,
               \* the rows its backfill has still to send
    alerts,    \* the guardrail topic and the consumer's offsets
    raced, missed,
    used       \* how much of each bound is spent

vars == <<db, req, version, log, m1, alerts, raced, missed, used>>

States == {"DRAFT", "STARTING", "RUNNING", "PAUSED", "CONCLUDING", "CONCLUDED", "ARCHIVED"}

\* valid_successors
Successors ==
    [DRAFT |-> {"STARTING"}, STARTING |-> {"RUNNING", "DRAFT"}, RUNNING |-> {"PAUSED", "CONCLUDING"},
     PAUSED |-> {"RUNNING", "CONCLUDING"}, CONCLUDING |-> {"CONCLUDED"},
     CONCLUDED |-> {"ARCHIVED"}, ARCHIVED |-> {}]

\* A request: where it is, its experiment, the row it read.
Idle == [op |-> "none", pc |-> "idle", exp |-> NoExperiment, row |-> "none"]
Ops == {"start", "pause", "resume", "conclude", "archive"}

Absent == "absent"
Active == {"RUNNING", "PAUSED"}
Visible(state) == IF state \in Active THEN state ELSE Absent
NothingListed == [e \in Experiments |-> Absent]

Init ==
    /\ db \in [Experiments -> [state : {"none"}, type : Types, config : {"valid", "invalid"}]]
    /\ req = [h \in Handlers |-> Idle]
    /\ version = 1 /\ log = <<>>
    /\ m1 = [stream |-> "closed", pos |-> 0, backfill |-> 0, known |-> 0, rows |-> NothingListed,
             view |-> [e \in Experiments |-> Absent]]
    /\ alerts = [topic |-> <<>>, pos |-> 0, committed |-> 0]
    /\ raced = {} /\ missed = {}
    /\ used = [requests |-> 0, faults |-> 0, restarts |-> 0, connects |-> 0]

-----------------------------------------------------------------------------
(* The store: each transition is one conditional UPDATE.                   *)

start_transition    == [from |-> {"DRAFT"}, to |-> "STARTING"]
run_transition      == [from |-> {"STARTING"}, to |-> "RUNNING"]
revert_to_draft     == [from |-> {"STARTING"}, to |-> "DRAFT"]
pause_transition    == [from |-> {"RUNNING"}, to |-> "PAUSED"]
resume_transition   == [from |-> {"PAUSED"}, to |-> "RUNNING"]
conclude_transition == [from |-> {"RUNNING", "PAUSED"}, to |-> "CONCLUDING"]
mark_concluded      == [from |-> {"CONCLUDING"}, to |-> "CONCLUDED"]
archive_transition  == [from |-> {"CONCLUDED"}, to |-> "ARCHIVED"]

\* Mutant: the UPDATE does not compare the state.
ExistsOnly(e, t) == db[e].state # "none"

\* rows_affected = 1
Matches(e, t) == db[e].state \in t.from

Update(e, t) == db' = [db EXCEPT ![e].state = IF Matches(e, t) THEN t.to ELSE @]

-----------------------------------------------------------------------------
(* What the handlers share.                                                *)

At(h, op, pc) == req[h].op = op /\ req[h].pc = pc
Goto(h, pc) == req' = [req EXCEPT ![h].pc = pc]
Done(h) == req' = [req EXCEPT ![h] = Idle]
Busy(e) == \E h \in Handlers : req[h].exp = e
Spend(what) == used' = [used EXCEPT ![what] = @ + 1]

\* create_experiment: validate_create, one transaction; a draft is not
\* broadcast.
validate_create(e) == db[e].type # "UNSPECIFIED"
create_experiment(e) ==
    /\ db[e].state = "none" /\ validate_create(e)
    /\ db' = [db EXCEPT ![e].state = "DRAFT"]
    /\ UNCHANGED <<req, version, log, m1, alerts, raced, missed, used>>

Begin(h, op, e) ==
    /\ req[h] = Idle /\ used.requests < MaxRequests /\ Spend("requests")
    /\ db[e].state # "none"
    /\ req' = [req EXCEPT ![h] = [op |-> op, pc |-> "transition", exp |-> e, row |-> "none"]]
    /\ raced' = IF Busy(e) THEN raced \cup {e} ELSE raced
    /\ UNCHANGED <<db, version, log, m1, alerts, missed>>

\* A transition: on no affected row the request is refused.
Step(h, t, next) ==
    /\ Update(req[h].exp, t)
    /\ IF Matches(req[h].exp, t) THEN Goto(h, next) ELSE Done(h)
    /\ UNCHANGED <<version, log, m1, alerts, raced, missed, used>>

\* get_experiment, get_variants: the row as it is now, not as this request
\* left it.
Read(h, next) ==
    /\ req' = [req EXCEPT ![h].row = db[req[h].exp].state, ![h].pc = next]
    /\ UNCHANGED <<db, version, log, m1, alerts, raced, missed, used>>

\* A receiver exists for the stream.
Receiving == m1.stream \notin {"closed", "loaded"}

\* SharedState::publish, after the audit entry (fetch_add and send as one
\* step).  A stream without a receiver never carries the event.
publish(h, deletion) ==
    LET e == req[h].exp IN
    /\ log' = Append(log, [exp |-> e, state |-> req[h].row, deletion |-> deletion, version |-> version])
    /\ version' = version + 1
    /\ missed' = IF Receiving THEN missed ELSE missed \cup {e}
    /\ Done(h)
    /\ UNCHANGED <<db, m1, alerts, raced, used>>

\* The configurations of a type are in the row, and experiment_row_to_proto
\* leaves them out.
experiment_row_to_proto(e) == [type |-> db[e].type, config |-> "none"]
validate_starting(proto) == proto.type \in {"META", "SWITCHBACK", "QUASI"} => proto.config = "valid"

-----------------------------------------------------------------------------
(* The handlers.                                                           *)

start_experiment(h) ==
    \/ At(h, "start", "transition") /\ Step(h, start_transition, "validate")
    \/ /\ At(h, "start", "validate")
       /\ Goto(h, IF validate_starting(experiment_row_to_proto(req[h].exp)) THEN "run" ELSE "revert")
       /\ UNCHANGED <<db, version, log, m1, alerts, raced, missed, used>>
    \/ /\ At(h, "start", "revert")
       /\ Update(req[h].exp, revert_to_draft) /\ Done(h)
       /\ UNCHANGED <<version, log, m1, alerts, raced, missed, used>>
    \/ At(h, "start", "run") /\ Step(h, run_transition, "read")
    \/ At(h, "start", "read") /\ Read(h, "publish")
    \/ At(h, "start", "publish") /\ publish(h, FALSE)

pause_experiment(h) ==
    \/ At(h, "pause", "transition") /\ Step(h, pause_transition, "read")
    \/ At(h, "pause", "read") /\ Read(h, "publish")
    \/ At(h, "pause", "publish") /\ publish(h, FALSE)

resume_experiment(h) ==
    \/ At(h, "resume", "transition") /\ Step(h, resume_transition, "read")
    \/ At(h, "resume", "read") /\ Read(h, "publish")
    \/ At(h, "resume", "publish") /\ publish(h, FALSE)

\* Whether mark_concluded fails is not looked at: the event goes out and the
\* experiment may stay CONCLUDING.
conclude_experiment(h) ==
    \/ At(h, "conclude", "transition") /\ Step(h, conclude_transition, "mark")
    \/ /\ At(h, "conclude", "mark") /\ Goto(h, "read")
       /\ \/ Update(req[h].exp, mark_concluded) /\ UNCHANGED used
          \/ used.faults < MaxFaults /\ Spend("faults") /\ UNCHANGED db
       /\ UNCHANGED <<version, log, m1, alerts, raced, missed>>
    \/ At(h, "conclude", "read") /\ Read(h, "publish")
    \/ At(h, "conclude", "publish") /\ publish(h, TRUE)

\* The release of the buckets is a task of its own (BucketReuse).
archive_experiment(h) ==
    \/ At(h, "archive", "transition") /\ Step(h, archive_transition, "read")
    \/ At(h, "archive", "read") /\ Read(h, "publish")
    \/ At(h, "archive", "publish") /\ publish(h, TRUE)

\* A store call fails or the client goes away: the handler ends, and what it
\* did stays done and unannounced.
HandlerFails(h) ==
    /\ req[h] # Idle /\ used.faults < MaxFaults /\ Spend("faults")
    /\ raced' = IF req[h].pc = "transition" THEN raced ELSE raced \cup {req[h].exp}
    /\ Done(h)
    /\ UNCHANGED <<db, version, log, m1, alerts, missed>>

-----------------------------------------------------------------------------
(* The guardrail consumer.                                                 *)

AlertArrives(e) ==
    /\ Len(alerts.topic) < MaxAlerts /\ db[e].state # "none"
    /\ alerts' = [alerts EXCEPT !.topic = Append(@, e)]
    /\ UNCHANGED <<db, req, version, log, m1, raced, missed, used>>

\* consume_loop: the pause has no broadcast, only a lifecycle message on
\* Kafka; a store error is logged and the alert counts as consumed.
consume_guardrail_alert ==
    /\ alerts.pos < Len(alerts.topic)
    /\ alerts' = [alerts EXCEPT !.pos = @ + 1]
    /\ LET e == alerts.topic[alerts.pos + 1] IN
         \/ /\ Update(e, pause_transition) /\ UNCHANGED used
            /\ raced' = IF Matches(e, pause_transition) THEN raced \cup {e} ELSE raced
         \/ used.faults < MaxFaults /\ Spend("faults") /\ UNCHANGED <<db, raced>>
    /\ UNCHANGED <<req, version, log, m1, missed>>

commit_consumer_state ==
    /\ alerts.committed < alerts.pos
    /\ alerts' = [alerts EXCEPT !.committed = alerts.pos]
    /\ UNCHANGED <<db, req, version, log, m1, raced, missed, used>>

-----------------------------------------------------------------------------
(* StreamConfigUpdates, and the client that applies what it carries.       *)

\* version.load and subscribe are two calls: what is published between them
\* is neither delivered nor, if it is of a client that knew all before, sent
\* by the backfill.
stream_config_updates ==
    /\ m1.stream = "closed" /\ used.connects < MaxConnects /\ Spend("connects")
    /\ m1' = [m1 EXCEPT !.stream = "loaded", !.backfill = version]
    /\ UNCHANGED <<db, req, version, log, alerts, raced, missed>>

\* config_tx.subscribe: the receiver is created before the backfill is read,
\* and there is one only for a client that is behind the version loaded.
subscribe ==
    /\ m1.stream = "loaded"
    /\ m1' = [m1 EXCEPT !.stream = IF m1.known < m1.backfill THEN "behind" ELSE "live",
                        !.pos = Len(log)]
    /\ UNCHANGED <<db, req, version, log, alerts, raced, missed, used>>

\* list_active_experiments: the rows as they are now; on a store error the
\* stream goes on without.
ListActive ==
    /\ m1.stream = "behind"
    /\ \/ /\ m1' = [m1 EXCEPT !.stream = "backfill",
                              !.rows = [e \in Experiments |-> Visible(db[e].state)]]
          /\ UNCHANGED used
       \/ used.faults < MaxFaults /\ Spend("faults") /\ m1' = [m1 EXCEPT !.stream = "live"]
    /\ UNCHANGED <<db, req, version, log, alerts, raced, missed>>

\* The higher of two versions.
Later(v, w) == IF v > w THEN v ELSE w

\* A row of the list, however old by now, replaces the client's view; one
\* whose variants cannot be read is left out.  The rows go out in the order
\* of their ids, which no step depends on: here in any.
SendRow(e) ==
    /\ m1.stream = "backfill" /\ m1.rows[e] # Absent
    /\ \/ /\ m1' = [m1 EXCEPT !.rows[e] = Absent, !.view[e] = m1.rows[e],
                              !.known = Later(m1.backfill, @)]
          /\ missed' = missed \ {e} /\ UNCHANGED used
       \/ /\ used.faults < MaxFaults /\ Spend("faults")
          /\ m1' = [m1 EXCEPT !.rows[e] = Absent] /\ UNCHANGED missed
    /\ UNCHANGED <<db, req, version, log, alerts, raced>>

\* Mutant: the receiver is created after the backfill.
ReceiveFromNow == Len(log)

\* Where the receiver stands when the backfill is over.
ReceiveFrom == m1.pos

EndBackfill ==
    /\ m1.stream = "backfill" /\ m1.rows = NothingListed
    /\ m1' = [m1 EXCEPT !.stream = "live", !.pos = ReceiveFrom]
    /\ UNCHANGED <<db, req, version, log, alerts, raced, missed, used>>

\* The client upserts or deletes, whatever the version.
Apply(m, event) ==
    [m EXCEPT !.view[event.exp] = IF event.deletion THEN Absent ELSE Visible(event.state),
              !.known = Later(event.version, @),
              !.pos = @ + 1]

\* A receiver that fell behind skips to what the channel still holds; an
\* event makes good for those before it about the same experiment.
Deliver ==
    /\ m1.stream = "live" /\ m1.pos < Len(log)
    /\ LET oldest == Len(log) - Capacity IN
       IF m1.pos < oldest
       THEN /\ m1' = [m1 EXCEPT !.pos = oldest]
            /\ missed' = missed \cup {log[i].exp : i \in m1.pos + 1 .. oldest}
       ELSE /\ m1' = Apply(m1, log[m1.pos + 1])
            /\ missed' = missed \ {log[m1.pos + 1].exp}
    /\ UNCHANGED <<db, req, version, log, alerts, raced, used>>

\* The stream breaks, perhaps between two rows of the backfill: what was
\* queued on it is lost.
Disconnect ==
    /\ m1.stream # "closed"
    /\ m1' = [m1 EXCEPT !.stream = "closed", !.rows = NothingListed]
    /\ missed' = missed \cup {log[i].exp : i \in m1.pos + 1 .. Len(log)}
    /\ UNCHANGED <<db, req, version, log, alerts, raced, used>>

\* Mutant: the position outlives the connection.
CutKeepingPosition(m) == [m EXCEPT !.stream = "closed", !.rows = NothingListed]

\* The connection ends with the process.
Cut(m) == [m EXCEPT !.stream = "closed", !.pos = 0, !.rows = NothingListed]

\* SharedState::new: the version starts again at one.
Restart ==
    /\ used.restarts < MaxRestarts /\ Spend("restarts")
    /\ version' = 1 /\ log' = <<>>
    /\ req' = [h \in Handlers |-> Idle]
    /\ m1' = Cut(m1)
    /\ alerts' = [alerts EXCEPT !.pos = alerts.committed]
    /\ raced' = raced \cup {e \in Experiments : \E h \in Handlers :
                                req[h].exp = e /\ req[h].pc # "transition"}
    /\ missed' = IF ~Receiving THEN missed
                 ELSE missed \cup {log[i].exp : i \in m1.pos + 1 .. Len(log)}
    /\ UNCHANGED db

Streaming ==
    \/ stream_config_updates \/ subscribe \/ ListActive \/ EndBackfill
    \/ Deliver \/ Disconnect \/ \E e \in Experiments : SendRow(e)

Next ==
    \/ \E e \in Experiments : create_experiment(e) \/ AlertArrives(e)
    \/ \E h \in Handlers, op \in Ops, e \in Experiments : Begin(h, op, e)
    \/ \E h \in Handlers :
         \/ start_experiment(h) \/ pause_experiment(h) \/ resume_experiment(h)
         \/ conclude_experiment(h) \/ archive_experiment(h) \/ HandlerFails(h)
    \/ consume_guardrail_alert \/ commit_consumer_state
    \/ Streaming
    \/ Restart

Spec == Init /\ [][Next]_vars

\* Nothing tells one handler from another.
HandlerSymmetry == Permutations(Handlers)

-----------------------------------------------------------------------------
(* Properties.                                                             *)

TypeOK ==
    /\ db \in [Experiments -> [state : States \cup {"none"}, type : Types, config : {"valid", "invalid"}]]
    /\ \A h \in Handlers :
         /\ req[h].op \in Ops \cup {"none"} /\ req[h].exp \in Experiments \cup {NoExperiment}
         /\ req[h].pc \in {"idle", "transition", "validate", "revert", "run", "mark", "read", "publish"}
         /\ req[h].row \in States \cup {"none"}
    /\ version \in Nat /\ log \in Seq([exp : Experiments, state : States, deletion : BOOLEAN, version : Nat])
    /\ m1.stream \in {"closed", "loaded", "behind", "backfill", "live"} /\ m1.pos \in 0 .. Len(log)
    /\ m1.rows \in [Experiments -> Active \cup {Absent}]
    /\ m1.view \in [Experiments -> States \cup {Absent}]
    /\ alerts.committed <= alerts.pos /\ alerts.pos <= Len(alerts.topic)
    /\ raced \subseteq Experiments /\ missed \subseteq Experiments

\* Whatever runs at the same time, an experiment only moves along the edges
\* of the state machine: a handler that lost the race changes nothing.
OnlyLegalTransitions ==
    [][\A e \in Experiments : db[e].state \notin {"none", db'[e].state}
          => db'[e].state \in Successors[db[e].state]]_vars

\* M1 agrees with the database: once the stream is drained and no request
\* for an experiment is under way, M1 serves it exactly if it is running or
\* paused, unless requests for it overlapped or were cut off, the guardrail
\* consumer paused it, or its last broadcast met no receiver - none was
\* connected, or between load and subscribe, or the ring had moved on - and
\* neither a row of a backfill nor a later broadcast has come since.
ViewIsExact ==
    m1.stream = "live" /\ m1.pos = Len(log) =>
        \A e \in Experiments \ (raced \cup missed) :
            Busy(e) \/ m1.view[e] = Visible(db[e].state)

\* M1 never serves an experiment that never ran, and never one as running
\* before the handler that started it validated it.
ServedWasStarted ==
    \A e \in Experiments : m1.view[e] # Absent =>
        db[e].state \notin {"none", "DRAFT", "STARTING"} /\ validate_starting(experiment_row_to_proto(e))

\* "On every state transition that yields a visible state change (RUNNING,
\* PAUSED, ARCHIVED), the service broadcasts a ConfigUpdateEvent to all
\* connected M1 subscribers": with no fault, no overlap and no lost stream, a
\* drained M1 agrees with the database.
EveryPauseIsBroadcast ==
    m1.stream = "live" /\ m1.pos = Len(log) /\ used.requests = 1 =>
        \A e \in Experiments \ missed :
            Busy(e) \/ used.faults > 0 \/ m1.view[e] = Visible(db[e].state)

\* M1 serves what M5 decided: an up-to-date view is exact, and nothing is
\* served that M5 never started.
ServedIsTrue ==
    /\ ViewIsExact /\ ServedWasStarted
=============================================================================
