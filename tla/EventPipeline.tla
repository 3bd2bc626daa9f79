--------------------------- MODULE EventPipeline ---------------------------
(***************************************************************************)
(* M2, the event ingestion service.  Requests validate, deduplicate and    *)
(* publish their events one after the other, several requests at a time;   *)
(* when the broker cannot be reached an event goes to a bounded file on    *)
(* disk, which is replayed at the next start, before traffic is accepted.  *)
(*                                                                         *)
(* An event is a record: its own id, its kind, the key it is deduplicated  *)
(* by (for retraining events model and window start, so that two events    *)
(* may share one), what validation says of it, and whether it alone exceeds the      *)
(* buffer's limit.  Buffer sizes are counted in records.  A record that    *)
(* was written in part is Torn.                                            *)
(***************************************************************************)
EXTENDS Integers, Sequences, FiniteSets

CONSTANTS
    Events,      \* records [id, kind, key, check, huge]; check: "ok",
                 \* "invalid" or "panic" (a NaN or infinite number)
    Slots,       \* concurrent requests
    Batches,     \* the batches clients send: sequences of events
    MaxRecords,  \* BUFFER_MAX_MB, in records
    MaxRequests, \* bound: requests sent
    MaxFaults,   \* bound: crashes, I/O errors, rotations, false positives
    Torn         \* a partly written record

ASSUME PipelineAssumption ==
    /\ Batches \subseteq Seq(Events) \ {<<>>} /\ Torn \notin Events
    /\ MaxRecords \in Nat \ {0} /\ MaxRequests \in Nat /\ MaxFaults \in Nat

Keys == {e.key : e \in Events}

VARIABLES
    mode,       \* "replay" at startup, then "serve"
    todo,       \* per slot, the events of its request still to process
    pc,         \* per slot: "idle", "check" or "publish"
    current,    \* EventDedup.current: keys
    previous,   \* EventDedup.previous
    file,       \* the buffer file
    replay,     \* records read from it and still to publish
    failed,     \* whether one of them was refused
    topic,      \* how often each event is in Kafka
    requests,   \* requests so far
    faults,     \* faults so far
    acked,      \* history: events the client was told are accepted
    asDup,      \* history: events the client was told are duplicates
    refused,    \* history: events answered RESOURCE_EXHAUSTED
    abandoned,  \* history: events whose client went away during the publish
    dropped,    \* history: events given up with a warning in the log
    hazards     \* history: which faults happened

vars == <<mode, todo, pc, current, previous, file, replay, failed, topic,
          requests, faults, acked, asDup, refused, abandoned, dropped, hazards>>

dedup   == <<current, previous>>
disk    == <<file, dropped>>
startup == <<mode, replay, failed>>
answers == <<acked, asDup, refused, abandoned>>

\* What the service holds in memory, on disk and in Kafka.
TypeOK ==
    /\ mode \in {"replay", "serve"}
    /\ todo \in [Slots -> Seq(Events)] /\ pc \in [Slots -> {"idle", "check", "publish"}]
    /\ current \subseteq Keys /\ previous \subseteq Keys
    /\ file \in Seq(Events \cup {Torn})
    /\ replay \in Seq(Events) /\ failed \in BOOLEAN
    /\ topic \in [Events -> Nat] /\ requests \in 0 .. MaxRequests /\ faults \in 0 .. MaxFaults
    /\ UNION {acked, asDup, refused, abandoned, dropped} \subseteq Events
    /\ hazards \subseteq {"crash", "torn", "rotate", "false_positive", "timeout", "cancel"}

Init ==
    /\ mode = "serve" /\ todo = [s \in Slots |-> <<>>] /\ pc = [s \in Slots |-> "idle"]
    /\ current = {} /\ previous = {} /\ file = <<>> /\ replay = <<>> /\ failed = FALSE
    /\ topic = [e \in Events |-> 0] /\ requests = 0 /\ faults = 0
    /\ acked = {} /\ asDup = {} /\ refused = {} /\ abandoned = {} /\ dropped = {} /\ hazards = {}

Fault(h) == faults < MaxFaults /\ faults' = faults + 1 /\ hazards' = hazards \cup {h}
NoFault  == UNCHANGED <<faults, hazards>>

-----------------------------------------------------------------------------
(* The disk buffer.                                                        *)

Records(f) == {f[i] : i \in 1 .. Len(f)} \ {Torn}

\* Mutant: torn records are read as if complete.
ReadableWhole(f) == f

\* read_all stops at the first record it cannot complete.
Readable(f) ==
    LET bad == {i \in 1 .. Len(f) : f[i] = Torn}
    IN  IF bad = {} THEN f ELSE SubSeq(f, 1, (CHOOSE i \in bad : \A j \in bad : i <= j) - 1)

\* compact: the newest readable records that leave room for one more.
Compact(f) ==
    LET r == Readable(f)
        n == IF Len(r) < MaxRecords THEN Len(r) ELSE MaxRecords - 1
    IN  SubSeq(r, Len(r) - n + 1, Len(r))

\* current_size: the bytes of a torn record are fewer than a record's.
Size(f) == Cardinality({i \in 1 .. Len(f) : f[i] # Torn})

\* The room append makes before it writes.
MakeRoom(f) == IF Size(f) + 1 > MaxRecords THEN Compact(f) ELSE f

\* append: an event larger than the buffer is dropped with a warning, and so
\* is one the disk refuses; a failing write may leave part of a record.
BufferEvent(e) ==
    LET room == MakeRoom(file)
        gone == Records(Readable(file)) \ Records(room)
    IN  \/ /\ e.huge /\ dropped' = dropped \cup {e} /\ UNCHANGED file /\ NoFault
        \/ /\ ~e.huge /\ file' = Append(room, e) /\ dropped' = dropped \cup gone /\ NoFault
        \/ /\ ~e.huge /\ file' = Append(room, Torn) /\ dropped' = dropped \cup gone \cup {e}
           /\ Fault("torn")

-----------------------------------------------------------------------------
(* Deduplication: one lock around check and insert.                        *)

\* is_duplicate: a key found in the previous filter is inserted again.
Insert(k) == current \cup {k}

Seen(k) == k \in current \cup previous

\* rotate: the previous filter is dropped.
Rotate ==
    /\ mode = "serve" /\ Fault("rotate")
    /\ previous' = current /\ current' = {}
    /\ UNCHANGED <<startup, todo, pc, disk, topic, requests, answers>>

-----------------------------------------------------------------------------
(* Requests.                                                               *)

Send(s, b) ==
    /\ mode = "serve" /\ pc[s] = "idle" /\ requests < MaxRequests
    /\ requests' = requests + 1
    /\ todo' = [todo EXCEPT ![s] = b] /\ pc' = [pc EXCEPT ![s] = "check"]
    /\ UNCHANGED <<startup, dedup, disk, topic, faults, answers, hazards>>

One(s, kind)  == \E e \in Events : e.kind = kind /\ Send(s, <<e>>)
Many(s, kind) == \E b \in Batches : (\A i \in 1 .. Len(b) : b[i].kind = kind) /\ Send(s, b)

ingest_exposure(s)               == One(s, "exposure")
ingest_exposure_batch(s)         == Many(s, "exposure")
ingest_metric_event(s)           == One(s, "metric")
ingest_metric_event_batch(s)     == Many(s, "metric")
ingest_reward_event(s)           == One(s, "reward")
ingest_qo_e_event(s)             == One(s, "qoe")
ingest_qo_e_event_batch(s)       == Many(s, "qoe")
ingest_model_retraining_event(s) == One(s, "retraining")

Ingest(s) ==
    \/ ingest_exposure(s) \/ ingest_exposure_batch(s)
    \/ ingest_metric_event(s) \/ ingest_metric_event_batch(s) \/ ingest_reward_event(s)
    \/ ingest_qo_e_event(s) \/ ingest_qo_e_event_batch(s) \/ ingest_model_retraining_event(s)

\* The request goes on with its next event, or its answer goes out.
NextEvent(s) ==
    /\ todo' = [todo EXCEPT ![s] = Tail(@)]
    /\ pc' = [pc EXCEPT ![s] = IF Len(todo[s]) = 1 THEN "idle" ELSE "check"]

\* Mutant: an error is retried in place instead of answered.
EndRequestAgain(s) == UNCHANGED todo /\ pc' = [pc EXCEPT ![s] = "check"]

\* An error answers the whole request; the events behind are not looked at.
EndRequest(s) ==
    /\ todo' = [todo EXCEPT ![s] = <<>>] /\ pc' = [pc EXCEPT ![s] = "idle"]

\* Mutant: the filter remembers events that are then rejected.
DedupFirst(s) == current' = Insert(Head(todo[s]).key) /\ UNCHANGED previous

\* Validation comes before deduplication: a rejected event leaves no trace.
ValidateFirst(s) == UNCHANGED dedup

\* A single invalid event is an error, an invalid event of a batch is only
\* counted; a non-finite number panics the request's task.
ValidateFails(s) ==
    /\ pc[s] = "check"
    /\ LET e == Head(todo[s]) IN
         \/ e.check = "invalid" /\ NextEvent(s)
         \/ e.check = "panic" /\ EndRequest(s)
    /\ ValidateFirst(s)
    /\ UNCHANGED <<startup, disk, topic, requests, faults, answers, hazards>>

\* The filter may also claim to have seen what it has not.
RejectDuplicate(s) ==
    /\ pc[s] = "check"
    /\ LET e == Head(todo[s]) IN
         /\ e.check = "ok"
         /\ \/ Seen(e.key) /\ NoFault
            \/ ~Seen(e.key) /\ Fault("false_positive")
         /\ current' = Insert(e.key) /\ UNCHANGED previous
         /\ asDup' = asDup \cup {e} /\ UNCHANGED <<acked, refused, abandoned>>
    /\ NextEvent(s)
    /\ UNCHANGED <<startup, disk, topic, requests>>

AcceptNew(s) ==
    /\ pc[s] = "check"
    /\ LET e == Head(todo[s]) IN
         /\ e.check = "ok" /\ ~Seen(e.key)
         /\ current' = Insert(e.key) /\ UNCHANGED previous
    /\ pc' = [pc EXCEPT ![s] = "publish"]
    /\ UNCHANGED <<startup, todo, disk, topic, requests, faults, answers, hazards>>

Publishing(s) == mode = "serve" /\ pc[s] = "publish"

PublishSucceeds(s) ==
    /\ Publishing(s)
    /\ topic' = [topic EXCEPT ![Head(todo[s])] = @ + 1]
    /\ acked' = acked \cup {Head(todo[s])} /\ UNCHANGED <<asDup, refused, abandoned>>
    /\ NextEvent(s)
    /\ UNCHANGED <<startup, dedup, disk, requests, faults, hazards>>

\* QueueFull: nothing is buffered, the client is told to retry.
PublishQueueFull(s) ==
    /\ Publishing(s)
    /\ refused' = refused \cup {Head(todo[s])} /\ UNCHANGED <<acked, asDup, abandoned>>
    /\ EndRequest(s)
    /\ UNCHANGED <<startup, dedup, disk, topic, requests, faults, hazards>>

\* Any other error of the producer: to disk, and accepted.
PublishUnreachable(s) ==
    /\ Publishing(s)
    /\ BufferEvent(Head(todo[s]))
    /\ acked' = acked \cup {Head(todo[s])} /\ UNCHANGED <<asDup, refused, abandoned>>
    /\ NextEvent(s)
    /\ UNCHANGED <<startup, dedup, topic, requests>>

\* The same, when the message did reach the broker and its answer was lost.
PublishTimesOut(s) ==
    /\ Publishing(s) /\ ~Head(todo[s]).huge
    /\ topic' = [topic EXCEPT ![Head(todo[s])] = @ + 1]
    /\ Fault("timeout")
    /\ file' = Append(MakeRoom(file), Head(todo[s]))
    /\ dropped' = dropped \cup (Records(Readable(file)) \ Records(MakeRoom(file)))
    /\ acked' = acked \cup {Head(todo[s])} /\ UNCHANGED <<asDup, refused, abandoned>>
    /\ NextEvent(s)
    /\ UNCHANGED <<startup, dedup, requests>>

\* The client goes away while its event is published: the handler's future is
\* dropped at the await, with the key in the filter.  What the producer has
\* queued is delivered or not, and nobody looks.
Cancel(s) ==
    /\ Publishing(s) /\ Fault("cancel")
    /\ \/ topic' = [topic EXCEPT ![Head(todo[s])] = @ + 1]
       \/ UNCHANGED topic
    /\ abandoned' = abandoned \cup {Head(todo[s])} /\ UNCHANGED <<acked, asDup, refused>>
    /\ EndRequest(s)
    /\ UNCHANGED <<startup, dedup, disk, requests>>

-----------------------------------------------------------------------------
(* Crash, start and replay.                                                *)

\* The process dies, perhaps while it writes a record, and starts again:
\* the filters are empty, and the file, if there is one, is read.  Bytes
\* behind a torn record may make read_all fail; then nothing is replayed.
\* What was read stays in the file until all of it is published.
Restart(h, f) ==
    /\ Fault(h)
    /\ current' = {} /\ previous' = {}
    /\ todo' = [s \in Slots |-> <<>>] /\ pc' = [s \in Slots |-> "idle"]
    /\ file' = f /\ failed' = FALSE
    /\ \/ f # <<>> /\ mode' = "replay" /\ replay' = Readable(f)
       \/ f = <<>> /\ mode' = "serve" /\ replay' = <<>>
       \/ /\ \E i \in 1 .. Len(f) - 1 : f[i] = Torn
          /\ mode' = "serve" /\ replay' = <<>>
    /\ UNCHANGED <<topic, requests, answers, dropped>>

Crash == Restart("crash", file)

CrashInAppend ==
    /\ \E s \in Slots : pc[s] = "publish"
    /\ Restart("torn", Append(MakeRoom(file), Torn))

ReplaySucceeds ==
    /\ mode = "replay" /\ replay # <<>>
    /\ topic' = [topic EXCEPT ![Head(replay)] = @ + 1]
    /\ replay' = Tail(replay)
    /\ UNCHANGED <<mode, failed, todo, pc, dedup, disk, requests, faults, answers, hazards>>

\* A full queue only leaves the event where it is; an unreachable broker
\* ends the replay.
ReplayRefused ==
    /\ mode = "replay" /\ replay # <<>>
    /\ replay' = Tail(replay) /\ failed' = TRUE
    /\ UNCHANGED <<mode, todo, pc, dedup, disk, topic, requests, faults, answers, hazards>>

ReplayAborted ==
    /\ mode = "replay" /\ replay # <<>>
    /\ mode' = "serve" /\ replay' = <<>>
    /\ UNCHANGED <<failed, todo, pc, dedup, disk, topic, requests, faults, answers, hazards>>

\* Mutant: the file goes although some records were refused.
ClearAlways == TRUE

\* The file is removed only when every record was published.
ClearsFile == ~failed

ReplayEnds ==
    /\ mode = "replay" /\ replay = <<>>
    /\ mode' = "serve"
    /\ file' = IF ClearsFile THEN <<>> ELSE file
    /\ UNCHANGED <<replay, failed, todo, pc, dedup, dropped, topic, requests, faults,
                   answers, hazards>>

Step(s) ==
    \/ ValidateFails(s) \/ RejectDuplicate(s) \/ AcceptNew(s)
    \/ PublishSucceeds(s) \/ PublishQueueFull(s) \/ PublishUnreachable(s) \/ PublishTimesOut(s)

Replay == ReplaySucceeds \/ ReplayRefused \/ ReplayAborted \/ ReplayEnds

Next ==
    \/ \E s \in Slots : Ingest(s) \/ Step(s) \/ Cancel(s)
    \/ Rotate \/ Crash \/ CrashInAppend \/ Replay

Spec == Init /\ [][Next]_vars

\* The runtime polls every request's task and, at startup, the replay.
FairSpec == Spec /\ WF_vars(Replay) /\ \A s \in Slots : WF_vars(Step(s))

-----------------------------------------------------------------------------
(* Properties.                                                             *)

\* No silent loss: what the client was told is accepted is in Kafka or in
\* the file, or the log says that it was dropped - through crashes, aborted
\* and partial replays and compaction.  A torn record breaks this: what is
\* behind it cannot be read, and goes with the file.
NoSilentLoss ==
    "torn" \notin hazards =>
        \A e \in acked : topic[e] > 0 \/ e \in Records(file) \/ e \in dropped

\* Events between deduplication and the producer's answer.
InFlight == {e \in Events : \E s \in Slots : pc[s] = "publish" /\ Head(todo[s]) = e}

\* Deduplication: an event is in Kafka twice only if the process restarted,
\* an answer of the broker was lost, or the filter was rotated twice.
PublishedOnce ==
    (hazards \cap {"crash", "torn", "timeout"} = {} /\ (faults < 2 \/ "rotate" \notin hazards))
        => \A e \in Events : topic[e] <= 1

\* An event answered as a duplicate was tried before: an event with its key
\* was accepted, is being published, was refused because the queue was full,
\* or its client went away.  An event sent again with the same id after it
\* was rejected as invalid is new.
DuplicateWasSeen ==
    hazards \cap {"crash", "torn", "false_positive"} = {} =>
        \A e \in asDup : \E d \in acked \cup InFlight \cup refused \cup abandoned : d.key = e.key

\* What the answer "retry later" is worth: until the process restarts or the
\* filter is rotated twice, the retry of an event that was refused, or whose
\* client went away, is answered as a duplicate and not published.
RetriesAreDuplicates ==
    (hazards \cap {"crash", "torn"} = {} /\ (faults < 2 \/ "rotate" \notin hazards))
        => \A e \in refused \cup abandoned : Seen(e.key)

\* A start always ends in serving, whatever the broker does.
StartServes == (mode = "replay") ~> (mode = "serve")

\* Every request is answered.
RequestsEnd == \A s \in Slots : (pc[s] # "idle") ~> (pc[s] = "idle")

\* Whatever the broker and the disk do, a start ends in serving and every
\* request is answered.
ServiceProgresses ==
    /\ StartServes /\ RequestsEnd

\* An event is published once and answered as a duplicate only when it was
\* seen, but for restarts, lost answers and rotated filters; and an event that
\* was seen stays so, published or not.
DeduplicationIsExact ==
    /\ PublishedOnce /\ DuplicateWasSeen /\ RetriesAreDuplicates
=============================================================================
