---------------------------- MODULE ConfigStream ----------------------------
(***************************************************************************)
(* How a change of an experiment reaches the assignment servers (M1): the  *)
(* handlers of M5 commit it and then NOTIFY, a listener goroutine fans the *)
(* notification out to bounded subscriber buffers, StreamConfigUpdates     *)
(* sends a snapshot and then deltas built from the database, and M1's      *)
(* stream client applies them to its config cache.  The handlers appear    *)
(* here only as the state changes they commit (see ExperimentLifecycle).   *)
(* Update versions are left out: the server ignores last_known_version and *)
(* the cache applies every update whatever its version.                    *)
(***************************************************************************)
EXTENDS Integers, Sequences

CONSTANTS
    Exps,           \* experiment ids
    Clients,        \* M1 processes
    BufferSize,     \* subscriberBuffer
    Window,         \* updates in flight before stream.Send blocks
    MaxPending,     \* bound: handlers between COMMIT and Publish, per notice
    MaxChannel,     \* bound: notifications queued for the listener
    MaxPauses,      \* bound: pause and resume calls
    InitialBackoff, \* INITIAL_BACKOFF
    MaxBackoff,     \* MAX_BACKOFF
    Failures,       \* which failures happen: a subset of FailureKinds
    MaxFaults,      \* bound: how many of them
    None            \* no experiment

\* "publish": NOTIFY is not sent (cancelled client, database error, or the
\* replica that ran the handler dies); "listener": the LISTEN connection
\* breaks; "read": buildUpdate cannot read the experiment; "stream": the
\* connection to M1 breaks or is not made; "m1", "m5": the process restarts.
FailureKinds == {"publish", "listener", "read", "stream", "m1", "m5"}

ASSUME StreamAssumption ==
    /\ BufferSize \in Nat \ {0} /\ Window \in Nat \ {0}
    /\ MaxPending \in Nat \ {0} /\ MaxChannel \in Nat \ {0}
    /\ MaxPauses \in Nat /\ MaxFaults \in Nat
    /\ InitialBackoff \in Nat \ {0} /\ MaxBackoff \in Nat
    /\ InitialBackoff <= MaxBackoff
    /\ Failures \subseteq FailureKinds
    /\ None \notin Exps

VARIABLES
    db,         \* experiments.state
    paused,     \* the experiment's newest pause or resume audit row is a pause
    pauses,     \* pause and resume calls so far
    pending,    \* handlers that committed and have not called Publish
    listening,  \* the listener holds a connection with LISTEN
    channel,    \* notifications PostgreSQL holds for the listener
    phase,      \* where StreamConfigUpdates is, for each M1
    buf,        \* the subscriber's channel
    snap,       \* experiments of the snapshot still to be sent
    wire,       \* updates sent and not yet received
    cache,      \* ConfigCache.experiments
    backoff,    \* delay before the next connection attempt
    lost,       \* history: notices dropped on the way to this M1 since its
                \* last snapshot was read
    faults      \* failures so far

server  == <<phase, buf, snap, wire>>
handler == <<db, paused, pauses>>
vars    == <<handler, pending, listening, channel, server, cache, backoff,
             lost, faults>>

States  == {"DRAFT", "RUNNING", "CONCLUDING", "CONCLUDED", "ARCHIVED"}
Phases  == {"down", "subscribed", "snapshot", "live"}
Ops     == {"upsert", "delete"}
Notices == Exps \X Ops

\* A ConfigUpdate; a deletion names no experiment.
Upsert(e) == [exp |-> e, deletion |-> FALSE]
Deletion  == [exp |-> None, deletion |-> TRUE]
Updates   == {Deletion} \cup {Upsert(e) : e \in Exps}

\* What the tables, queues and caches may hold; no queue outgrows its bound.
TypeOK ==
    /\ db \in [Exps -> States]
    /\ paused \in [Exps -> BOOLEAN]
    /\ pauses \in 0 .. MaxPauses
    /\ pending \in [Notices -> 0 .. MaxPending]
    /\ listening \in BOOLEAN
    /\ channel \in Seq(Notices)
    /\ phase \in [Clients -> Phases]
    /\ buf \in [Clients -> Seq(Notices)]
    /\ \A c \in Clients : Len(buf[c]) <= BufferSize
    /\ snap \in [Clients -> SUBSET Exps]
    /\ wire \in [Clients -> Seq(Updates)]
    /\ cache \in [Clients -> SUBSET Exps]
    /\ backoff \in [Clients -> InitialBackoff .. MaxBackoff]
    /\ lost \in [Clients -> SUBSET Notices]
    /\ faults \in 0 .. MaxFaults

Init ==
    /\ db = [e \in Exps |-> "DRAFT"]
    /\ paused = [e \in Exps |-> FALSE]
    /\ pauses = 0
    /\ pending = [n \in Notices |-> 0]
    /\ listening = FALSE
    /\ channel = <<>>
    /\ phase = [c \in Clients |-> "down"]
    /\ buf = [c \in Clients |-> <<>>]
    /\ snap = [c \in Clients |-> {}]
    /\ wire = [c \in Clients |-> <<>>]
    /\ cache = [c \in Clients |-> {}]
    /\ backoff = [c \in Clients |-> InitialBackoff]
    /\ lost = [c \in Clients |-> {}]
    /\ faults = 0

-----------------------------------------------------------------------------
(* The handlers: a committed change, then Publish                          *)

Commits(e, op) ==
    /\ pending[<<e, op>>] < MaxPending
    /\ pending' = [pending EXCEPT ![<<e, op>>] = @ + 1]
    /\ UNCHANGED <<listening, channel, server, cache, backoff, lost, faults>>

StartExperiment(e) ==
    /\ db[e] = "DRAFT"
    /\ db' = [db EXCEPT ![e] = "RUNNING"]
    /\ Commits(e, "upsert")
    /\ UNCHANGED <<paused, pauses>>

\* PauseExperiment, ResumeExperiment and the guardrail processor's auto-pause:
\* an audit row and a notification; the state stays RUNNING.
PauseOrResume(e, p) ==
    /\ db[e] = "RUNNING"
    /\ pauses < MaxPauses
    /\ paused' = [paused EXCEPT ![e] = p]
    /\ pauses' = pauses + 1
    /\ Commits(e, "upsert")
    /\ UNCHANGED db

\* concludeByID's first transaction tells nobody.
BeginConclude(e) ==
    /\ db[e] = "RUNNING"
    /\ db' = [db EXCEPT ![e] = "CONCLUDING"]
    /\ UNCHANGED <<paused, pauses, pending, listening, channel, server, cache,
                   backoff, lost, faults>>

\* Its second transaction, and ArchiveExperiment.
EndExperiment(e, from, to) ==
    /\ db[e] = from
    /\ db' = [db EXCEPT ![e] = to]
    /\ Commits(e, "delete")
    /\ UNCHANGED <<paused, pauses>>

\* Failures are counted, so that they stop.
Fault(kind) ==
    /\ kind \in Failures /\ faults < MaxFaults
    /\ faults' = faults + 1

Sends(e, op) ==
    /\ pending[<<e, op>>] > 0
    /\ pending' = [pending EXCEPT ![<<e, op>>] = @ - 1]
    /\ UNCHANGED <<handler, listening, server, cache, backoff>>

\* The clients of C will not hear of these notices.
Loses(C, notices) ==
    lost' = [c \in Clients |-> IF c \in C THEN lost[c] \cup notices ELSE lost[c]]

\* pg_notify reaches the listener, or nobody when none is connected.
Publish(e, op) ==
    /\ Sends(e, op)
    /\ \/ /\ listening /\ Len(channel) < MaxChannel
          /\ channel' = Append(channel, <<e, op>>)
          /\ UNCHANGED lost
       \/ /\ ~listening
          /\ Loses(Clients, {<<e, op>>})
          /\ UNCHANGED channel
    /\ UNCHANGED faults

\* Publish logs the error and the handler goes on.
PublishFails(e, op) ==
    /\ Fault("publish")
    /\ Sends(e, op)
    /\ Loses(Clients, {<<e, op>>})
    /\ UNCHANGED channel

-----------------------------------------------------------------------------
(* The notifier                                                            *)

Elements(q) == {q[i] : i \in DOMAIN q}

\* listenLoop connects, at the start and two seconds after an error; nothing
\* that was sent in between is ever delivered.
ListenerConnects ==
    /\ ~listening
    /\ listening' = TRUE
    /\ UNCHANGED <<handler, pending, channel, server, cache, backoff, lost, faults>>

ListenerFails ==
    /\ Fault("listener")
    /\ listening
    /\ listening' = FALSE
    /\ channel' = <<>>
    /\ Loses(Clients, Elements(channel))
    /\ UNCHANGED <<handler, pending, server, cache, backoff>>

\* Mutant: the handler subscribes once it has sent the snapshot.
SubscribedAfterSnapshot == {c \in Clients : phase[c] = "live"}

\* Notifier.subscribers: from Subscribe to the end of the handler.
subscribers == {c \in Clients : phase[c] # "down"}

Full == {c \in Clients : Len(buf[c]) >= BufferSize}

\* WaitForNotification returns, and fanOut offers the notification to every
\* subscriber without blocking: a full one loses it.
fanOut ==
    /\ channel # <<>>
    /\ channel' = Tail(channel)
    /\ buf' = [c \in Clients |-> IF c \in subscribers \ Full
                                 THEN Append(buf[c], Head(channel)) ELSE buf[c]]
    /\ Loses(Full, {Head(channel)})
    /\ UNCHANGED <<handler, pending, listening, phase, snap, wire, cache,
                   backoff, faults>>

-----------------------------------------------------------------------------
(* StreamConfigUpdates, one handler per connected M1                       *)

\* Mutant: run returns on the first stream error.
SubscribeOnce(c) ==
    /\ phase[c] = "down" /\ backoff[c] = InitialBackoff
    /\ phase' = [phase EXCEPT ![c] = "subscribed"]
    /\ UNCHANGED <<handler, pending, listening, channel, buf, snap, wire, cache,
                   backoff, lost, faults>>

\* M1 connects after its backoff; the handler subscribes before it reads.
Subscribe(c) ==
    /\ phase[c] = "down"
    /\ phase' = [phase EXCEPT ![c] = "subscribed"]
    /\ UNCHANGED <<handler, pending, listening, channel, buf, snap, wire, cache,
                   backoff, lost, faults>>

\* The snapshot query; what it returns makes up for every earlier loss.
ListRunning(c) ==
    /\ phase[c] = "subscribed"
    /\ phase' = [phase EXCEPT ![c] = "snapshot"]
    /\ snap' = [snap EXCEPT ![c] = {e \in Exps : db[e] = "RUNNING"}]
    /\ lost' = [lost EXCEPT ![c] = {}]
    /\ UNCHANGED <<handler, pending, listening, channel, buf, wire, cache,
                   backoff, faults>>

\* stream.Send blocks while the window is full.
Send(c, update) ==
    /\ Len(wire[c]) < Window
    /\ wire' = [wire EXCEPT ![c] = Append(@, update)]

\* The rows of the snapshot, one by one (their order does not matter here).
SendSnapshot(c) ==
    /\ phase[c] = "snapshot"
    /\ \/ \E e \in snap[c] :
            /\ Send(c, Upsert(e))
            /\ snap' = [snap EXCEPT ![c] = @ \ {e}]
            /\ UNCHANGED phase
       \/ /\ snap[c] = {}
          /\ phase' = [phase EXCEPT ![c] = "live"]
          /\ UNCHANGED <<snap, wire>>
    /\ UNCHANGED <<handler, pending, listening, channel, buf, cache, backoff,
                   lost, faults>>

\* The next notification of the subscriber's channel.
NextDelta(c) ==
    /\ phase[c] = "live" /\ buf[c] # <<>>
    /\ buf' = [buf EXCEPT ![c] = Tail(@)]
    /\ UNCHANGED <<handler, pending, listening, channel, phase, snap, cache,
                   backoff>>

\* buildUpdate re-reads the experiment: an upsert of one that has ended by now
\* becomes a deletion.
buildUpdate(notice) ==
    IF notice[2] = "upsert" /\ db[notice[1]] = "RUNNING" THEN Upsert(notice[1])
                                                         ELSE Deletion

SendDelta(c) ==
    /\ NextDelta(c)
    /\ Send(c, buildUpdate(Head(buf[c])))
    /\ UNCHANGED <<lost, faults>>

\* buildUpdate answers any read error with a deletion.
SendDeltaReadFails(c) ==
    /\ Fault("read")
    /\ NextDelta(c)
    /\ Send(c, Deletion)
    /\ Loses({c}, {Head(buf[c])})

-----------------------------------------------------------------------------
(* M1's stream client and config cache                                     *)

\* apply_update; experiments.remove of a deletion's empty id removes nothing.
apply_update(c, update) ==
    IF update.deletion THEN cache[c] \ {update.exp}
                       ELSE cache[c] \cup {update.exp}

Receive(c) ==
    /\ wire[c] # <<>>
    /\ wire' = [wire EXCEPT ![c] = Tail(@)]
    /\ cache' = [cache EXCEPT ![c] = apply_update(c, Head(wire[c]))]
    /\ UNCHANGED <<handler, pending, listening, channel, phase, buf, snap,
                   backoff, lost, faults>>

\* The streams to the clients of C end: unsubscribe drops the buffer, and what
\* is in flight is lost.
StreamsEnd(C) ==
    /\ phase' = [c \in Clients |-> IF c \in C THEN "down" ELSE phase[c]]
    /\ buf' = [c \in Clients |-> IF c \in C THEN <<>> ELSE buf[c]]
    /\ snap' = [c \in Clients |-> IF c \in C THEN {} ELSE snap[c]]
    /\ wire' = [c \in Clients |-> IF c \in C THEN <<>> ELSE wire[c]]

\* run() doubles its backoff after every broken stream and every connection
\* attempt that fails.
NextBackoff(b) == IF 2 * b < MaxBackoff THEN 2 * b ELSE MaxBackoff

StreamFails(c) ==
    /\ Fault("stream")
    /\ StreamsEnd({c})
    /\ backoff' = [backoff EXCEPT ![c] = NextBackoff(@)]
    /\ UNCHANGED <<handler, pending, listening, channel, cache, lost>>

\* M1 starts again with the experiments of its config file, here none.
RestartM1(c) ==
    /\ Fault("m1")
    /\ StreamsEnd({c})
    /\ cache' = [cache EXCEPT ![c] = {}]
    /\ backoff' = [backoff EXCEPT ![c] = InitialBackoff]
    /\ UNCHANGED <<handler, pending, listening, channel, lost>>

\* M5 starts again: handlers that had not published never will.
RestartM5 ==
    /\ Fault("m5")
    /\ pending' = [n \in Notices |-> 0]
    /\ listening' = FALSE
    /\ channel' = <<>>
    /\ StreamsEnd(Clients)
    /\ backoff' = [c \in Clients |-> IF phase[c] = "down" THEN backoff[c]
                                     ELSE NextBackoff(backoff[c])]
    /\ UNCHANGED <<handler, cache, lost>>

-----------------------------------------------------------------------------
\* Every change has been delivered and no client calls; an M1 may be waiting
\* for its backoff.
Quiescent ==
    /\ pending = [n \in Notices |-> 0] /\ channel = <<>>
    /\ \A c \in Clients :
         phase[c] \in {"live", "down"} /\ buf[c] = <<>> /\ wire[c] = <<>>
    /\ UNCHANGED vars

Call ==
    \E e \in Exps :
       \/ StartExperiment(e)
       \/ \E p \in BOOLEAN : PauseOrResume(e, p)
       \/ BeginConclude(e)
       \/ EndExperiment(e, "CONCLUDING", "CONCLUDED")
       \/ EndExperiment(e, "CONCLUDED", "ARCHIVED")

\* What the servers do by themselves.
Deliver(c) ==
    \/ Subscribe(c)
    \/ ListRunning(c)
    \/ SendSnapshot(c)
    \/ SendDelta(c)
    \/ Receive(c)

Fails ==
    \/ \E e \in Exps, op \in Ops : PublishFails(e, op)
    \/ ListenerFails
    \/ \E c \in Clients :
         SendDeltaReadFails(c) \/ StreamFails(c) \/ RestartM1(c)
    \/ RestartM5

Next ==
    \/ Call
    \/ \E e \in Exps, op \in Ops : Publish(e, op)
    \/ ListenerConnects
    \/ fanOut
    \/ \E c \in Clients : Deliver(c)
    \/ Fails
    \/ Quiescent

Spec == Init /\ [][Next]_vars

\* Goroutines and tasks that can run do, and clients reconnect.  Publish is
\* strongly fair because only MaxChannel, which PostgreSQL does not have,
\* disables it.  Nothing makes callers or failures fair.
FairSpec ==
    /\ Spec
    /\ \A e \in Exps, op \in Ops : SF_vars(Publish(e, op))
    /\ WF_vars(ListenerConnects)
    /\ WF_vars(fanOut)
    /\ \A c \in Clients :
         /\ WF_vars(Subscribe(c)) /\ WF_vars(ListRunning(c))
         /\ WF_vars(SendSnapshot(c)) /\ WF_vars(SendDelta(c))
         /\ WF_vars(Receive(c))

-----------------------------------------------------------------------------
(* Properties                                                              *)

\* A change of e is still on its way to c.
InFlight(c, e) ==
    \/ pending[<<e, "upsert">>] > 0
    \/ <<e, "upsert">> \in Elements(channel)
    \/ <<e, "upsert">> \in Elements(buf[c])
    \/ e \in snap[c]
    \/ Upsert(e) \in Elements(wire[c])

\* StreamConfigUpdates subscribes before it reads the snapshot: whatever the
\* interleaving of commits, notifications, snapshot and deltas, a connected M1
\* has every running experiment or it is on the way, unless a notification of
\* it was dropped since the snapshot was read.
NothingMissed ==
    \A c \in Clients, e \in Exps :
       (phase[c] \in {"snapshot", "live"} /\ db[e] = "RUNNING") =>
          e \in cache[c] \/ InFlight(c, e) \/ <<e, "upsert">> \in lost[c]

\* An experiment that starts is served by every M1, although streams break and
\* M1 and M5 restart, unless a notification of it was dropped while M1 was
\* connected.
RunningReachesM1 ==
    \A c \in Clients, e \in Exps :
       db[e] = "RUNNING" ~> (\/ e \in cache[c] \/ db[e] # "RUNNING"
                             \/ <<e, "upsert">> \in lost[c])
=============================================================================
