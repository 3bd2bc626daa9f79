----------------------------- MODULE PolicyCore -----------------------------
(***************************************************************************)
(* M4b, the bandit policy service: one thread owns every policy (LMAX) and *)
(* takes arm selections, rewards and management commands from three        *)
(* bounded channels; a Kafka consumer feeds the reward channel and commits *)
(* its group's offset; RocksDB keeps snapshots of the policies.            *)
(*                                                                         *)
(* A posterior is the sequence of the offsets of the rewards it was        *)
(* updated with.  A message of the reward topic is abstracted to what the  *)
(* code does with it: "good" updates its policy, "bad" makes policy.update *)
(* panic on the core's thread (unknown arm, reward outside [0, 1], missing *)
(* context), "nan" makes the consumer's task panic, "junk" does not decode.*)
(* One partition.  A panic ends its thread or task, not the process.       *)
(***************************************************************************)
EXTENDS Integers, Sequences, FiniteSets

CONSTANTS
    LinUcb,            \* ids a cold-start bandit may have (LinUCB policies)
    Thompson,          \* ids a META variant may have (Thompson policies)
    TopicLen,          \* bound: messages in the reward topic
    Kinds,             \* which kinds of message the topic may hold
    RewardDepth,       \* REWARD_CHANNEL_DEPTH
    SnapshotInterval,  \* SNAPSHOT_INTERVAL
    MaxSnapshots,      \* MAX_SNAPSHOTS_PER_EXPERIMENT
    CommitBatch,       \* KAFKA_COMMIT_BATCH_SIZE
    MaxClock,          \* bound: milliseconds that pass
    MaxFaults,         \* bound: crashes and failing commits or RocksDB calls
    None

Exps     == LinUcb \cup Thompson
Offsets  == 1 .. TopicLen
Messages == [kind : Kinds \cap {"good", "bad"}, exp : Exps]
              \cup [kind : Kinds \cap {"nan", "junk"}, exp : {None}]

ASSUME PolicyAssumption ==
    /\ LinUcb \cap Thompson = {} /\ None \notin Exps \cup Offsets
    /\ TopicLen \in Nat /\ Kinds \subseteq {"good", "bad", "nan", "junk"}
    /\ RewardDepth \in Nat \ {0} /\ SnapshotInterval \in Nat \ {0}
    /\ MaxSnapshots \in Nat \ {0} /\ CommitBatch \in Nat \ {0}
    /\ MaxClock \in Nat /\ MaxFaults \in Nat

\* What the gRPC handlers send to the core: SelectArm with or without
\* context features, which Thompson sampling ignores, and the management
\* commands.  RegisterMetaExperiment has no gRPC handler yet.
SelectArmRequests ==
    [op : {"select"}, exp : LinUcb, ctx : BOOLEAN]
      \cup [op : {"select"}, exp : Thompson, ctx : {FALSE}]
CreateColdStartRequests == [op : {"coldstart"}, exp : LinUcb]
RegisterMetaRequests == [op : {"meta"}, exp : Thompson]
ExportAffinityRequests == [op : {"export"}, exp : Exps]
GetSnapshotRequests == [op : {"snapshot"}, exp : Exps]
RollbackPolicyRequests == [op : {"rollback"}, exp : Exps]

Commands ==
    SelectArmRequests \cup CreateColdStartRequests \cup RegisterMetaRequests
      \cup ExportAffinityRequests \cup GetSnapshotRequests \cup RollbackPolicyRequests

Answers ==
    [op : {"answered"}, as : {"ok", "not_found", "wrong_type", "unavailable", "dropped"}]

Answered(r) == [op |-> "answered", as |-> r]

VARIABLES
    topic,      \* the reward topic, one message per offset
    committed,  \* the group's offset at the broker: the next to be consumed
    position,   \* the next offset recv() returns
    uncommitted,\* messages_since_commit
    consumer,   \* the consumer's task: "run", or "dead" after panic or break
    inHand,     \* the offset it waits to send, or None
    rewards,    \* the reward channel: offsets
    core,       \* the core's thread: "run" or "dead"
    policies,   \* PolicyCore.policies: None or the posterior
    composers,  \* ids with a RewardComposer
    configs,    \* ids with a cold-start config
    since,      \* rewards_since_snapshot
    lastOffset, \* last_kafka_offset, None where the map has no entry
    call,       \* the request in the policy or the management channel, or
                \* how the last one was answered
    snaps,      \* RocksDB: a set of envelopes, one per key (id, ms)
    clock,      \* Utc::now() in milliseconds
    faults,     \* crashes and failures so far
    sent,       \* history: offsets that went into the reward channel
    dropped,    \* history: offsets it held when the channel was closed
    written     \* history: the envelope each id wrote last

vars == <<topic, committed, position, uncommitted, consumer, inHand, rewards,
          core, policies, composers, configs, since, lastOffset, call, snaps,
          clock, faults, sent, dropped, written>>

kafka    == <<topic, committed>>
task     == <<position, uncommitted, consumer, inHand, sent, dropped>>
learning == <<policies, since, lastOffset>>
setup    == <<composers, configs>>
store    == <<snaps, written, clock>>

Envelope == [exp : Exps, at : 0 .. MaxClock, applied : Seq(Offsets),
             offset : Offsets \cup {None}, composer : BOOLEAN]

\* None is neither an envelope nor a posterior.
ASSUME NoneAssumption == None \notin Envelope /\ None \notin Seq(Offsets)

\* What the service, its channels and its stores hold.
TypeOK ==
    /\ topic \in [Offsets -> Messages]
    /\ committed \in 1 .. TopicLen + 1 /\ position \in 1 .. TopicLen + 1
    /\ uncommitted \in Nat /\ consumer \in {"run", "dead"}
    /\ inHand \in Offsets \cup {None} /\ rewards \in Seq(Offsets)
    /\ core \in {"run", "dead"}
    /\ policies \in [Exps -> Seq(Offsets) \cup {None}]
    /\ composers \subseteq Exps /\ configs \subseteq LinUcb
    /\ since \in [Exps -> Nat] /\ lastOffset \in [Exps -> Offsets \cup {None}]
    /\ call \in Commands \cup Answers
    /\ snaps \subseteq Envelope /\ clock \in 0 .. MaxClock /\ faults \in 0 .. MaxFaults
    /\ sent \subseteq Offsets /\ dropped \subseteq Offsets /\ written \in [Exps -> Envelope \cup {None}]

Init ==
    /\ topic \in [Offsets -> Messages]
    /\ committed = 1 /\ position = 1 /\ uncommitted = 0
    /\ consumer = "run" /\ inHand = None /\ rewards = <<>> /\ core = "run"
    /\ policies = [e \in Exps |-> None] /\ composers = {} /\ configs = {}
    /\ since = [e \in Exps |-> 0] /\ lastOffset = [e \in Exps |-> None]
    /\ call = Answered("ok")
    /\ snaps = {} /\ clock = 0 /\ faults = 0
    /\ sent = {} /\ dropped = {} /\ written = [e \in Exps |-> None]

Fault == faults < MaxFaults /\ faults' = faults + 1

-----------------------------------------------------------------------------
(* The snapshot store.                                                     *)

\* put: the key is (experiment, millisecond), so an equal key is replaced.
WriteSnapshot(store0, env) ==
    {s \in store0 : <<s.exp, s.at>> # <<env.exp, env.at>>} \cup {env}

\* make_envelope_with_composer: the state and the bookmark of one moment.
MakeEnvelope(e, applied, o) ==
    [exp |-> e, at |-> clock, applied |-> applied, offset |-> o,
     composer |-> e \in composers]

\* Mutant: the oldest are kept.
PruneNewest(store0, e, keep) ==
    {s \in store0 : s.exp = e =>
        Cardinality({t \in store0 : t.exp = e /\ t.at < s.at}) < keep}

\* prune_old_snapshots keeps the `keep` greatest keys of the experiment.
PruneOldSnapshots(store0, e, keep) ==
    {s \in store0 : s.exp = e =>
        Cardinality({t \in store0 : t.exp = e /\ t.at > s.at}) < keep}

\* load_latest: the reverse scan stops at the greatest key of the prefix;
\* load_all_latest keeps, per experiment, the last value of a forward scan.
LoadLatest(store0, e) ==
    IF \E s \in store0 : s.exp = e
    THEN CHOOSE s \in store0 : s.exp = e /\ \A t \in store0 : t.exp = e => t.at <= s.at
    ELSE None

-----------------------------------------------------------------------------
(* The Kafka consumer's loop.                                              *)

\* Mutant: offsets are committed while a reward waits for the channel.
AtLoopHeadOrSending == consumer = "run"

\* The loop's head, where no message is in the task's hand.
AtLoopHead == consumer = "run" /\ inHand = None

\* What the loop counts as consumed without looking into it.
Skips(k) == k = "junk"

\* Mutant: the last place of the channel is never used.
HasRoomOffByOne == Len(rewards) < RewardDepth - 1

\* The reward channel's bound.
HasRoom == Len(rewards) < RewardDepth

Enqueue(o) == Append(rewards, o)

\* should_commit: the batch is full, or the interval has elapsed, which it
\* may have at any time.  An asynchronous commit that fails is only logged.
CommitOffsets ==
    /\ AtLoopHead /\ uncommitted > 0
    /\ uncommitted' = 0
    /\ \/ committed' = position /\ UNCHANGED faults
       \/ Fault /\ UNCHANGED committed
    /\ UNCHANGED <<topic, position, consumer, inHand, sent, dropped, rewards,
                   core, learning, setup, call, store>>

\* recv(): what does not decode is skipped and counted; NaN or infinity
\* panics the task; anything else waits for room in the reward channel.
Receive ==
    /\ AtLoopHead /\ uncommitted < CommitBatch
    /\ position <= TopicLen
    /\ position' = position + 1
    /\ LET k == topic[position].kind IN
         \/ /\ Skips(k)
            /\ uncommitted' = uncommitted + 1 /\ UNCHANGED <<consumer, inHand>>
         \/ /\ k = "nan"
            /\ consumer' = "dead" /\ UNCHANGED <<uncommitted, inHand>>
         \/ /\ k \in {"good", "bad"}
            /\ inHand' = position /\ UNCHANGED <<uncommitted, consumer>>
    /\ UNCHANGED <<kafka, sent, dropped, rewards, core, learning, setup, call,
                   store, faults>>

\* reward_tx.send(): waits while the channel is full.
SendReward ==
    /\ consumer = "run" /\ inHand # None
    /\ core = "run" /\ HasRoom
    /\ rewards' = Enqueue(inHand) /\ sent' = sent \cup {inHand}
    /\ inHand' = None /\ uncommitted' = uncommitted + 1
    /\ UNCHANGED <<kafka, position, consumer, dropped, core, learning, setup,
                   call, store, faults>>

\* The core is gone: the loop ends with a last commit, made only if earlier
\* messages were uncommitted; it covers the message that was not sent.
SendFails ==
    /\ consumer = "run" /\ inHand # None /\ core = "dead"
    /\ consumer' = "dead" /\ inHand' = None /\ uncommitted' = 0
    /\ dropped' = dropped \cup {inHand}
    /\ committed' = IF uncommitted > 0 THEN position ELSE committed
    /\ UNCHANGED <<topic, position, sent, rewards, core, learning, setup,
                   call, store, faults>>

-----------------------------------------------------------------------------
(* The core's event loop.                                                  *)

\* Mutant: the snapshot is one reward late.
SnapshotDueLate(n) == n > SnapshotInterval

\* Every N-th reward of an experiment is followed by a snapshot.
SnapshotDue(n) == n >= SnapshotInterval

\* write_snapshot: write, then prune; an error of RocksDB is only logged.
TakeSnapshot(env) ==
    \/ /\ snaps' = PruneOldSnapshots(WriteSnapshot(snaps, env), env.exp, MaxSnapshots)
       /\ written' = [written EXCEPT ![env.exp] = env]
       /\ UNCHANGED faults
    \/ Fault /\ UNCHANGED <<snaps, written>>

\* Mutant: nobody drops the reply channel.
KeepReplyChannel == call

\* The reply channel of a request the core still holds is dropped with it.
DropReplyChannel == IF call \in Commands THEN Answered("dropped") ELSE call

\* A panic drops the receivers: queued rewards are gone, and the request
\* whose reply channel is dropped is answered with an internal error.
Panic ==
    /\ core' = "dead" /\ rewards' = <<>>
    /\ call' = DropReplyChannel

\* handle_reward_update: a reward of an unknown experiment is dropped; the
\* bookmark and the counter move before the snapshot of every N-th reward.
\* The counter is reset whether or not RocksDB takes the snapshot.
HandleRewardUpdate ==
    /\ core = "run" /\ rewards # <<>>
    /\ LET o == Head(rewards)
           e == topic[o].exp IN
         \/ /\ policies[e] = None
            /\ rewards' = Tail(rewards)
            /\ UNCHANGED <<core, learning, call, store, faults>>
         \/ /\ policies[e] # None /\ topic[o].kind = "bad"
            /\ Panic /\ UNCHANGED <<learning, store, faults>>
         \/ /\ policies[e] # None /\ topic[o].kind = "good"
            /\ rewards' = Tail(rewards)
            /\ policies' = [policies EXCEPT ![e] = Append(@, o)]
            /\ lastOffset' = [lastOffset EXCEPT ![e] = o]
            /\ UNCHANGED <<core, call, clock>>
            /\ \/ /\ ~SnapshotDue(since[e] + 1)
                  /\ since' = [since EXCEPT ![e] = @ + 1]
                  /\ UNCHANGED <<snaps, written, faults>>
               \/ /\ SnapshotDue(since[e] + 1)
                  /\ since' = [since EXCEPT ![e] = 0]
                  /\ TakeSnapshot(MakeEnvelope(e, Append(policies[e], o), o))
    /\ UNCHANGED <<kafka, task, setup>>

\* A gRPC handler puts its request into a channel and waits for the reply;
\* with the core gone the send fails and the client gets UNAVAILABLE.
Request(c) ==
    /\ call \notin Commands
    /\ \/ core = "run" /\ call' = c
       \/ core = "dead" /\ call' = Answered("unavailable")
    /\ UNCHANGED <<kafka, task, rewards, core, learning, setup, store, faults>>

Asked(op) == core = "run" /\ call.op = op

Answer(r) == call' = Answered(r)

\* handle_select_arm: LinUCB expects context features and panics without.
HandleSelectArm ==
    /\ Asked("select")
    /\ \/ /\ policies[call.exp] = None
          /\ Answer("not_found") /\ UNCHANGED <<core, rewards>>
       \/ /\ policies[call.exp] # None /\ call.exp \in LinUcb /\ ~call.ctx
          /\ Panic
       \/ /\ policies[call.exp] # None /\ (call.exp \in Thompson \/ call.ctx)
          /\ Answer("ok") /\ UNCHANGED <<core, rewards>>
    /\ UNCHANGED <<kafka, task, learning, setup, store, faults>>

\* handle_create_cold_start: an existing policy is kept, the config replaced.
HandleCreateColdStart ==
    /\ Asked("coldstart")
    /\ policies' = [policies EXCEPT ![call.exp] = IF @ = None THEN <<>> ELSE @]
    /\ configs' = configs \cup {call.exp}
    /\ Answer("ok")
    /\ UNCHANGED <<kafka, task, rewards, core, since, lastOffset, composers,
                   store, faults>>

\* handle_register_meta_experiment: the same, with the variant's composer.
HandleRegisterMetaExperiment ==
    /\ Asked("meta")
    /\ policies' = [policies EXCEPT ![call.exp] = IF @ = None THEN <<>> ELSE @]
    /\ composers' = composers \cup {call.exp}
    /\ Answer("ok")
    /\ UNCHANGED <<kafka, task, rewards, core, since, lastOffset, configs,
                   store, faults>>

\* handle_export_affinity reads the policy, which has to be LinUCB.
HandleExportAffinity ==
    /\ Asked("export")
    /\ Answer(IF policies[call.exp] = None THEN "not_found"
              ELSE IF call.exp \in LinUcb THEN "ok" ELSE "wrong_type")
    /\ UNCHANGED <<kafka, task, rewards, core, learning, setup, store, faults>>

\* handle_get_snapshot returns the latest envelope.
HandleGetSnapshot ==
    /\ Asked("snapshot")
    /\ Answer(IF LoadLatest(snaps, call.exp) = None THEN "not_found" ELSE "ok")
    /\ UNCHANGED <<kafka, task, rewards, core, learning, setup, store, faults>>

\* handle_rollback_policy installs the latest snapshot whatever timestamp
\* was asked for; counter, bookmark and composer stay.
HandleRollbackPolicy ==
    /\ Asked("rollback")
    /\ LET env == LoadLatest(snaps, call.exp) IN
         \/ env = None /\ Answer("not_found") /\ UNCHANGED policies
         \/ /\ env # None /\ Answer("ok")
            /\ policies' = [policies EXCEPT ![call.exp] = env.applied]
    /\ UNCHANGED <<kafka, task, rewards, core, since, lastOffset, setup, store,
                   faults>>

-----------------------------------------------------------------------------
(* The process.                                                            *)

\* Kill and start again: everything in memory is gone, the core restores
\* the latest snapshots, the consumer starts at the group's offset.
ResumeAt == committed

Reboot ==
    /\ Fault
    /\ consumer' = "run" /\ inHand' = None /\ position' = ResumeAt
    /\ uncommitted' = 0 /\ rewards' = <<>> /\ core' = "run"
    /\ configs' = {} /\ since' = [e \in Exps |-> 0]
    /\ call' = IF call \in Commands THEN Answered("unavailable") ELSE call
    /\ UNCHANGED <<kafka, sent, dropped, store>>

Restart ==
    /\ Reboot
    /\ LET env == [e \in Exps |-> LoadLatest(snaps, e)] IN
         /\ policies' = [e \in Exps |-> IF env[e] = None THEN None ELSE env[e].applied]
         /\ lastOffset' = [e \in Exps |-> IF env[e] = None THEN None ELSE env[e].offset]
         /\ composers' = {e \in Exps : env[e] # None /\ env[e].composer}

\* RocksDB opens but cannot be read: the error is logged and the service
\* starts without any policy.
RestartUnreadable ==
    /\ Reboot
    /\ policies' = [e \in Exps |-> None] /\ composers' = {}
    /\ lastOffset' = [e \in Exps |-> None]

\* Time passes.  The clock does not step back.
Tick ==
    /\ clock < MaxClock /\ clock' = clock + 1
    /\ UNCHANGED <<kafka, task, rewards, core, learning, setup, call,
                   snaps, written, faults>>

Consume == CommitOffsets \/ Receive \/ SendReward \/ SendFails

Serve ==
    \/ HandleSelectArm \/ HandleCreateColdStart \/ HandleRegisterMetaExperiment
    \/ HandleExportAffinity \/ HandleGetSnapshot \/ HandleRollbackPolicy

Next ==
    \/ Consume \/ HandleRewardUpdate \/ Serve \/ Restart \/ RestartUnreadable \/ Tick
    \/ \E c \in Commands : Request(c)

Spec == Init /\ [][Next]_vars

\* The consumer's task and the core's thread are scheduled; tokio::select!
\* polls its branches in random order, so neither channel starves the other.
FairSpec ==
    /\ Spec
    /\ WF_vars(CommitOffsets \/ Receive \/ SendFails) /\ WF_vars(SendReward)
    /\ WF_vars(HandleRewardUpdate) /\ WF_vars(Serve)

-----------------------------------------------------------------------------
(* Properties.                                                             *)

\* The bookmark of a snapshot is the last reward in its posterior, so a
\* replay from the bookmark would neither miss nor repeat one: rollbacks,
\* restarts and several experiments sharing the topic do not separate them.
SnapshotBookmark ==
    \A s \in snaps : s.applied # <<>> /\ s.offset = s.applied[Len(s.applied)]

\* What load_latest returns is what the core wrote last, though two
\* snapshots may fall into one millisecond and old ones are pruned.
LatestIsLastWritten ==
    \A e \in Exps : LoadLatest(snaps, e) = written[e]

\* Offsets are committed only for rewards that entered the core's channel;
\* the one exception is the reward the consumer held when it found the core
\* dead, which its last commit may cover.
CommittedWereSent ==
    /\ \A o \in Offsets :
         o < committed /\ topic[o].kind \in {"good", "bad"} => o \in sent \cup dropped
    /\ dropped # {} => core = "dead" \/ faults > 0

\* A NaN in the topic stops learning for good: the consumer's panic leaves
\* its offset uncommitted, and every restart meets it again.  No reward
\* behind it is ever applied, and the group's offset never passes it.
PoisonIsNeverPassed ==
    \A n \in Offsets : topic[n].kind = "nan" =>
        /\ committed <= n /\ \A o \in sent : o < n
        /\ \A e \in Exps : policies[e] # None =>
             \A i \in 1 .. Len(policies[e]) : policies[e][i] < n

\* Within one life of the process a reward reaches a posterior once: only a
\* restart redelivers, and it redelivers each at most once.
Count(s, o) == Cardinality({i \in 1 .. Len(s) : s[i] = o})
RedeliveryIsBounded ==
    \A e \in Exps, o \in Offsets :
        policies[e] # None => Count(policies[e], o) <= 1 + faults

\* The rewards a posterior holds or can still get: through the channel, or
\* from the broker.  Without a policy there are none: the core ignores the
\* rewards of an experiment it does not know.
InChannel(e) == {rewards[i] : i \in {j \in 1 .. Len(rewards) : topic[rewards[j]].exp = e}}
Kept(e) ==
    {o \in Offsets : topic[o].exp = e /\ topic[o].kind = "good" /\ policies[e] # None
        /\ (o >= committed \/ o \in InChannel(e) \/ Count(policies[e], o) > 0)}

Stored(e) == LoadLatest(snaps, e) # None

\* What a restart loses, as long as nothing failed before it.  An experiment
\* with a snapshot loses at most what a snapshot interval and the reward
\* channel hold.  An experiment without one, which has learned less than an
\* interval, loses its policy, and with it all that it learned and all that
\* the topic still holds for it: no bound.
RestartLossIsBounded ==
    [][\A e \in Exps : Restart /\ faults = 0 /\ policies[e] # None =>
         IF Stored(e)
         THEN Cardinality(Kept(e) \ Kept(e)') <= SnapshotInterval - 1 + RewardDepth
         ELSE Len(policies[e]) < SnapshotInterval /\ policies'[e] = None /\ Kept(e)' = {}]_vars

\* What ADR-003 promises of a restart: it continues from the snapshot's
\* offset, so that no reward is lost.
RestartLosesNothing ==
    [][\A e \in Exps : Restart /\ faults = 0 /\ policies[e] # None /\ Stored(e) =>
         Kept(e) \subseteq Kept(e)']_vars

\* Every request is answered, by the core or by an error when it died.
EveryRequestAnswered == (call \in Commands) ~> (call \in Answers)

\* Unless a NaN or a panic stops it, the topic is consumed to its end and
\* every reward reaches its handler.
TopicIsConsumed ==
    <>[](\/ consumer = "dead" \/ core = "dead"
         \/ position = TopicLen + 1 /\ rewards = <<>> /\ inHand = None)

\* A snapshot is a point to continue from: its bookmark is the last reward
\* in its posterior, and the one that is loaded is the one written last,
\* through rollbacks, restarts, pruning and snapshots in one millisecond.
SnapshotsAreTrue ==
    /\ TypeOK /\ SnapshotBookmark /\ LatestIsLastWritten

\* Offsets follow the rewards: none is committed that the core was not sent,
\* none passes a NaN, and a reward is applied again only after a restart.
RewardsAreDelivered ==
    /\ CommittedWereSent /\ PoisonIsNeverPassed /\ RedeliveryIsBounded
=============================================================================
