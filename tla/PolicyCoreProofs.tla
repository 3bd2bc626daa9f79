-------------------------- MODULE PolicyCoreProofs --------------------------
(***************************************************************************)
(* M4b for any experiments, any topic, any channel depth, snapshot         *)
(* interval and retention, and any number of faults: snapshots are true,   *)
(* offsets follow the rewards, and a restart loses no more than a snapshot *)
(* interval and the channel.                                               *)
(***************************************************************************)
EXTENDS PolicyCore, TLAPS, FiniteSetTheorems, SequenceTheorems

IsReward(o) == topic[o].kind \in {"good", "bad"}

\* With the types: only rewards come into the consumer's hand and into the
\* channel, so that the core always finds the experiment of what it takes.
TypeInv ==
    /\ TypeOK
    /\ \A i \in 1 .. Len(rewards) : IsReward(rewards[i])
    /\ inHand # None => IsReward(inHand)

\* A key of the store has one envelope, none is from the future, and the one
\* written last is there and is the newest.
StoreInv ==
    /\ SnapshotBookmark
    /\ \A s, t \in snaps : s.exp = t.exp /\ s.at = t.at => s = t
    /\ \A s \in snaps : s.at <= clock
    /\ \A e \in Exps :
         IF written[e] = None
         THEN \A s \in snaps : s.exp # e
         ELSE /\ written[e] \in snaps /\ written[e].exp = e
              /\ \A s \in snaps : s.exp = e => s.at <= written[e].at

\* The order of the offsets: committed, in the channel, in the consumer's
\* hand, still to be received.
OrderInv ==
    /\ Len(rewards) <= RewardDepth
    /\ \A i, j \in 1 .. Len(rewards) : i < j => rewards[i] < rewards[j]
    /\ \A i \in 1 .. Len(rewards) : rewards[i] < position /\ rewards[i] \in sent
    /\ committed <= position
    /\ inHand # None =>
         /\ committed <= inHand /\ inHand < position
         /\ \A i \in 1 .. Len(rewards) : rewards[i] < inHand

\* What was received was sent, dropped, or is in the consumer's hand, and a
\* NaN stops the consumer right behind it.
DeliveryInv ==
    /\ \A o \in Offsets : o < position /\ IsReward(o) /\ o # inHand => o \in sent \cup dropped
    /\ dropped # {} => core = "dead" \/ faults > 0
    /\ \A n \in Offsets : topic[n].kind = "nan" =>
         /\ committed <= n /\ \A o \in sent : o < n
         /\ position <= n \/ (position = n + 1 /\ consumer = "dead")

\* Every posterior there is, in memory and in the store.
Posteriors == ({policies[e] : e \in Exps} \ {None}) \cup {s.applied : s \in snaps}

\* What this life of the process may still apply.
Pending(o) == o >= position \/ o = inHand \/ \E i \in 1 .. Len(rewards) : rewards[i] = o

\* A posterior holds what was sent, and what is pending once less.
PosteriorInv ==
    \A p \in Posteriors :
        /\ \A i \in 1 .. Len(p) : p[i] \in sent
        /\ \A o \in Offsets : Count(p, o) <= 1 + faults /\ (Pending(o) => Count(p, o) <= faults)

\* The posterior a restart would load.
Base(e) == IF written[e] = None THEN <<>> ELSE written[e].applied

\* p is b with at most n rewards behind.
Ahead(p, b, n) == Len(b) <= Len(p) /\ Len(p) <= Len(b) + n /\ \A i \in 1 .. Len(b) : p[i] = b[i]

\* The store lags behind the posterior by less than a snapshot interval.
LagInv ==
    /\ \A e \in Exps : since[e] < SnapshotInterval
    /\ faults = 0 => \A e \in Exps :
         IF policies[e] = None THEN written[e] = None ELSE Ahead(policies[e], Base(e), since[e])

-----------------------------------------------------------------------------
(* Types.                                                                  *)

LEMMA RewardMessage ==
    ASSUME TypeOK, NEW o \in Offsets, IsReward(o)
    PROVE  topic[o].exp \in Exps
<1>1. topic[o] \in Messages
  BY DEF TypeOK
<1> QED  BY <1>1 DEF Messages, IsReward

\* A request names an experiment.
LEMMA CallType ==
    ASSUME TypeOK, call.op \in {"select", "coldstart", "meta", "export", "snapshot", "rollback"}
    PROVE  /\ call.exp \in Exps
           /\ call.op = "coldstart" => call.exp \in LinUcb
<1>1. call \in Commands \cup Answers
  BY DEF TypeOK
<1>2. call \notin Answers
  BY DEF Answers
<1> QED  BY <1>1, <1>2 DEF Commands, SelectArmRequests, CreateColdStartRequests, RegisterMetaRequests,
           ExportAffinityRequests, GetSnapshotRequests, RollbackPolicyRequests, Exps

\* What is loaded is what was written last.
LEMMA LoadsLastWritten ==
    ASSUME TypeOK, StoreInv, NEW e \in Exps
    PROVE  LoadLatest(snaps, e) = written[e]
<1>1. CASE written[e] = None
  <2>1. ~ \E s \in snaps : s.exp = e
    BY <1>1 DEF StoreInv
  <2> QED  BY <1>1, <2>1 DEF LoadLatest
<1>2. CASE written[e] # None
  <2> DEFINE P(s) == s.exp = e /\ \A t \in snaps : t.exp = e => t.at <= s.at
             L == CHOOSE s \in snaps : P(s)
  <2>0. \A s \in snaps : s.at \in Int
    BY PolicyAssumption DEF TypeOK, Envelope
  <2>1. written[e] \in snaps /\ P(written[e])
    BY <1>2 DEF StoreInv
  <2>2. LoadLatest(snaps, e) = L
    BY <2>1 DEF LoadLatest
  <2>3. L \in snaps /\ P(L)
    BY <2>1
  <2> HIDE DEF L
  <2>4. L.at <= written[e].at /\ written[e].at <= L.at /\ L.exp = written[e].exp
    BY <2>1, <2>3
  <2>5. L.at = written[e].at
    BY <2>0, <2>1, <2>3, <2>4
  <2>6. L = written[e]
    BY <2>1, <2>3, <2>4, <2>5 DEF StoreInv
  <2> QED  BY <2>2, <2>6
<1> QED  BY <1>1, <1>2

\* What a command may change: the policy it is about, and with a panic the
\* thread and its channels.
LEMMA ServeEffect ==
    ASSUME TypeInv, StoreInv, Serve
    PROVE  /\ UNCHANGED <<topic, committed, position, uncommitted, consumer, inHand, sent, dropped,
                          since, lastOffset, snaps, written, clock, faults>>
           /\ rewards' = rewards \/ rewards' = <<>>
           /\ core' = core \/ core' = "dead"
           /\ call' \in Answers /\ composers' \subseteq Exps /\ configs' \subseteq LinUcb
           /\ policies' \in [Exps -> Seq(Offsets) \cup {None}]
           /\ \A e \in Exps :
                \/ policies'[e] = policies[e]
                \/ policies[e] = None /\ policies'[e] = <<>>
                \/ written[e] # None /\ policies'[e] = written[e].applied
<1>1. UNCHANGED <<topic, committed, position, uncommitted, consumer, inHand, sent, dropped,
                  since, lastOffset, snaps, written, clock, faults>>
  BY DEF Serve, HandleSelectArm, HandleCreateColdStart, HandleRegisterMetaExperiment, HandleExportAffinity,
         HandleGetSnapshot, HandleRollbackPolicy, kafka, task, learning, store
<1>2. /\ policies \in [Exps -> Seq(Offsets) \cup {None}] /\ composers \subseteq Exps /\ configs \subseteq LinUcb
      /\ written \in [Exps -> Envelope \cup {None}]
  BY DEF TypeInv, TypeOK
<1>3. <<>> \in Seq(Offsets)
  BY EmptySeq
<1>4. \A e \in Exps : written[e] # None => written[e].applied \in Seq(Offsets)
  BY <1>2 DEF Envelope
<1>5. \A r \in {"ok", "not_found", "wrong_type", "unavailable", "dropped"} : Answered(r) \in Answers
  BY DEF Answered, Answers
<1>6. TypeOK
  BY DEF TypeInv
<1> HIDE DEF TypeInv, Answers, Answered
<1>7. CASE HandleSelectArm
  <2>1. UNCHANGED <<policies, composers, configs>>
    BY <1>7 DEF HandleSelectArm, learning, setup
  <2>2. /\ rewards' = rewards \/ rewards' = <<>>
        /\ core' = core \/ core' = "dead"
    BY <1>7 DEF HandleSelectArm, Panic
  <2>3. call \in Commands
    <3>1. call.op = "select" /\ call \in Commands \cup Answers
      BY <1>6, <1>7 DEF HandleSelectArm, Asked, TypeOK
    <3> QED  BY <3>1 DEF Answers
  <2>4. call' \in Answers
    BY <1>5, <1>7, <2>3 DEF HandleSelectArm, Panic, DropReplyChannel, Answer
  <2> QED  BY <1>1, <1>2, <2>1, <2>2, <2>4
<1>8. CASE HandleCreateColdStart
  <2>1. call.exp \in Exps /\ call.exp \in LinUcb
    BY <1>6, <1>8, CallType DEF HandleCreateColdStart, Asked
  <2>2. policies' = [policies EXCEPT ![call.exp] = IF policies[call.exp] = None THEN <<>> ELSE policies[call.exp]]
    BY <1>8 DEF HandleCreateColdStart
  <2>3. configs' = configs \cup {call.exp} /\ call' \in Answers /\ UNCHANGED <<composers, rewards, core>>
    BY <1>5, <1>8 DEF HandleCreateColdStart, Answer
  <2> QED  BY <1>1, <1>2, <1>3, <2>1, <2>2, <2>3
<1>9. CASE HandleRegisterMetaExperiment
  <2>1. call.exp \in Exps
    BY <1>6, <1>9, CallType DEF HandleRegisterMetaExperiment, Asked
  <2>2. policies' = [policies EXCEPT ![call.exp] = IF policies[call.exp] = None THEN <<>> ELSE policies[call.exp]]
    BY <1>9 DEF HandleRegisterMetaExperiment
  <2>3. composers' = composers \cup {call.exp} /\ call' \in Answers /\ UNCHANGED <<configs, rewards, core>>
    BY <1>5, <1>9 DEF HandleRegisterMetaExperiment, Answer
  <2> QED  BY <1>1, <1>2, <1>3, <2>1, <2>2, <2>3
<1>10. CASE HandleExportAffinity \/ HandleGetSnapshot
  <2>1. UNCHANGED <<policies, composers, configs, rewards, core>>
    BY <1>10 DEF HandleExportAffinity, HandleGetSnapshot, learning, setup
  <2>2. call' \in Answers
    BY <1>5, <1>10 DEF HandleExportAffinity, HandleGetSnapshot, Answer
  <2> QED  BY <1>1, <1>2, <2>1, <2>2
<1>11. CASE HandleRollbackPolicy
  <2>1. call.exp \in Exps
    BY <1>6, <1>11, CallType DEF HandleRollbackPolicy, Asked
  <2>2. LoadLatest(snaps, call.exp) = written[call.exp]
    BY <1>6, <2>1, LoadsLastWritten
  <2>3. \/ UNCHANGED policies
        \/ /\ written[call.exp] # None
           /\ policies' = [policies EXCEPT ![call.exp] = written[call.exp].applied]
    BY <1>11, <2>2 DEF HandleRollbackPolicy
  <2>4. call' \in Answers /\ UNCHANGED <<composers, configs, rewards, core>>
    BY <1>5, <1>11 DEF HandleRollbackPolicy, Answer, setup
  <2> QED  BY <1>1, <1>2, <1>4, <2>1, <2>3, <2>4
<1> QED  BY <1>7, <1>8, <1>9, <1>10, <1>11 DEF Serve

\* A reward of a known experiment reaches its posterior.
Learn(o, e) ==
    /\ policies[e] # None /\ topic[o].kind = "good"
    /\ rewards' = Tail(rewards)
    /\ policies' = [policies EXCEPT ![e] = Append(policies[e], o)]
    /\ lastOffset' = [lastOffset EXCEPT ![e] = o]
    /\ UNCHANGED <<core, call>>
    /\ \/ /\ since[e] + 1 < SnapshotInterval
          /\ since' = [since EXCEPT ![e] = since[e] + 1]
          /\ UNCHANGED <<snaps, written, faults>>
       \/ /\ since' = [since EXCEPT ![e] = 0]
          /\ TakeSnapshot(MakeEnvelope(e, Append(policies[e], o), o))

\* What the core does with the reward at the channel's head.
LEMMA RewardEffect ==
    ASSUME TypeInv, HandleRewardUpdate,
           NEW o, o = Head(rewards), NEW e, e = topic[o].exp
    PROVE  /\ core = "run" /\ rewards # <<>> /\ o \in Offsets /\ e \in Exps
           /\ o = rewards[1] /\ Tail(rewards) \in Seq(Offsets)
           /\ Len(rewards) \in Nat /\ Len(Tail(rewards)) = Len(rewards) - 1
           /\ \A i \in 1 .. Len(Tail(rewards)) : Tail(rewards)[i] = rewards[i + 1]
           /\ policies[e] # None => policies[e] \in Seq(Offsets)
           /\ UNCHANGED <<topic, committed, position, uncommitted, consumer, inHand, sent, dropped,
                          composers, configs, clock>>
           /\ \/ /\ rewards' = Tail(rewards)
                 /\ UNCHANGED <<core, policies, since, lastOffset, call, snaps, written, faults>>
              \/ /\ core' = "dead" /\ rewards' = <<>> /\ call' = DropReplyChannel
                 /\ UNCHANGED <<policies, since, lastOffset, snaps, written, faults>>
              \/ Learn(o, e)
<1>1. core = "run" /\ rewards # <<>> /\ rewards \in Seq(Offsets)
  BY DEF HandleRewardUpdate, TypeInv, TypeOK
<1>2. /\ o \in Offsets /\ o = rewards[1] /\ Tail(rewards) \in Seq(Offsets)
      /\ Len(rewards) \in Nat /\ Len(Tail(rewards)) = Len(rewards) - 1 /\ Len(rewards) # 0
      /\ \A i \in 1 .. Len(Tail(rewards)) : Tail(rewards)[i] = rewards[i + 1]
  BY <1>1, HeadTailProperties, EmptySeq
<1>3. IsReward(o)
  BY <1>2 DEF TypeInv
<1>4. e \in Exps
  BY <1>2, <1>3, RewardMessage DEF TypeInv
<1>5. policies[e] # None => policies[e] \in Seq(Offsets)
  BY <1>4 DEF TypeInv, TypeOK
<1>6. UNCHANGED <<topic, committed, position, uncommitted, consumer, inHand, sent, dropped,
                  composers, configs, clock>>
  BY DEF HandleRewardUpdate, kafka, task, setup, store
<1>7. since[e] \in Nat
  BY <1>4 DEF TypeInv, TypeOK
<1>8. \/ /\ rewards' = Tail(rewards)
         /\ UNCHANGED <<core, policies, since, lastOffset, call, snaps, written, faults>>
      \/ /\ core' = "dead" /\ rewards' = <<>> /\ call' = DropReplyChannel
         /\ UNCHANGED <<policies, since, lastOffset, snaps, written, faults>>
      \/ Learn(o, e)
  <2>1. ~SnapshotDue(since[e] + 1) => since[e] + 1 < SnapshotInterval
    BY <1>7, PolicyAssumption DEF SnapshotDue
  <2> QED  BY <2>1 DEF HandleRewardUpdate, Panic, learning, store, Learn
<1> QED  BY <1>1, <1>2, <1>4, <1>5, <1>6, <1>8

\* write_snapshot: a new envelope is the newest of its experiment, so pruning
\* spares it and touches no other experiment.
LEMMA SnapshotEffect ==
    ASSUME TypeOK, StoreInv, NEW env \in Envelope, env.at = clock, TakeSnapshot(env)
    PROVE  /\ snaps' \subseteq snaps \cup {env}
           /\ \/ Fault /\ UNCHANGED <<snaps, written>>
              \/ /\ written' = [written EXCEPT ![env.exp] = env] /\ UNCHANGED faults
                 /\ env \in snaps'
                 /\ \A s \in snaps : s.exp # env.exp => s \in snaps'
                 /\ \A s \in snaps' : s.exp = env.exp /\ s.at = env.at => s = env
<1> DEFINE W == WriteSnapshot(snaps, env)
<1>1. W = {s \in snaps : <<s.exp, s.at>> # <<env.exp, env.at>>} \cup {env}
  BY DEF WriteSnapshot
<1> HIDE DEF W
<1>2. CASE /\ snaps' = PruneOldSnapshots(W, env.exp, MaxSnapshots)
           /\ written' = [written EXCEPT ![env.exp] = env]
           /\ UNCHANGED faults
  <2>1. snaps' = {s \in W : s.exp = env.exp =>
                    Cardinality({t \in W : t.exp = env.exp /\ t.at > s.at}) < MaxSnapshots}
    BY <1>2 DEF PruneOldSnapshots
  <2>2. \A t \in W : ~(t.at > env.at)
    <3>1. \A s \in snaps : s.at \in Int /\ s.at <= clock
      BY PolicyAssumption DEF StoreInv, TypeOK, Envelope
    <3>2. clock \in Int
      BY PolicyAssumption DEF TypeOK
    <3>3. \A t \in W : t.at \in Int /\ t.at <= env.at
      BY <1>1, <3>1, <3>2
    <3> QED  BY <3>2, <3>3
  <2>3. {t \in W : t.exp = env.exp /\ t.at > env.at} = {}
    BY <2>2
  <2>4. Cardinality({t \in W : t.exp = env.exp /\ t.at > env.at}) < MaxSnapshots
    <3>1. Cardinality({t \in W : t.exp = env.exp /\ t.at > env.at}) = 0
      BY <2>3, FS_EmptySet, Zenon
    <3>2. 0 < MaxSnapshots
      BY PolicyAssumption
    <3> QED  BY <3>1, <3>2, Zenon
  <2>5. env \in snaps'
    BY <1>1, <2>1, <2>4
  <2>6. \A s \in snaps : s.exp # env.exp => s \in snaps'
    BY <1>1, <2>1
  <2>7. snaps' \subseteq snaps \cup {env}
    BY <1>1, <2>1
  <2>8. \A s \in snaps' : s.exp = env.exp /\ s.at = env.at => s = env
    BY <1>1, <2>1
  <2> QED  BY <1>2, <2>5, <2>6, <2>7, <2>8
<1>3. CASE Fault /\ UNCHANGED <<snaps, written>>
  BY <1>3
<1> QED  BY <1>2, <1>3 DEF TakeSnapshot, W

\* The envelope a reward's handler writes.
LEMMA EnvelopeType ==
    ASSUME TypeInv, NEW o \in Offsets, NEW e \in Exps, policies[e] # None, NEW env,
           env = MakeEnvelope(e, Append(policies[e], o), o)
    PROVE  /\ env \in Envelope /\ env.exp = e /\ env.at = clock /\ env.offset = o
           /\ env.applied = Append(policies[e], o) /\ Append(policies[e], o) \in Seq(Offsets)
           /\ Append(policies[e], o) # <<>>
           /\ Len(Append(policies[e], o)) = Len(policies[e]) + 1 /\ Len(policies[e]) \in Nat
           /\ Append(policies[e], o)[Len(policies[e]) + 1] = o
           /\ \A i \in 1 .. Len(policies[e]) : Append(policies[e], o)[i] = policies[e][i]
<1>1. policies[e] \in Seq(Offsets) /\ clock \in 0 .. MaxClock
  BY DEF TypeInv, TypeOK
<1>2. /\ Append(policies[e], o) \in Seq(Offsets)
      /\ Len(Append(policies[e], o)) = Len(policies[e]) + 1 /\ Len(policies[e]) \in Nat
      /\ Append(policies[e], o)[Len(policies[e]) + 1] = o
      /\ \A i \in 1 .. Len(policies[e]) : Append(policies[e], o)[i] = policies[e][i]
  BY <1>1
<1>3. Append(policies[e], o) # <<>>
  <2>1. Len(Append(policies[e], o)) # 0
    BY <1>2
  <2> QED  BY <2>1, EmptySeq
<1>4. (e \in composers) \in BOOLEAN
  OBVIOUS
<1>5. /\ env \in Envelope /\ env.exp = e /\ env.at = clock /\ env.offset = o
      /\ env.applied = Append(policies[e], o)
  BY <1>1, <1>2, <1>4 DEF MakeEnvelope, Envelope
<1> QED  BY <1>2, <1>3, <1>5

\* Types and store, when a reward is learned.
LEMMA LearnStore ==
    ASSUME TypeInv, StoreInv, NEW o \in Offsets, NEW e \in Exps, Learn(o, e), UNCHANGED clock
    PROVE  /\ StoreInv' /\ snaps' \subseteq Envelope
           /\ written' \in [Exps -> Envelope \cup {None}] /\ faults' \in 0 .. MaxFaults /\ faults <= faults'
<1> DEFINE env == MakeEnvelope(e, Append(policies[e], o), o)
<1>0. /\ snaps \subseteq Envelope /\ written \in [Exps -> Envelope \cup {None}]
      /\ faults \in 0 .. MaxFaults /\ MaxFaults \in Nat /\ clock \in Int
  BY PolicyAssumption DEF TypeInv, TypeOK
<1>1. CASE UNCHANGED <<snaps, written, faults>>
  BY <1>0, <1>1 DEF StoreInv, SnapshotBookmark
<1>2. CASE TakeSnapshot(env)
  <2>1. /\ env \in Envelope /\ env.exp = e /\ env.at = clock /\ env.offset = o
        /\ env.applied = Append(policies[e], o) /\ env.applied # <<>>
        /\ env.offset = env.applied[Len(env.applied)]
    BY EnvelopeType DEF Learn
  <2> HIDE DEF env
  <2>2. /\ snaps' \subseteq snaps \cup {env}
        /\ \/ Fault /\ UNCHANGED <<snaps, written>>
           \/ /\ written' = [written EXCEPT ![env.exp] = env] /\ UNCHANGED faults
              /\ env \in snaps'
              /\ \A s \in snaps : s.exp # env.exp => s \in snaps'
              /\ \A s \in snaps' : s.exp = env.exp /\ s.at = env.at => s = env
    BY <1>2, <2>1, SnapshotEffect DEF TypeInv
  <2>3. CASE Fault /\ UNCHANGED <<snaps, written>>
    <3>1. faults' \in 0 .. MaxFaults /\ faults <= faults'
      BY <1>0, <2>3 DEF Fault
    <3> QED  BY <1>0, <2>3, <3>1 DEF StoreInv, SnapshotBookmark
  <2>4. CASE /\ written' = [written EXCEPT ![env.exp] = env] /\ UNCHANGED faults
             /\ env \in snaps'
             /\ \A s \in snaps : s.exp # env.exp => s \in snaps'
             /\ \A s \in snaps' : s.exp = env.exp /\ s.at = env.at => s = env
    <3>1. snaps' \subseteq Envelope /\ written' \in [Exps -> Envelope \cup {None}] /\ faults <= faults'
      BY <1>0, <2>1, <2>2, <2>4
    <3>2. SnapshotBookmark'
      BY <2>1, <2>2 DEF StoreInv, SnapshotBookmark
    <3>3. \A s \in snaps' : s.at <= clock'
      BY <1>0, <2>1, <2>2 DEF StoreInv
    <3>4. \A s, t \in snaps' : s.exp = t.exp /\ s.at = t.at => s = t
      BY <2>2, <2>4 DEF StoreInv
    <3>5. written'[e] = env /\ \A x \in Exps : x # e => written'[x] = written[x]
      BY <1>0, <2>1, <2>4
    <3>6. ASSUME NEW x \in Exps
          PROVE  IF written'[x] = None
                 THEN \A s \in snaps' : s.exp # x
                 ELSE /\ written'[x] \in snaps' /\ written'[x].exp = x
                      /\ \A s \in snaps' : s.exp = x => s.at <= written'[x].at
      <4>1. CASE x = e
        <5>1. written'[x] = env /\ env # None
          BY <2>1, <3>5, <4>1, NoneAssumption
        <5> QED  BY <2>1, <2>4, <3>3, <4>1, <5>1
      <4>2. CASE x # e
        <5>1. written'[x] = written[x]
          BY <3>5, <4>2
        <5>2. \A s \in snaps' : s.exp = x => s \in snaps
          BY <2>1, <2>2, <4>2
        <5>3. written[x] # None => written[x] \in snaps /\ written[x].exp = x
          BY DEF StoreInv
        <5>4. written[x] # None => written[x] \in snaps'
          BY <2>1, <2>4, <4>2, <5>3
        <5> QED  BY <5>1, <5>2, <5>3, <5>4 DEF StoreInv
      <4> QED  BY <4>1, <4>2
    <3>7. StoreInv'
      BY <3>2, <3>3, <3>4, <3>6 DEF StoreInv
    <3> QED  BY <1>0, <2>4, <3>1, <3>7
  <2> QED  BY <2>2, <2>3, <2>4
<1> QED  BY <1>1, <1>2 DEF Learn

\* The store, in every step.
LEMMA NextStore == TypeInv /\ StoreInv /\ [Next]_vars => StoreInv'
<1> SUFFICES ASSUME TypeInv, StoreInv, [Next]_vars PROVE StoreInv'
  OBVIOUS
<1>1. CASE UNCHANGED <<snaps, written, clock>>
  BY <1>1 DEF StoreInv, SnapshotBookmark
<1>2. CASE Tick
  <2>1. UNCHANGED <<snaps, written>> /\ clock' = clock + 1 /\ clock \in Int
    BY <1>2, PolicyAssumption DEF Tick, TypeInv, TypeOK
  <2>2. \A s \in snaps : s.at \in Int
    BY PolicyAssumption DEF TypeInv, TypeOK, Envelope
  <2>3. \A s \in snaps : s.at <= clock'
    BY <2>1, <2>2 DEF StoreInv
  <2> QED  BY <2>1, <2>3 DEF StoreInv, SnapshotBookmark
<1>3. CASE HandleRewardUpdate
  <2> DEFINE o == Head(rewards)
             e == topic[o].exp
  <2> HIDE DEF o, e
  <2>1. /\ o \in Offsets /\ e \in Exps /\ UNCHANGED clock
        /\ UNCHANGED <<snaps, written, clock>> \/ Learn(o, e)
    BY <1>3, RewardEffect DEF o, e
  <2> QED  BY <1>1, <2>1, LearnStore
<1>4. CASE Serve
  BY <1>1, <1>4, ServeEffect
<1> QED  BY <1>1, <1>2, <1>3, <1>4 DEF Next, Consume, CommitOffsets, Receive, SendReward, SendFails,
           Restart, RestartUnreadable, Reboot, Request, store, vars

\* The types, for a step of the consumer.
LEMMA ConsumeType ==
    ASSUME TypeInv, Consume
    PROVE  TypeInv'
<1>0. /\ TopicLen \in Nat /\ MaxFaults \in Nat /\ None \notin Offsets
      /\ topic \in [Offsets -> Messages]
      /\ committed \in 1 .. TopicLen + 1 /\ position \in 1 .. TopicLen + 1
      /\ uncommitted \in Nat /\ inHand \in Offsets \cup {None} /\ rewards \in Seq(Offsets)
      /\ faults \in 0 .. MaxFaults /\ sent \subseteq Offsets /\ dropped \subseteq Offsets
  BY PolicyAssumption DEF TypeInv, TypeOK
<1>1. UNCHANGED <<topic, core, policies, composers, configs, since, lastOffset, call, snaps, clock, written>>
  BY DEF Consume, CommitOffsets, Receive, SendReward, SendFails, kafka, learning, setup, store
<1>2. CASE CommitOffsets
  <2>1. UNCHANGED <<position, consumer, inHand, sent, dropped, rewards>> /\ uncommitted' \in Nat
    BY <1>2 DEF CommitOffsets
  <2>2. committed' \in 1 .. TopicLen + 1 /\ faults' \in 0 .. MaxFaults
    BY <1>0, <1>2 DEF CommitOffsets, Fault
  <2> QED  BY <1>1, <2>1, <2>2 DEF TypeInv, TypeOK, IsReward
<1>3. CASE Receive
  <2>1. UNCHANGED <<committed, sent, dropped, rewards, faults>>
    BY <1>3 DEF Receive, kafka
  <2>2. position' \in 1 .. TopicLen + 1 /\ position \in Offsets
    BY <1>0, <1>3 DEF Receive, Offsets
  <2>3. uncommitted' \in Nat /\ consumer' \in {"run", "dead"}
    BY <1>0, <1>3 DEF Receive, AtLoopHead
  <2>4. inHand' \in Offsets \cup {None} /\ (inHand' # None => IsReward(inHand'))
    BY <1>0, <1>3, <2>2 DEF Receive, AtLoopHead, IsReward
  <2> QED  BY <1>1, <2>1, <2>2, <2>3, <2>4 DEF TypeInv, TypeOK, IsReward
<1>4. CASE SendReward
  <2>1. UNCHANGED <<committed, position, consumer, dropped, faults>> /\ inHand' = None /\ inHand \in Offsets
    BY <1>0, <1>4 DEF SendReward, kafka
  <2>2. uncommitted' \in Nat /\ sent' \subseteq Offsets
    BY <1>0, <1>4 DEF SendReward
  <2>3. rewards' = Append(rewards, inHand) /\ IsReward(inHand)
    BY <1>4 DEF SendReward, Enqueue, TypeInv
  <2>4. /\ rewards' \in Seq(Offsets) /\ Len(rewards') = Len(rewards) + 1 /\ Len(rewards) \in Nat
        /\ rewards'[Len(rewards) + 1] = inHand /\ \A i \in 1 .. Len(rewards) : rewards'[i] = rewards[i]
    BY <1>0, <2>1, <2>3
  <2>5. \A i \in 1 .. Len(rewards') : IsReward(rewards'[i])
    <3>1. ASSUME NEW i \in 1 .. Len(rewards')
          PROVE  i = Len(rewards) + 1 \/ i \in 1 .. Len(rewards)
      BY <2>4
    <3> QED  BY <2>3, <2>4, <3>1 DEF TypeInv
  <2> QED  BY <1>1, <2>1, <2>2, <2>4, <2>5 DEF TypeInv, TypeOK, IsReward
<1>5. CASE SendFails
  <2>1. UNCHANGED <<position, sent, rewards, faults>> /\ inHand' = None /\ consumer' = "dead" /\ uncommitted' = 0
    BY <1>5 DEF SendFails
  <2>2. dropped' \subseteq Offsets /\ committed' \in 1 .. TopicLen + 1
    BY <1>0, <1>5 DEF SendFails
  <2> QED  BY <1>1, <2>1, <2>2 DEF TypeInv, TypeOK, IsReward
<1> QED  BY <1>2, <1>3, <1>4, <1>5 DEF Consume

LEMMA AnswerTypes ==
    ASSUME TypeOK
    PROVE  /\ DropReplyChannel \in Commands \cup Answers
           /\ \A r \in {"ok", "not_found", "wrong_type", "unavailable", "dropped"} : Answered(r) \in Answers
<1>1. \A r \in {"ok", "not_found", "wrong_type", "unavailable", "dropped"} : Answered(r) \in Answers
  BY DEF Answered, Answers
<1>2. call \in Commands \cup Answers
  BY DEF TypeOK
<1> QED  BY <1>1, <1>2 DEF DropReplyChannel

LEMMA RewardType ==
    ASSUME TypeInv, StoreInv, HandleRewardUpdate
    PROVE  TypeInv'
<1> DEFINE o == Head(rewards)
           e == topic[o].exp
<1> HIDE DEF o, e
<1>1. /\ o \in Offsets /\ e \in Exps /\ Tail(rewards) \in Seq(Offsets)
      /\ Len(rewards) \in Nat /\ Len(Tail(rewards)) = Len(rewards) - 1
      /\ \A i \in 1 .. Len(Tail(rewards)) : Tail(rewards)[i] = rewards[i + 1]
      /\ UNCHANGED <<topic, committed, position, uncommitted, consumer, inHand, sent, dropped,
                     composers, configs, clock>>
      /\ \/ /\ rewards' = Tail(rewards)
            /\ UNCHANGED <<core, policies, since, lastOffset, call, snaps, written, faults>>
         \/ /\ core' = "dead" /\ rewards' = <<>> /\ call' = DropReplyChannel
            /\ UNCHANGED <<policies, since, lastOffset, snaps, written, faults>>
         \/ Learn(o, e)
  BY RewardEffect DEF o, e
<1>2. \A i \in 1 .. Len(Tail(rewards)) : IsReward(Tail(rewards)[i])
  <2>1. ASSUME NEW i \in 1 .. Len(Tail(rewards))
        PROVE  i + 1 \in 1 .. Len(rewards)
    BY <1>1
  <2> QED  BY <1>1, <2>1 DEF TypeInv
<1>3. TypeOK /\ (inHand # None => IsReward(inHand))
  BY DEF TypeInv
<1>4. CASE /\ rewards' = Tail(rewards)
           /\ UNCHANGED <<core, policies, since, lastOffset, call, snaps, written, faults>>
  BY <1>1, <1>2, <1>3, <1>4 DEF TypeInv, TypeOK, IsReward
<1>5. CASE /\ core' = "dead" /\ rewards' = <<>> /\ call' = DropReplyChannel
           /\ UNCHANGED <<policies, since, lastOffset, snaps, written, faults>>
  <2>1. call' \in Commands \cup Answers /\ rewards' \in Seq(Offsets) /\ Len(rewards') = 0
    BY <1>3, <1>5, AnswerTypes, EmptySeq
  <2> QED  BY <1>1, <1>3, <1>5, <2>1 DEF TypeInv, TypeOK, IsReward
<1>6. CASE Learn(o, e)
  <2>1. /\ snaps' \subseteq Envelope /\ written' \in [Exps -> Envelope \cup {None}]
        /\ faults' \in 0 .. MaxFaults
    BY <1>1, <1>6, LearnStore
  <2>2. policies' \in [Exps -> Seq(Offsets) \cup {None}]
    <3>1. Append(policies[e], o) \in Seq(Offsets)
      BY <1>1, <1>6, EnvelopeType DEF Learn
    <3> QED  BY <1>1, <1>3, <1>6, <3>1 DEF Learn, TypeOK
  <2>3. lastOffset' \in [Exps -> Offsets \cup {None}]
    BY <1>1, <1>3, <1>6 DEF Learn, TypeOK
  <2>4. since' \in [Exps -> Nat]
    <3>1. since \in [Exps -> Nat] /\ since[e] + 1 \in Nat
      BY <1>1, <1>3 DEF TypeOK
    <3> QED  BY <1>1, <1>6, <3>1 DEF Learn
  <2>5. rewards' = Tail(rewards) /\ UNCHANGED <<core, call>>
    BY <1>6 DEF Learn
  <2> QED  BY <1>1, <1>2, <1>3, <2>1, <2>2, <2>3, <2>4, <2>5 DEF TypeInv, TypeOK, IsReward
<1> QED  BY <1>1, <1>4, <1>5, <1>6

\* What a start finds: the posteriors and bookmarks of the latest snapshots,
\* or nothing.
LEMMA RestartEffect ==
    ASSUME TypeInv, StoreInv, Restart \/ RestartUnreadable
    PROVE  /\ faults' = faults + 1 /\ faults < MaxFaults
           /\ UNCHANGED <<topic, committed, sent, dropped, snaps, written, clock>>
           /\ consumer' = "run" /\ inHand' = None /\ position' = committed /\ uncommitted' = 0
           /\ rewards' = <<>> /\ core' = "run" /\ configs' = {} /\ since' = [e \in Exps |-> 0]
           /\ call' \in Commands \cup Answers
           /\ composers' \subseteq Exps
           /\ policies' \in [Exps -> Seq(Offsets) \cup {None}]
           /\ lastOffset' \in [Exps -> Offsets \cup {None}]
           /\ \A e \in Exps : policies'[e] # None => written[e] # None /\ policies'[e] = written[e].applied
           /\ Restart => \A e \in Exps : written[e] # None => policies'[e] = written[e].applied
<1>1. Reboot
  BY DEF Restart, RestartUnreadable
<1>2. TypeOK /\ written \in [Exps -> Envelope \cup {None}]
  BY DEF TypeInv, TypeOK
<1>3. call' \in Commands \cup Answers
  BY <1>1, <1>2, AnswerTypes DEF Reboot, TypeOK
<1>4. \A e \in Exps : written[e] # None =>
        written[e].applied \in Seq(Offsets) /\ written[e].offset \in Offsets \cup {None}
  BY <1>2 DEF Envelope
<1>5. CASE Restart
  <2>1. \A e \in Exps : LoadLatest(snaps, e) = written[e]
    BY <1>2, LoadsLastWritten
  <2>2. /\ policies' = [e \in Exps |-> IF written[e] = None THEN None ELSE written[e].applied]
        /\ lastOffset' = [e \in Exps |-> IF written[e] = None THEN None ELSE written[e].offset]
        /\ composers' \subseteq Exps
    BY <1>5, <2>1 DEF Restart
  <2>3. /\ policies' \in [Exps -> Seq(Offsets) \cup {None}]
        /\ lastOffset' \in [Exps -> Offsets \cup {None}]
    BY <1>4, <2>2
  <2> QED  BY <1>1, <1>3, <2>2, <2>3 DEF Reboot, Fault, ResumeAt, kafka, store
<1>6. CASE RestartUnreadable /\ ~Restart
  <2>1. /\ policies' = [e \in Exps |-> None] /\ lastOffset' = [e \in Exps |-> None] /\ composers' = {}
    BY <1>6 DEF RestartUnreadable
  <2> QED  BY <1>1, <1>3, <1>6, <2>1 DEF Reboot, Fault, ResumeAt, kafka, store
<1> QED  BY <1>5, <1>6

LEMMA NextType == TypeInv /\ StoreInv /\ [Next]_vars => TypeInv'
<1> SUFFICES ASSUME TypeInv, StoreInv, [Next]_vars PROVE TypeInv'
  OBVIOUS
<1>0. TypeOK
  BY DEF TypeInv
<1>1. CASE Serve
  <2>1. rewards' \in Seq(Offsets) /\ \A i \in 1 .. Len(rewards') : IsReward(rewards'[i])
    <3>1. rewards' = rewards \/ rewards' = <<>>
      BY <1>1, ServeEffect
    <3>2. CASE rewards' = rewards
      BY <3>2 DEF TypeInv, TypeOK
    <3>3. CASE rewards' = <<>>
      <4>1. rewards' \in Seq(Offsets) /\ Len(rewards') = 0
        BY <3>3, EmptySeq
      <4> QED  BY <4>1
    <3> QED  BY <3>1, <3>2, <3>3
  <2>2. core' \in {"run", "dead"}
    BY <1>1, ServeEffect DEF TypeInv, TypeOK
  <2> QED  BY <1>1, <2>1, <2>2, ServeEffect DEF TypeInv, TypeOK, IsReward
<1>2. CASE Restart \/ RestartUnreadable
  <2>1. faults' \in 0 .. MaxFaults
    BY <1>0, <1>2, RestartEffect, PolicyAssumption DEF TypeOK
  <2>2. rewards' \in Seq(Offsets) /\ Len(rewards') = 0
    BY <1>2, RestartEffect, EmptySeq
  <2>3. since' \in [Exps -> Nat]
    BY <1>2, RestartEffect
  <2> QED  BY <1>0, <1>2, <2>1, <2>2, <2>3, RestartEffect DEF TypeInv, TypeOK, IsReward
<1>3. CASE Tick
  <2>1. clock' \in 0 .. MaxClock
    BY <1>0, <1>3, PolicyAssumption DEF Tick, TypeOK
  <2> QED  BY <1>3, <2>1 DEF Tick, TypeInv, TypeOK, IsReward, kafka, task, learning, setup
<1>4. ASSUME NEW c \in Commands, Request(c) PROVE TypeInv'
  <2>1. call' \in Commands \cup Answers
    BY <1>0, <1>4, AnswerTypes DEF Request
  <2> QED  BY <1>4, <2>1 DEF Request, TypeInv, TypeOK, IsReward, kafka, task, learning, setup, store
<1>5. CASE UNCHANGED vars
  BY <1>5 DEF vars, TypeInv, TypeOK, IsReward
<1> QED  BY <1>1, <1>2, <1>3, <1>4, <1>5, ConsumeType, RewardType DEF Next

LEMMA InitType == Init => TypeInv /\ StoreInv
<1> SUFFICES ASSUME Init PROVE TypeInv /\ StoreInv
  OBVIOUS
<1>1. /\ 1 \in 1 .. TopicLen + 1 /\ 0 \in 0 .. MaxClock /\ 0 \in 0 .. MaxFaults
  BY PolicyAssumption
<1>2. call \in Answers
  BY DEF Init, Answered, Answers
<1>3. rewards \in Seq(Offsets) /\ Len(rewards) = 0
  BY EmptySeq DEF Init
<1>4. /\ policies \in [Exps -> Seq(Offsets) \cup {None}] /\ lastOffset \in [Exps -> Offsets \cup {None}]
      /\ since \in [Exps -> Nat] /\ written \in [Exps -> Envelope \cup {None}]
  BY DEF Init
<1>5. TypeInv
  BY <1>1, <1>2, <1>3, <1>4 DEF Init, TypeInv, TypeOK
<1>6. StoreInv
  BY DEF Init, StoreInv, SnapshotBookmark
<1> QED  BY <1>5, <1>6

\* Snapshots are true for any experiments, topic, retention and faults: the
\* bookmark of each is the last reward in its posterior, and the one that is
\* loaded is the one written last.
THEOREM SnapshotsTrue == Spec => []SnapshotsAreTrue
<1>1. TypeInv /\ StoreInv => SnapshotsAreTrue
  <2> SUFFICES ASSUME TypeInv, StoreInv PROVE SnapshotsAreTrue
    OBVIOUS
  <2>1. TypeOK /\ SnapshotBookmark
    BY DEF TypeInv, StoreInv
  <2>2. LatestIsLastWritten
    BY <2>1, LoadsLastWritten DEF LatestIsLastWritten
  <2> QED  BY <2>1, <2>2 DEF SnapshotsAreTrue
<1> QED  BY <1>1, InitType, NextType, NextStore, PTL DEF Spec

-----------------------------------------------------------------------------
(* Offsets.                                                                *)

\* The types of what OrderInv and DeliveryInv compare.
OffsetTypes ==
    /\ TopicLen \in Nat /\ RewardDepth \in Nat \ {0} /\ None \notin Offsets
    /\ Offsets \subseteq Int
    /\ committed \in Int /\ position \in Int /\ faults \in Nat
    /\ inHand \in Offsets \cup {None}
    /\ rewards \in Seq(Offsets) /\ Len(rewards) \in Nat
    /\ \A i \in 1 .. Len(rewards) : rewards[i] \in Offsets
    /\ sent \subseteq Offsets /\ dropped \subseteq Offsets

LEMMA OffsetsTyped == TypeInv => OffsetTypes
<1> SUFFICES ASSUME TypeInv PROVE OffsetTypes
  OBVIOUS
<1>1. /\ committed \in 1 .. TopicLen + 1 /\ position \in 1 .. TopicLen + 1 /\ faults \in 0 .. MaxFaults
      /\ inHand \in Offsets \cup {None} /\ rewards \in Seq(Offsets)
      /\ sent \subseteq Offsets /\ dropped \subseteq Offsets
  BY DEF TypeInv, TypeOK
<1>2. /\ TopicLen \in Nat /\ RewardDepth \in Nat \ {0} /\ MaxFaults \in Nat /\ None \notin Offsets
  BY PolicyAssumption
<1>3. Len(rewards) \in Nat /\ \A i \in 1 .. Len(rewards) : rewards[i] \in Offsets
  BY <1>1, ElementOfSeq
<1>4. committed \in Int /\ position \in Int /\ faults \in Nat /\ Offsets \subseteq Int
  BY <1>1, <1>2 DEF Offsets
<1> QED  BY <1>1, <1>2, <1>3, <1>4 DEF OffsetTypes

\* The channel after its head was taken.
LEMMA TailOrder ==
    ASSUME TypeInv, OrderInv, rewards # <<>>, rewards' = Tail(rewards),
           UNCHANGED <<committed, position, inHand, sent>>
    PROVE  /\ OrderInv'
           /\ \A i \in 1 .. Len(rewards') : Head(rewards) < rewards'[i]
           /\ \A i \in 1 .. Len(rewards') : \E j \in 1 .. Len(rewards) : rewards'[i] = rewards[j]
<1>1. OffsetTypes
  BY OffsetsTyped
<1>2. rewards \in Seq(Offsets)
  BY <1>1 DEF OffsetTypes
<1>3. /\ Head(rewards) = rewards[1]
      /\ Len(rewards) \in Nat /\ Len(rewards') = Len(rewards) - 1 /\ Len(rewards) # 0
      /\ \A i \in 1 .. Len(rewards') : rewards'[i] = rewards[i + 1]
  BY <1>2, HeadTailProperties, EmptySeq
<1>4. ASSUME NEW i \in 1 .. Len(rewards')
      PROVE  i + 1 \in 1 .. Len(rewards) /\ 1 < i + 1 /\ 1 \in 1 .. Len(rewards)
  BY <1>3
<1>5. \A i \in 1 .. Len(rewards') : Head(rewards) < rewards'[i]
  BY <1>3, <1>4 DEF OrderInv
<1>6. \A i \in 1 .. Len(rewards') : \E j \in 1 .. Len(rewards) : rewards'[i] = rewards[j]
  BY <1>3, <1>4
<1>7. \A i, j \in 1 .. Len(rewards') : i < j => rewards'[i] < rewards'[j]
  <2>1. ASSUME NEW i \in 1 .. Len(rewards'), NEW j \in 1 .. Len(rewards'), i < j
        PROVE  i + 1 < j + 1
    BY <1>3, <2>1
  <2> QED  BY <1>3, <1>4, <2>1 DEF OrderInv
<1>8. Len(rewards') <= RewardDepth
  BY <1>1, <1>3 DEF OrderInv, OffsetTypes
<1> QED  BY <1>5, <1>6, <1>7, <1>8 DEF OrderInv

\* An empty channel is in order.
LEMMA EmptyOrder ==
    ASSUME TypeInv, OrderInv, rewards' = <<>>, UNCHANGED <<committed, position, inHand, sent>>
    PROVE  OrderInv'
<1>1. Len(rewards') = 0
  BY EmptySeq
<1>2. 0 <= RewardDepth
  BY PolicyAssumption
<1> QED  BY <1>1, <1>2 DEF OrderInv

\* Order and delivery, for a step of the consumer.
LEMMA ConsumeOrder ==
    ASSUME TypeInv, OrderInv, DeliveryInv, Consume
    PROVE  OrderInv' /\ DeliveryInv' /\ sent \subseteq sent'
<1>0. OffsetTypes
  BY OffsetsTyped
<1>1. UNCHANGED <<topic, core>>
  BY DEF Consume, CommitOffsets, Receive, SendReward, SendFails, kafka
<1>2. CASE CommitOffsets
  <2>1. UNCHANGED <<position, consumer, inHand, sent, dropped, rewards>> /\ consumer = "run" /\ inHand = None
    BY <1>2 DEF CommitOffsets, AtLoopHead
  <2>2. committed' = position \/ committed' = committed
    BY <1>2 DEF CommitOffsets
  <2>3. faults' = faults \/ faults' = faults + 1
    BY <1>2 DEF CommitOffsets, Fault
  <2>4. faults > 0 => faults' > 0
    BY <1>0, <2>3 DEF OffsetTypes
  <2>5. OrderInv'
    BY <1>0, <2>1, <2>2 DEF OrderInv, OffsetTypes
  <2>6. \A n \in Offsets : topic[n].kind = "nan" => position <= n /\ committed' <= n
    BY <2>1, <2>2 DEF DeliveryInv
  <2>7. DeliveryInv'
    BY <1>1, <2>1, <2>4, <2>6 DEF DeliveryInv, IsReward
  <2> QED  BY <2>1, <2>5, <2>7
<1>3. CASE Receive
  <2>1. /\ UNCHANGED <<committed, sent, dropped, rewards, faults>> /\ consumer = "run" /\ inHand = None
        /\ position' = position + 1 /\ position <= TopicLen
    BY <1>3 DEF Receive, kafka, AtLoopHead
  <2>2. \/ topic[position].kind = "junk" /\ UNCHANGED <<consumer, inHand>>
        \/ topic[position].kind = "nan" /\ consumer' = "dead" /\ UNCHANGED inHand
        \/ topic[position].kind \in {"good", "bad"} /\ inHand' = position /\ UNCHANGED consumer
    BY <1>3 DEF Receive, Skips
  <2>3. OrderInv'
    <3>1. inHand' = None \/ inHand' = position
      BY <2>1, <2>2
    <3>2. ASSUME NEW i \in 1 .. Len(rewards) PROVE rewards[i] < position + 1
      <4>1. rewards[i] \in Int /\ position \in Int /\ rewards[i] < position
        BY <1>0 DEF OrderInv, OffsetTypes
      <4> QED  BY <4>1
    <3>3. committed <= position + 1 /\ position < position + 1
      BY <1>0 DEF OrderInv, OffsetTypes
    <3> QED  BY <2>1, <3>1, <3>2, <3>3 DEF OrderInv
  <2>4. \A o \in Offsets : o < position' /\ IsReward(o)' /\ o # inHand' => o \in sent' \cup dropped'
    <3>1. ASSUME NEW o \in Offsets, o < position', IsReward(o)', o # inHand'
          PROVE  o \in sent \cup dropped
      <4>1. IsReward(o) /\ o \in Int /\ o # None
        BY <1>0, <1>1, <3>1 DEF IsReward, OffsetTypes
      <4>2. o < position \/ o = position
        BY <1>0, <2>1, <3>1, <4>1 DEF OffsetTypes
      <4>3. o # position
        BY <2>2, <3>1, <4>1 DEF IsReward
      <4> QED  BY <2>1, <4>1, <4>2, <4>3 DEF DeliveryInv
    <3> QED  BY <2>1, <3>1
  <2>5. ASSUME NEW n \in Offsets, topic[n].kind = "nan"
        PROVE  position' <= n \/ (position' = n + 1 /\ consumer' = "dead")
    <3>1. position <= n
      BY <2>1, <2>5 DEF DeliveryInv
    <3>2. CASE position = n
      BY <2>1, <2>2, <2>5, <3>2
    <3>3. CASE position # n
      BY <1>0, <2>1, <3>1, <3>3 DEF OffsetTypes
    <3> QED  BY <3>2, <3>3
  <2>6. DeliveryInv'
    BY <1>1, <2>1, <2>4, <2>5 DEF DeliveryInv, IsReward
  <2> QED  BY <2>1, <2>3, <2>6
<1>4. CASE SendReward
  <2>1. /\ UNCHANGED <<committed, position, consumer, dropped, faults>> /\ consumer = "run"
        /\ inHand' = None /\ inHand \in Offsets /\ inHand # None /\ sent' = sent \cup {inHand}
        /\ rewards' = Append(rewards, inHand) /\ Len(rewards) < RewardDepth
    BY <1>0, <1>4 DEF SendReward, kafka, Enqueue, HasRoom, OffsetTypes
  <2>2. /\ Len(rewards') = Len(rewards) + 1 /\ Len(rewards) \in Nat
        /\ rewards'[Len(rewards) + 1] = inHand /\ \A i \in 1 .. Len(rewards) : rewards'[i] = rewards[i]
    BY <1>0, <2>1 DEF OffsetTypes
  <2>3. inHand < position /\ committed <= inHand /\ \A i \in 1 .. Len(rewards) : rewards[i] < inHand
    BY <2>1 DEF OrderInv
  <2>4. \A i \in 1 .. Len(rewards') : i \in 1 .. Len(rewards) \/ i = Len(rewards) + 1
    BY <2>2
  <2>5. \A i \in 1 .. Len(rewards') : rewards'[i] < position' /\ rewards'[i] \in sent'
    BY <2>1, <2>2, <2>3, <2>4 DEF OrderInv
  <2>6. ASSUME NEW i \in 1 .. Len(rewards'), NEW j \in 1 .. Len(rewards'), i < j
        PROVE  rewards'[i] < rewards'[j]
    <3>1. i \in 1 .. Len(rewards)
      BY <2>2, <2>4, <2>6
    <3>2. CASE j \in 1 .. Len(rewards)
      BY <2>2, <2>6, <3>1, <3>2 DEF OrderInv
    <3>3. CASE j = Len(rewards) + 1
      BY <2>2, <2>3, <3>1, <3>3
    <3> QED  BY <2>4, <3>2, <3>3
  <2>7. Len(rewards') <= RewardDepth
    BY <1>0, <2>1, <2>2 DEF OffsetTypes
  <2>8. OrderInv'
    BY <2>1, <2>5, <2>6, <2>7 DEF OrderInv
  <2>9. ASSUME NEW n \in Offsets, topic[n].kind = "nan"
        PROVE  \A o \in sent' : o < n
    <3>1. position <= n
      BY <2>1, <2>9 DEF DeliveryInv
    <3>2. inHand < n
      BY <1>0, <2>1, <2>3, <3>1 DEF OffsetTypes
    <3> QED  BY <2>1, <2>9, <3>2 DEF DeliveryInv
  <2>10. \A o \in Offsets : o < position' /\ IsReward(o)' /\ o # inHand' => o \in sent' \cup dropped'
    BY <1>1, <2>1 DEF DeliveryInv, IsReward
  <2>11. DeliveryInv'
    BY <1>1, <2>1, <2>9, <2>10 DEF DeliveryInv, IsReward
  <2> QED  BY <2>1, <2>8, <2>11
<1>5. CASE SendFails
  <2>1. /\ UNCHANGED <<position, sent, rewards, faults>> /\ consumer = "run" /\ core = "dead"
        /\ inHand' = None /\ inHand \in Offsets /\ inHand # None /\ dropped' = dropped \cup {inHand}
        /\ committed' = position \/ committed' = committed
    BY <1>0, <1>5 DEF SendFails, OffsetTypes
  <2>2. OrderInv'
    BY <1>0, <2>1 DEF OrderInv, OffsetTypes
  <2>3. \A n \in Offsets : topic[n].kind = "nan" => position <= n /\ committed' <= n
    BY <2>1 DEF DeliveryInv
  <2>4. \A o \in Offsets : o < position' /\ IsReward(o)' /\ o # inHand' => o \in sent' \cup dropped'
    BY <1>1, <2>1 DEF DeliveryInv, IsReward
  <2>5. DeliveryInv'
    BY <1>1, <2>1, <2>3, <2>4 DEF DeliveryInv, IsReward
  <2> QED  BY <2>1, <2>2, <2>5
<1> QED  BY <1>2, <1>3, <1>4, <1>5 DEF Consume

LEMMA NextOrder == TypeInv /\ StoreInv /\ OrderInv /\ DeliveryInv /\ [Next]_vars
                     => OrderInv' /\ DeliveryInv' /\ sent \subseteq sent'
<1> SUFFICES ASSUME TypeInv, StoreInv, OrderInv, DeliveryInv, [Next]_vars
             PROVE  OrderInv' /\ DeliveryInv' /\ sent \subseteq sent'
  OBVIOUS
<1>0. OffsetTypes
  BY OffsetsTyped
<1>1. ASSUME UNCHANGED <<topic, committed, position, consumer, inHand, sent, dropped>>,
             core' = core \/ core' = "dead", faults <= faults', faults' \in Int
      PROVE  DeliveryInv' /\ sent \subseteq sent'
  <2>1. faults > 0 => faults' > 0
    BY <1>0, <1>1 DEF OffsetTypes
  <2> QED  BY <1>1, <2>1 DEF DeliveryInv, IsReward
<1>2. CASE HandleRewardUpdate
  <2> DEFINE o == Head(rewards)
             e == topic[o].exp
  <2> HIDE DEF o, e
  <2>1. /\ o \in Offsets /\ e \in Exps /\ rewards # <<>>
        /\ UNCHANGED <<topic, committed, position, consumer, inHand, sent, dropped, clock>>
        /\ \/ /\ rewards' = Tail(rewards)
              /\ UNCHANGED <<core, faults>>
           \/ /\ core' = "dead" /\ rewards' = <<>>
              /\ UNCHANGED faults
           \/ Learn(o, e)
    BY <1>2, RewardEffect DEF o, e
  <2>2. rewards' = Tail(rewards) \/ rewards' = <<>>
    BY <2>1 DEF Learn
  <2>3. OrderInv'
    BY <2>1, <2>2, TailOrder, EmptyOrder
  <2>4. core' = core \/ core' = "dead"
    BY <2>1 DEF Learn
  <2>5. faults <= faults' /\ faults' \in Int
    <3>1. CASE Learn(o, e)
      BY <2>1, <3>1, LearnStore, PolicyAssumption
    <3>2. CASE UNCHANGED faults
      BY <1>0, <3>2 DEF OffsetTypes
    <3> QED  BY <2>1, <3>1, <3>2
  <2> QED  BY <1>1, <2>1, <2>3, <2>4, <2>5
<1>3. CASE Serve
  <2>1. /\ UNCHANGED <<topic, committed, position, consumer, inHand, sent, dropped, faults>>
        /\ rewards' = rewards \/ rewards' = <<>>
        /\ core' = core \/ core' = "dead"
    BY <1>3, ServeEffect
  <2>2. OrderInv'
    <3>1. CASE rewards' = rewards
      BY <2>1, <3>1 DEF OrderInv
    <3> QED  BY <2>1, <3>1, EmptyOrder
  <2>3. faults <= faults' /\ faults' \in Int
    BY <1>0, <2>1 DEF OffsetTypes
  <2> QED  BY <1>1, <2>1, <2>2, <2>3
<1>4. CASE Restart \/ RestartUnreadable
  <2>1. /\ UNCHANGED <<topic, committed, sent, dropped>> /\ faults' = faults + 1
        /\ inHand' = None /\ position' = committed /\ rewards' = <<>>
    BY <1>4, RestartEffect
  <2>2. Len(rewards') = 0 /\ 0 <= RewardDepth /\ faults' > 0 /\ committed <= committed
    BY <1>0, <2>1, EmptySeq DEF OffsetTypes
  <2>3. OrderInv'
    BY <2>1, <2>2 DEF OrderInv
  <2>4. ASSUME NEW o \in Offsets, o < committed, IsReward(o)
        PROVE  o \in sent \cup dropped
    <3>1. o < position /\ o # inHand
      BY <1>0, <2>4 DEF OrderInv, OffsetTypes
    <3> QED  BY <2>4, <3>1 DEF DeliveryInv
  <2>5. DeliveryInv'
    BY <2>1, <2>2, <2>4 DEF DeliveryInv, IsReward
  <2> QED  BY <2>1, <2>3, <2>5
<1>5. ASSUME UNCHANGED <<topic, committed, position, consumer, inHand, sent, dropped, core, faults, rewards>>
      PROVE  OrderInv' /\ DeliveryInv' /\ sent \subseteq sent'
  BY <1>5 DEF OrderInv, DeliveryInv, IsReward
<1>6. CASE Tick \/ (\E c \in Commands : Request(c)) \/ UNCHANGED vars
  <2>1. UNCHANGED <<topic, committed, position, consumer, inHand, sent, dropped, core, faults, rewards>>
    BY <1>6 DEF Tick, Request, vars, kafka, task
  <2> QED  BY <1>5, <2>1
<1> QED  BY <1>2, <1>3, <1>4, <1>6, ConsumeOrder DEF Next

-----------------------------------------------------------------------------
(* Posteriors.                                                             *)

\* How often a reward is in a posterior, before and after another one.
LEMMA CountOf ==
    ASSUME NEW p \in Seq(Offsets), NEW o \in Offsets, NEW x \in Offsets
    PROVE  /\ Count(p, x) \in Nat
           /\ Count(Append(p, o), x) = IF x = o THEN Count(p, x) + 1 ELSE Count(p, x)
<1> DEFINE n == Len(p)
           S == {i \in 1 .. n : p[i] = x}
           T == {i \in 1 .. n + 1 : Append(p, o)[i] = x}
<1>1. /\ n \in Nat /\ Len(Append(p, o)) = n + 1 /\ Append(p, o)[n + 1] = o
      /\ \A i \in 1 .. n : Append(p, o)[i] = p[i]
  OBVIOUS
<1>2. IsFiniteSet(1 .. n)
  BY <1>1, FS_Interval
<1>3. IsFiniteSet(S) /\ Cardinality(S) \in Nat
  BY <1>2, FS_Subset, FS_CardinalityType
<1>4. Count(p, x) = Cardinality(S) /\ Count(Append(p, o), x) = Cardinality(T)
  BY <1>1 DEF Count
<1>5. \A i : i \in 1 .. n + 1 <=> i \in 1 .. n \/ i = n + 1
  BY <1>1
<1>6. n + 1 \notin S
  BY <1>1
<1>7. CASE x = o
  <2>1. T = S \cup {n + 1}
    BY <1>1, <1>5, <1>7
  <2>2. Cardinality(T) = Cardinality(S) + 1
    <3> HIDE DEF S, T, n
    <3> QED  BY <1>3, <1>6, <2>1, FS_AddElement
  <2> QED  BY <1>3, <1>4, <1>7, <2>2
<1>8. CASE x # o
  <2>1. T = S
    BY <1>1, <1>5, <1>8
  <2> QED  BY <1>3, <1>4, <1>8, <2>1
<1> QED  BY <1>7, <1>8

LEMMA CountEmpty == \A x : Count(<<>>, x) = 0
<1> SUFFICES ASSUME NEW x PROVE Count(<<>>, x) = 0
  OBVIOUS
<1>1. {i \in 1 .. Len(<<>>) : <<>>[i] = x} = {}
  <2>1. Len(<<>>) = 0
    BY EmptySeq
  <2> QED  BY <2>1
<1> QED  BY <1>1, FS_EmptySet, Zenon DEF Count

LEMMA PosteriorTypes ==
    ASSUME TypeInv
    PROVE  \A p \in Posteriors : p \in Seq(Offsets) /\ Len(p) \in Nat
<1>1. \A e \in Exps : policies[e] \in Seq(Offsets) \cup {None}
  BY DEF TypeInv, TypeOK
<1>2. \A s \in snaps : s.applied \in Seq(Offsets)
  BY DEF TypeInv, TypeOK, Envelope
<1>3. \A p \in Posteriors : p \in Seq(Offsets)
  BY <1>1, <1>2 DEF Posteriors
<1> QED  BY <1>3

\* A step that makes no posterior but the empty one, and nothing pending
\* unless the process starts anew.
LEMMA PosteriorKeeps ==
    ASSUME TypeInv, PosteriorInv, Posteriors' \subseteq Posteriors \cup {<<>>},
           sent \subseteq sent', faults' \in Nat, faults <= faults',
           \A o \in Offsets : Pending(o)' => Pending(o) \/ faults' = faults + 1
    PROVE  PosteriorInv'
<1>0. ASSUME NEW n \in Nat PROVE 0 <= 1 + n /\ 0 <= n
  OBVIOUS
<1>1. ASSUME NEW p \in Posteriors', NEW o \in Offsets
      PROVE  Count(p, o) <= 1 + faults' /\ (Pending(o)' => Count(p, o) <= faults')
  <2>0. faults \in Nat
    BY PolicyAssumption DEF TypeInv, TypeOK
  <2>1. CASE p = <<>>
    <3>1. Count(p, o) = 0
      BY <2>1, CountEmpty
    <3>2. 0 <= 1 + faults' /\ 0 <= faults'
      BY <1>0, Zenon
    <3>3. Count(p, o) <= 1 + faults' /\ Count(p, o) <= faults'
      BY <3>1, <3>2, Zenon
    <3> QED  BY <3>3
  <2>2. CASE p \in Posteriors
    <3>1. Count(p, o) <= 1 + faults /\ (Pending(o) => Count(p, o) <= faults)
      BY <2>2 DEF PosteriorInv
    <3>2. Count(p, o) \in Nat
      BY <2>2, PosteriorTypes, CountOf
    <3>3. Count(p, o) <= 1 + faults'
      BY <2>0, <3>1, <3>2
    <3>4. Pending(o)' => Count(p, o) <= faults'
      BY <2>0, <3>1, <3>2
    <3> QED  BY <3>3, <3>4
  <2> QED  BY <1>1, <2>1, <2>2
<1>2. ASSUME NEW p \in Posteriors' PROVE \A i \in 1 .. Len(p) : p[i] \in sent'
  <2>1. CASE p = <<>>
    <3>1. Len(p) = 0
      BY <2>1, EmptySeq
    <3> QED  BY <3>1
  <2>2. CASE p \in Posteriors
    BY <2>2 DEF PosteriorInv
  <2> QED  BY <1>2, <2>1, <2>2
<1> QED  BY <1>1, <1>2 DEF PosteriorInv

\* A reward is learned: it was pending, and is not any more.
LEMMA LearnPosterior ==
    ASSUME TypeInv, StoreInv, OrderInv, PosteriorInv, rewards # <<>>,
           NEW o \in Offsets, o = Head(rewards), NEW e \in Exps, Learn(o, e),
           UNCHANGED <<committed, position, inHand, sent, clock>>
    PROVE  PosteriorInv'
<1> DEFINE q == Append(policies[e], o)
<1>0. OffsetTypes
  BY OffsetsTyped
<1>1. policies[e] \in Posteriors /\ policies[e] \in Seq(Offsets)
  <2>1. policies[e] \in Posteriors
    BY DEF Learn, Posteriors
  <2> QED  BY <2>1, PosteriorTypes
<1>2. /\ snaps' \subseteq snaps \cup {MakeEnvelope(e, q, o)}
      /\ MakeEnvelope(e, q, o).applied = q
  <2>1. /\ MakeEnvelope(e, q, o) \in Envelope /\ MakeEnvelope(e, q, o).at = clock
        /\ MakeEnvelope(e, q, o).applied = q
    BY EnvelopeType DEF Learn
  <2>2. CASE UNCHANGED snaps
    BY <2>1, <2>2
  <2>3. CASE TakeSnapshot(MakeEnvelope(e, q, o))
    BY <2>1, <2>3, SnapshotEffect DEF TypeInv
  <2> QED  BY <2>2, <2>3 DEF Learn
<1>3. \A x \in Exps : policies'[x] = policies[x] \/ policies'[x] = q
  BY DEF Learn, TypeInv, TypeOK
<1>4. Posteriors' \subseteq Posteriors \cup {q}
  BY <1>2, <1>3 DEF Posteriors
<1>5. faults \in Nat /\ faults' \in Nat /\ faults <= faults'
  BY LearnStore, PolicyAssumption DEF TypeInv, TypeOK
<1>6. /\ rewards' = Tail(rewards)
      /\ \A i \in 1 .. Len(rewards') : o < rewards'[i]
      /\ \A i \in 1 .. Len(rewards') : \E j \in 1 .. Len(rewards) : rewards'[i] = rewards[j]
  BY TailOrder DEF Learn
<1>7. 1 \in 1 .. Len(rewards) /\ rewards[1] = o
  <2>1. rewards \in Seq(Offsets)
    BY <1>0 DEF OffsetTypes
  <2>2. Len(rewards) \in Nat /\ Len(rewards) # 0 /\ rewards[1] = o
    BY <2>1, HeadTailProperties, EmptySeq
  <2> QED  BY <2>2
<1>8. Pending(o)
  BY <1>7 DEF Pending
<1>9. ~Pending(o)'
  <2>1. o < position /\ (inHand # None => o < inHand) /\ o \in Int /\ position \in Int /\ o # None
    BY <1>0, <1>7 DEF OrderInv, OffsetTypes
  <2>2. ~(o >= position) /\ o # inHand
    BY <1>0, <2>1 DEF OffsetTypes
  <2>3. \A i \in 1 .. Len(rewards') : rewards'[i] # o
    <3>1. o \in Int
      BY <2>1
    <3> QED  BY <1>6, <3>1
  <2> QED  BY <2>2, <2>3 DEF Pending
<1>10. \A x \in Offsets : Pending(x)' => Pending(x)
  BY <1>6 DEF Pending
<1>11. o \in sent
  BY <1>7 DEF OrderInv
<1>12. ASSUME NEW p \in Posteriors, NEW x \in Offsets
       PROVE  Count(p, x) \in Nat /\ Count(p, x) <= 1 + faults /\ (Pending(x) => Count(p, x) <= faults)
  BY PosteriorTypes, CountOf DEF PosteriorInv
<1>13. ASSUME NEW p \in Posteriors', NEW x \in Offsets
       PROVE  Count(p, x) <= 1 + faults' /\ (Pending(x)' => Count(p, x) <= faults')
  <2>1. CASE p \in Posteriors
    BY <1>5, <1>10, <1>12, <2>1
  <2>2. CASE p = q
    <3>1. Count(q, x) = IF x = o THEN Count(policies[e], x) + 1 ELSE Count(policies[e], x)
      BY <1>1, CountOf
    <3>2. /\ Count(policies[e], x) \in Nat /\ Count(policies[e], x) <= 1 + faults
          /\ Pending(x) => Count(policies[e], x) <= faults
      BY <1>1, <1>12
    <3> HIDE DEF q
    <3>3. CASE x = o
      <4>1. Count(q, x) <= 1 + faults'
        BY <1>5, <1>8, <3>1, <3>2, <3>3
      <4> QED  BY <1>9, <2>2, <3>3, <4>1
    <3>4. CASE x # o
      BY <1>5, <1>10, <2>2, <3>1, <3>2, <3>4
    <3> QED  BY <3>3, <3>4
  <2> HIDE DEF q
  <2> QED  BY <1>4, <1>13, <2>1, <2>2
<1>14. ASSUME NEW p \in Posteriors' PROVE \A i \in 1 .. Len(p) : p[i] \in sent'
  <2>1. CASE p \in Posteriors
    BY <2>1 DEF PosteriorInv
  <2>2. CASE p = q
    <3>1. /\ Len(q) = Len(policies[e]) + 1 /\ Len(policies[e]) \in Nat /\ q[Len(policies[e]) + 1] = o
          /\ \A i \in 1 .. Len(policies[e]) : q[i] = policies[e][i]
      BY <1>1
    <3>2. \A i \in 1 .. Len(q) : i \in 1 .. Len(policies[e]) \/ i = Len(policies[e]) + 1
      BY <3>1
    <3>3. \A i \in 1 .. Len(policies[e]) : policies[e][i] \in sent
      BY <1>1 DEF PosteriorInv
    <3> HIDE DEF q
    <3> QED  BY <1>11, <2>2, <3>1, <3>2, <3>3
  <2> QED  BY <1>4, <1>14, <2>1, <2>2
<1> QED  BY <1>13, <1>14 DEF PosteriorInv

LEMMA NextPosterior == TypeInv /\ StoreInv /\ OrderInv /\ DeliveryInv /\ PosteriorInv /\ [Next]_vars
                         => PosteriorInv'
<1> SUFFICES ASSUME TypeInv, StoreInv, OrderInv, DeliveryInv, PosteriorInv, [Next]_vars
             PROVE  PosteriorInv'
  OBVIOUS
<1>0. OffsetTypes /\ sent \subseteq sent' /\ faults \in Nat
  BY OffsetsTyped, NextOrder DEF OffsetTypes
<1>1. \A e \in Exps : written[e] # None => written[e].applied \in Posteriors
  BY DEF StoreInv, Posteriors
<1>2. CASE Consume
  <2>1. UNCHANGED <<policies, snaps>>
    BY <1>2 DEF Consume, CommitOffsets, Receive, SendReward, SendFails, learning, store
  <2>2. Posteriors' \subseteq Posteriors
    BY <2>1 DEF Posteriors
  <2>3. faults' \in Nat /\ faults <= faults'
    BY <1>0, <1>2 DEF Consume, CommitOffsets, Receive, SendReward, SendFails, Fault
  <2>4. ASSUME NEW o \in Offsets, Pending(o)' PROVE Pending(o)
    <3>1. CASE CommitOffsets \/ SendFails
      <4>1. UNCHANGED <<position, rewards>> /\ (inHand' = inHand \/ inHand' = None)
        BY <3>1 DEF CommitOffsets, SendFails
      <4> QED  BY <1>0, <2>4, <4>1 DEF Pending, OffsetTypes
    <3>2. CASE Receive
      <4>1. UNCHANGED rewards /\ position' = position + 1 /\ (inHand' = inHand \/ inHand' = position)
        BY <3>2 DEF Receive
      <4>2. o \in Int /\ position \in Int
        BY <1>0 DEF OffsetTypes
      <4>3. o >= position' => o >= position
        BY <4>1, <4>2
      <4>4. o = position => o >= position
        BY <4>2
      <4> QED  BY <2>4, <4>1, <4>3, <4>4 DEF Pending
    <3>3. CASE SendReward
      <4>1. UNCHANGED position /\ inHand' = None /\ rewards' = Append(rewards, inHand) /\ inHand \in Offsets
        BY <1>0, <3>3 DEF SendReward, Enqueue, OffsetTypes
      <4>2. /\ Len(rewards') = Len(rewards) + 1 /\ Len(rewards) \in Nat
            /\ rewards'[Len(rewards) + 1] = inHand /\ \A i \in 1 .. Len(rewards) : rewards'[i] = rewards[i]
        BY <1>0, <4>1 DEF OffsetTypes
      <4>3. \A i \in 1 .. Len(rewards') : i \in 1 .. Len(rewards) \/ i = Len(rewards) + 1
        BY <4>2
      <4> QED  BY <1>0, <2>4, <4>1, <4>2, <4>3 DEF Pending, OffsetTypes
    <3> QED  BY <1>2, <3>1, <3>2, <3>3 DEF Consume
  <2> QED  BY <1>0, <2>2, <2>3, <2>4, PosteriorKeeps
<1>3. CASE HandleRewardUpdate
  <2> DEFINE o == Head(rewards)
             e == topic[o].exp
  <2> HIDE DEF o, e
  <2>1. /\ o \in Offsets /\ e \in Exps /\ rewards # <<>> /\ o = Head(rewards)
        /\ UNCHANGED <<committed, position, inHand, sent, clock>>
        /\ \/ /\ rewards' = Tail(rewards)
              /\ UNCHANGED <<policies, snaps, faults>>
           \/ /\ rewards' = <<>>
              /\ UNCHANGED <<policies, snaps, faults>>
           \/ Learn(o, e)
    BY <1>3, RewardEffect DEF o, e
  <2>2. CASE Learn(o, e)
    BY <2>1, <2>2, LearnPosterior
  <2>3. CASE (rewards' = Tail(rewards) \/ rewards' = <<>>) /\ UNCHANGED <<policies, snaps, faults>>
    <3>1. Posteriors' \subseteq Posteriors
      BY <2>3 DEF Posteriors
    <3>2. \A i \in 1 .. Len(rewards') : \E j \in 1 .. Len(rewards) : rewards'[i] = rewards[j]
      <4>1. CASE rewards' = Tail(rewards)
        BY <2>1, <4>1, TailOrder
      <4>2. CASE rewards' = <<>>
        <5>1. Len(rewards') = 0
          BY <4>2, EmptySeq
        <5> QED  BY <5>1
      <4> QED  BY <2>3, <4>1, <4>2
    <3>3. \A x \in Offsets : Pending(x)' => Pending(x)
      BY <2>1, <3>2 DEF Pending
    <3>4. faults' \in Nat /\ faults <= faults'
      BY <1>0, <2>3
    <3> QED  BY <1>0, <3>1, <3>3, <3>4, PosteriorKeeps
  <2> QED  BY <2>1, <2>2, <2>3
<1>4. CASE Serve
  <2>1. /\ UNCHANGED <<position, inHand, snaps, written, faults>>
        /\ rewards' = rewards \/ rewards' = <<>>
        /\ \A e \in Exps :
             \/ policies'[e] = policies[e]
             \/ policies[e] = None /\ policies'[e] = <<>>
             \/ written[e] # None /\ policies'[e] = written[e].applied
    BY <1>4, ServeEffect
  <2>2. Posteriors' \subseteq Posteriors \cup {<<>>}
    BY <1>1, <2>1 DEF Posteriors
  <2>3. \A x \in Offsets : Pending(x)' => Pending(x)
    <3>1. CASE rewards' = rewards
      BY <2>1, <3>1 DEF Pending
    <3>2. CASE rewards' = <<>>
      <4>1. Len(rewards') = 0
        BY <3>2, EmptySeq
      <4>2. ~ \E i \in 1 .. Len(rewards') : TRUE
        BY <4>1
      <4> QED  BY <2>1, <4>2 DEF Pending
    <3> QED  BY <2>1, <3>1, <3>2
  <2>4. faults' \in Nat /\ faults <= faults'
    BY <1>0, <2>1
  <2> QED  BY <1>0, <2>2, <2>3, <2>4, PosteriorKeeps
<1>5. CASE Restart \/ RestartUnreadable
  <2>1. /\ faults' = faults + 1 /\ UNCHANGED snaps
        /\ \A e \in Exps : policies'[e] # None => written[e] # None /\ policies'[e] = written[e].applied
    BY <1>5, RestartEffect
  <2>2. Posteriors' \subseteq Posteriors
    BY <1>1, <2>1 DEF Posteriors
  <2>3. faults' \in Nat /\ faults <= faults'
    BY <1>0, <2>1
  <2> QED  BY <1>0, <2>1, <2>2, <2>3, PosteriorKeeps
<1>6. CASE Tick \/ (\E c \in Commands : Request(c)) \/ UNCHANGED vars
  <2>1. UNCHANGED <<policies, snaps, position, inHand, rewards, faults, sent>>
    BY <1>6 DEF Tick, Request, vars, task, learning, store
  <2> QED  BY <2>1 DEF PosteriorInv, Posteriors, Pending
<1> QED  BY <1>2, <1>3, <1>4, <1>5, <1>6 DEF Next

LEMMA InitDelivery == Init => OrderInv /\ DeliveryInv /\ PosteriorInv
<1> SUFFICES ASSUME Init PROVE OrderInv /\ DeliveryInv /\ PosteriorInv
  OBVIOUS
<1>1. Len(rewards) = 0 /\ 0 <= RewardDepth
  BY EmptySeq, PolicyAssumption DEF Init
<1>2. OrderInv
  BY <1>1 DEF Init, OrderInv
<1>3. \A o \in Offsets : o \in Int /\ 1 <= o
  BY PolicyAssumption DEF Offsets
<1>4. \A o \in Offsets : ~(o < 1)
  BY <1>3
<1>5. DeliveryInv
  BY <1>3, <1>4 DEF Init, DeliveryInv
<1>6. Posteriors = {}
  BY DEF Init, Posteriors
<1> QED  BY <1>2, <1>5, <1>6 DEF PosteriorInv

\* Offsets follow the rewards, for any topic, any channel depth and any
\* faults: no offset is committed that the core was not sent, none passes a
\* NaN, and a posterior holds a reward once more only for each restart.
THEOREM RewardsDelivered == Spec => []RewardsAreDelivered
<1>1. TypeInv /\ OrderInv /\ DeliveryInv /\ PosteriorInv => RewardsAreDelivered
  <2> SUFFICES ASSUME TypeInv, OrderInv, DeliveryInv, PosteriorInv PROVE RewardsAreDelivered
    OBVIOUS
  <2>0. OffsetTypes
    BY OffsetsTyped
  <2>1. CommittedWereSent
    <3>1. ASSUME NEW o \in Offsets, o < committed, IsReward(o) PROVE o \in sent \cup dropped
      <4>1. o < position /\ o # inHand
        BY <2>0, <3>1 DEF OrderInv, OffsetTypes
      <4> QED  BY <3>1, <4>1 DEF DeliveryInv
    <3>2. dropped # {} => core = "dead" \/ faults > 0
      BY DEF DeliveryInv
    <3> QED  BY <3>1, <3>2 DEF CommittedWereSent, IsReward
  <2>2. \A e \in Exps : policies[e] # None => policies[e] \in Posteriors
    BY DEF Posteriors
  <2>3. PoisonIsNeverPassed
    BY <2>2 DEF PoisonIsNeverPassed, DeliveryInv, PosteriorInv
  <2>4. RedeliveryIsBounded
    BY <2>2 DEF RedeliveryIsBounded, PosteriorInv
  <2> QED  BY <2>1, <2>3, <2>4 DEF RewardsAreDelivered
<1> QED  BY <1>1, InitType, InitDelivery, NextType, NextStore, NextOrder, NextPosterior, PTL DEF Spec

-----------------------------------------------------------------------------
(* What a restart loses.                                                   *)

LEMMA NotNone == \A p \in Seq(Offsets) : p # None
  BY NoneAssumption

\* A posterior and what the store has of it.
LEMMA BaseType ==
    ASSUME TypeInv, NEW e \in Exps
    PROVE  /\ Base(e) \in Seq(Offsets) /\ Len(Base(e)) \in Nat /\ since[e] \in Nat
           /\ policies[e] # None => policies[e] \in Seq(Offsets) /\ Len(policies[e]) \in Nat
<1>1. written[e] \in Envelope \cup {None} /\ policies[e] \in Seq(Offsets) \cup {None} /\ since[e] \in Nat
  BY DEF TypeInv, TypeOK
<1>2. written[e] # None => written[e].applied \in Seq(Offsets)
  BY <1>1 DEF Envelope
<1>3. Base(e) \in Seq(Offsets)
  BY <1>2, EmptySeq DEF Base
<1>4. policies[e] # None => policies[e] \in Seq(Offsets)
  BY <1>1
<1> QED  BY <1>1, <1>3, <1>4

LEMMA AheadItself ==
    ASSUME NEW p \in Seq(Offsets), NEW n \in Nat
    PROVE  Ahead(p, p, n)
<1>1. Len(p) \in Nat
  OBVIOUS
<1>2. Len(p) <= Len(p) /\ Len(p) <= Len(p) + n
  BY <1>1
<1> QED  BY <1>2 DEF Ahead

\* The lag, when a reward is learned.
LEMMA LearnLag ==
    ASSUME TypeInv, StoreInv, LagInv, NEW o \in Offsets, NEW e \in Exps, Learn(o, e), UNCHANGED clock
    PROVE  LagInv'
<1> DEFINE q   == Append(policies[e], o)
           env == MakeEnvelope(e, q, o)
<1>0. /\ since \in [Exps -> Nat] /\ policies \in [Exps -> Seq(Offsets) \cup {None}]
      /\ written \in [Exps -> Envelope \cup {None}] /\ faults \in Nat /\ SnapshotInterval \in Nat \ {0}
  BY PolicyAssumption DEF TypeInv, TypeOK
<1>1. /\ env \in Envelope /\ env.exp = e /\ env.at = clock /\ env.applied = q /\ q \in Seq(Offsets)
      /\ Len(q) = Len(policies[e]) + 1 /\ Len(policies[e]) \in Nat
      /\ \A i \in 1 .. Len(policies[e]) : q[i] = policies[e][i]
  BY EnvelopeType DEF Learn
<1>2. policies'[e] = q /\ \A x \in Exps : x # e => policies'[x] = policies[x]
  BY <1>0 DEF Learn
<1>3. policies[e] # None /\ q # None
  BY <1>1, NotNone DEF Learn
<1>4. \/ /\ since[e] + 1 < SnapshotInterval
         /\ since' = [since EXCEPT ![e] = since[e] + 1]
         /\ UNCHANGED <<snaps, written, faults>>
      \/ /\ since' = [since EXCEPT ![e] = 0]
         /\ TakeSnapshot(env)
  BY DEF Learn
<1> HIDE DEF q, env
<1>5. CASE /\ since[e] + 1 < SnapshotInterval
           /\ since' = [since EXCEPT ![e] = since[e] + 1]
           /\ UNCHANGED <<snaps, written, faults>>
  <2>1. since'[e] = since[e] + 1 /\ \A x \in Exps : x # e => since'[x] = since[x]
    BY <1>0, <1>5
  <2>2. \A x \in Exps : since'[x] < SnapshotInterval
    BY <1>5, <2>1 DEF LagInv
  <2>3. ASSUME faults' = 0, NEW x \in Exps
        PROVE  IF policies'[x] = None THEN written'[x] = None ELSE Ahead(policies'[x], Base(x)', since'[x])
    <3>1. Base(x)' = Base(x) /\ faults = 0
      BY <1>5, <2>3 DEF Base
    <3>2. CASE x # e
      BY <1>2, <1>5, <2>1, <3>1, <3>2 DEF LagInv
    <3>3. CASE x = e
      <4>1. Ahead(policies[e], Base(e), since[e])
        BY <1>3, <3>1 DEF LagInv
      <4>2. Len(Base(e)) \in Nat /\ since[e] \in Nat
        BY BaseType
      <4>3. Len(Base(e)) <= Len(q) /\ Len(q) <= Len(Base(e)) + (since[e] + 1)
        BY <1>1, <4>1, <4>2 DEF Ahead
      <4>4. \A i \in 1 .. Len(Base(e)) : i \in 1 .. Len(policies[e])
        BY <1>1, <4>1, <4>2 DEF Ahead
      <4>5. \A i \in 1 .. Len(Base(e)) : q[i] = Base(e)[i]
        BY <1>1, <4>1, <4>4 DEF Ahead
      <4>6. Ahead(q, Base(e), since[e] + 1)
        BY <4>3, <4>5 DEF Ahead
      <4> QED  BY <1>2, <1>3, <2>1, <3>1, <3>3, <4>6
    <3> QED  BY <3>2, <3>3
  <2> QED  BY <2>2, <2>3 DEF LagInv
<1>6. CASE since' = [since EXCEPT ![e] = 0] /\ TakeSnapshot(env)
  <2>1. since'[e] = 0 /\ \A x \in Exps : x # e => since'[x] = since[x]
    BY <1>0, <1>6
  <2>2. \A x \in Exps : since'[x] < SnapshotInterval
    BY <1>0, <2>1 DEF LagInv
  <2>3. ASSUME faults' = 0, NEW x \in Exps
        PROVE  IF policies'[x] = None THEN written'[x] = None ELSE Ahead(policies'[x], Base(x)', since'[x])
    <3>1. \/ Fault /\ UNCHANGED <<snaps, written>>
          \/ written' = [written EXCEPT ![env.exp] = env] /\ UNCHANGED faults
      BY <1>1, <1>6, SnapshotEffect DEF TypeInv
    <3>2. ~Fault
      BY <1>0, <2>3 DEF Fault
    <3>3. /\ written'[e] = env /\ \A y \in Exps : y # e => written'[y] = written[y]
          /\ faults = 0
      BY <1>0, <1>1, <2>3, <3>1, <3>2
    <3>4. CASE x # e
      <4>1. Base(x)' = Base(x)
        BY <3>3, <3>4 DEF Base
      <4> QED  BY <1>2, <2>1, <3>3, <3>4, <4>1 DEF LagInv
    <3>5. CASE x = e
      <4>1. Base(e)' = q
        BY <1>1, <3>3, NoneAssumption DEF Base
      <4>2. Ahead(q, q, 0)
        BY <1>1, AheadItself
      <4> QED  BY <1>2, <1>3, <2>1, <3>5, <4>1, <4>2
    <3> QED  BY <3>4, <3>5
  <2> QED  BY <2>2, <2>3 DEF LagInv
<1> QED  BY <1>4, <1>5, <1>6

LEMMA NextLag == TypeInv /\ StoreInv /\ LagInv /\ [Next]_vars => LagInv'
<1> SUFFICES ASSUME TypeInv, StoreInv, LagInv, [Next]_vars PROVE LagInv'
  OBVIOUS
<1>0. faults \in Nat
  BY PolicyAssumption DEF TypeInv, TypeOK
<1>1. ASSUME UNCHANGED <<policies, since, written>>, faults' = 0 => faults = 0
      PROVE  LagInv'
  BY <1>1 DEF LagInv, Base
<1>2. CASE Consume
  <2>1. UNCHANGED <<policies, since, written>>
    BY <1>2 DEF Consume, CommitOffsets, Receive, SendReward, SendFails, learning, store
  <2>2. faults' = 0 => faults = 0
    BY <1>0, <1>2 DEF Consume, CommitOffsets, Receive, SendReward, SendFails, Fault
  <2> QED  BY <1>1, <2>1, <2>2
<1>3. CASE HandleRewardUpdate
  <2> DEFINE o == Head(rewards)
             e == topic[o].exp
  <2> HIDE DEF o, e
  <2>1. /\ o \in Offsets /\ e \in Exps /\ UNCHANGED clock
        /\ UNCHANGED <<policies, since, written, faults>> \/ Learn(o, e)
    BY <1>3, RewardEffect DEF o, e
  <2> QED  BY <1>1, <2>1, LearnLag
<1>4. CASE Serve
  <2>1. /\ UNCHANGED <<since, written, faults>>
        /\ \A e \in Exps :
             \/ policies'[e] = policies[e]
             \/ policies[e] = None /\ policies'[e] = <<>>
             \/ written[e] # None /\ policies'[e] = written[e].applied
    BY <1>4, ServeEffect
  <2>2. ASSUME faults = 0, NEW e \in Exps
        PROVE  IF policies'[e] = None THEN written[e] = None ELSE Ahead(policies'[e], Base(e), since[e])
    <3>0. Base(e) \in Seq(Offsets) /\ since[e] \in Nat
      BY BaseType
    <3>1. IF policies[e] = None THEN written[e] = None ELSE Ahead(policies[e], Base(e), since[e])
      BY <2>2 DEF LagInv
    <3>2. CASE policies'[e] = policies[e]
      BY <3>1, <3>2
    <3>3. CASE policies'[e] = Base(e)
      BY <3>0, <3>3, AheadItself, NotNone
    <3>4. policies[e] = None => Base(e) = <<>>
      BY <3>1 DEF Base
    <3>5. written[e] # None => Base(e) = written[e].applied
      BY DEF Base
    <3> QED  BY <2>1, <3>2, <3>3, <3>4, <3>5
  <2>3. \A e \in Exps : Base(e)' = Base(e)
    BY <2>1 DEF Base
  <2> QED  BY <2>1, <2>2, <2>3 DEF LagInv
<1>5. CASE Restart \/ RestartUnreadable
  <2>1. faults' = faults + 1 /\ since' = [e \in Exps |-> 0]
    BY <1>5, RestartEffect
  <2>2. faults' # 0 /\ 0 < SnapshotInterval
    BY <1>0, <2>1, PolicyAssumption
  <2> QED  BY <2>1, <2>2 DEF LagInv
<1>6. CASE Tick \/ (\E c \in Commands : Request(c)) \/ UNCHANGED vars
  <2>1. UNCHANGED <<policies, since, written, faults>>
    BY <1>6 DEF Tick, Request, vars, learning, store
  <2> QED  BY <1>1, <2>1
<1> QED  BY <1>2, <1>3, <1>4, <1>5, <1>6 DEF Next

\* The values of a function on a finite set are no more than its arguments.
LEMMA ImageBound ==
    ASSUME NEW f, NEW S, IsFiniteSet(S)
    PROVE  /\ IsFiniteSet({f[i] : i \in S}) /\ Cardinality({f[i] : i \in S}) <= Cardinality(S)
<1> DEFINE T == {f[i] : i \in S}
           g == [i \in S |-> f[i]]
<1>1. g \in Surjection(S, T)
  BY DEF Surjection
<1> HIDE DEF g, T
<1>2. IsFiniteSet(T) /\ Cardinality(T) <= Cardinality(S)
  BY <1>1, FS_Surjection
<1> QED  BY <1>2 DEF T

LEMMA CountPositive ==
    ASSUME NEW p \in Seq(Offsets), NEW o \in Offsets
    PROVE  Count(p, o) > 0 <=> \E i \in 1 .. Len(p) : p[i] = o
<1> DEFINE S == {i \in 1 .. Len(p) : p[i] = o}
<1>1. IsFiniteSet(1 .. Len(p))
  <2>1. Len(p) \in Nat
    OBVIOUS
  <2> QED  BY <2>1, FS_Interval
<1>2. IsFiniteSet(S)
  BY <1>1, FS_Subset
<1>3. Cardinality(S) \in Nat /\ (Cardinality(S) = 0 <=> S = {})
  <2> HIDE DEF S
  <2> QED  BY <1>2, FS_EmptySet, FS_CardinalityType
<1>4. S # {} <=> \E i \in 1 .. Len(p) : p[i] = o
  OBVIOUS
<1>5. Count(p, o) = Cardinality(S)
  BY DEF Count
<1> HIDE DEF S
<1>6. Cardinality(S) > 0 <=> S # {}
  BY <1>3
<1> QED  BY <1>4, <1>5, <1>6

\* A restart loses what is in the channel, and what was learned since the
\* last snapshot, of an experiment that has one.
LEMMA RestartLoses ==
    ASSUME TypeInv, StoreInv, OrderInv, LagInv, Restart, faults = 0, NEW e \in Exps, policies[e] # None,
           Stored(e)
    PROVE  Cardinality(Kept(e) \ Kept(e)') <= SnapshotInterval - 1 + RewardDepth
<1> DEFINE p == policies[e]
           b == Base(e)
           A == {rewards[i] : i \in 1 .. Len(rewards)}
           B == {p[i] : i \in Len(b) + 1 .. Len(p)}
           D == Kept(e) \ Kept(e)'
<1>1. /\ p \in Seq(Offsets) /\ b \in Seq(Offsets) /\ Len(p) \in Nat /\ Len(b) \in Nat /\ since[e] \in Nat
  BY BaseType
<1>2. Ahead(p, b, since[e]) /\ since[e] < SnapshotInterval
  BY DEF LagInv
<1>3. /\ UNCHANGED <<topic, committed>>
      /\ policies'[e] = written[e].applied /\ policies'[e] # None
  <2>1. written[e] # None
    BY LoadsLastWritten DEF Stored, TypeInv
  <2>2. written[e].applied \in Seq(Offsets)
    BY <2>1 DEF TypeInv, TypeOK, Envelope
  <2> QED  BY <2>1, <2>2, RestartEffect, NotNone
<1>4. Len(rewards) \in Nat /\ Len(rewards) <= RewardDepth /\ RewardDepth \in Nat /\ SnapshotInterval \in Nat
  BY OffsetsTyped, PolicyAssumption DEF OrderInv, OffsetTypes
<1>5. b # <<>> => policies'[e] = b
  <2>1. b # <<>> => b = written[e].applied
    BY DEF Base
  <2> QED  BY <1>3, <2>1
<1>6. ASSUME NEW o \in D PROVE o \in A \cup B
  <2>1. /\ o \in Offsets /\ topic[o].exp = e /\ topic[o].kind = "good"
        /\ o >= committed \/ o \in InChannel(e) \/ Count(p, o) > 0
    BY <1>6 DEF Kept
  <2>2. /\ ~(o >= committed')
        /\ ~(Count(policies'[e], o) > 0)
    BY <1>3, <1>6, <2>1 DEF Kept, Count
  <2>3. CASE o \in InChannel(e)
    BY <2>3 DEF InChannel
  <2>4. CASE Count(p, o) > 0
    <3>1. PICK i \in 1 .. Len(p) : p[i] = o
      BY <1>1, <2>1, <2>4, CountPositive
    <3>2. CASE i \in 1 .. Len(b)
      <4>1. b[i] = o
        BY <1>2, <3>1, <3>2 DEF Ahead
      <4>2. Count(b, o) > 0
        BY <1>1, <2>1, <3>2, <4>1, CountPositive
      <4>3. b # <<>>
        <5>1. Len(b) # 0
          BY <1>1, <3>2
        <5> QED  BY <5>1, EmptySeq
      <4> QED  BY <1>5, <2>2, <4>2, <4>3
    <3>3. CASE i \notin 1 .. Len(b)
      <4>1. i \in Len(b) + 1 .. Len(p)
        BY <1>1, <3>1, <3>3
      <4> QED  BY <3>1, <4>1
    <3> QED  BY <3>2, <3>3
  <2> QED  BY <1>3, <2>1, <2>2, <2>3, <2>4
<1>7. /\ IsFiniteSet(1 .. Len(rewards)) /\ Cardinality(1 .. Len(rewards)) = Len(rewards)
  <2>0. 1 \in Int /\ Len(rewards) \in Int
    BY <1>4
  <2>1. /\ IsFiniteSet(1 .. Len(rewards))
        /\ Cardinality(1 .. Len(rewards)) = IF 1 > Len(rewards) THEN 0 ELSE Len(rewards) - 1 + 1
    BY <2>0, FS_Interval, Zenon
  <2> QED  BY <1>4, <2>1
<1>8. IsFiniteSet(A) /\ Cardinality(A) <= Len(rewards)
  BY <1>7, ImageBound
<1>9. IsFiniteSet(Len(b) + 1 .. Len(p)) /\ Cardinality(Len(b) + 1 .. Len(p)) <= since[e]
  <2>1. /\ Len(b) + 1 \in Int /\ Len(p) \in Int /\ Len(p) - (Len(b) + 1) + 1 <= since[e] /\ 0 <= since[e]
    BY <1>1, <1>2 DEF Ahead
  <2>2. /\ IsFiniteSet(Len(b) + 1 .. Len(p))
        /\ Cardinality(Len(b) + 1 .. Len(p)) = IF Len(b) + 1 > Len(p) THEN 0 ELSE Len(p) - (Len(b) + 1) + 1
    BY <2>1, FS_Interval
  <2> QED  BY <2>1, <2>2
<1>10. IsFiniteSet(B) /\ Cardinality(B) <= Cardinality(Len(b) + 1 .. Len(p))
  BY <1>9, ImageBound
<1> HIDE DEF A, B, D, p, b
<1>11. /\ Cardinality(A) \in Nat /\ Cardinality(B) \in Nat /\ Cardinality(A \cap B) \in Nat
       /\ Cardinality(Len(b) + 1 .. Len(p)) \in Nat
  <2>1. IsFiniteSet(A \cap B)
    BY <1>8, FS_Intersection
  <2> QED  BY <1>8, <1>9, <1>10, <2>1, FS_CardinalityType
<1>12. IsFiniteSet(A \cup B) /\ Cardinality(A \cup B) = Cardinality(A) + Cardinality(B) - Cardinality(A \cap B)
  BY <1>8, <1>10, FS_Union
<1>13. Cardinality(D) <= Cardinality(A \cup B) /\ Cardinality(D) \in Nat
  <2>1. D \in SUBSET (A \cup B)
    BY <1>6
  <2> QED  BY <1>12, <2>1, FS_Subset, FS_CardinalityType
<1>14. Cardinality(D) <= SnapshotInterval - 1 + RewardDepth
  BY <1>1, <1>2, <1>4, <1>8, <1>9, <1>10, <1>11, <1>12, <1>13
<1> QED  BY <1>14 DEF D

\* An experiment without a snapshot has learned less than an interval, and
\* the restarted core does not know it.
LEMMA RestartForgets ==
    ASSUME TypeInv, StoreInv, LagInv, Restart, faults = 0, NEW e \in Exps, policies[e] # None,
           ~Stored(e)
    PROVE  Len(policies[e]) < SnapshotInterval /\ policies'[e] = None /\ Kept(e)' = {}
<1>1. written[e] = None
  BY LoadsLastWritten DEF Stored, TypeInv
<1>2. policies'[e] = None
  BY <1>1, RestartEffect
<1>3. Ahead(policies[e], <<>>, since[e]) /\ since[e] < SnapshotInterval
  BY <1>1 DEF LagInv, Base
<1>4. Len(policies[e]) \in Nat /\ since[e] \in Nat /\ SnapshotInterval \in Nat
  BY BaseType, PolicyAssumption
<1>5. Len(policies[e]) <= since[e]
  <2>1. Len(<<>>) = 0
    OBVIOUS
  <2> QED  BY <1>3, <1>4, <2>1 DEF Ahead
<1> QED  BY <1>2, <1>3, <1>4, <1>5 DEF Kept

\* What a restart of a service that nothing has failed before loses, for any
\* interval and depth: at most what an interval and the channel hold, of an
\* experiment with a snapshot; all of an experiment without, which had learned
\* less than an interval.
THEOREM RestartLossBounded == Spec => RestartLossIsBounded
<1>1. Init => LagInv
  <2>1. 0 < SnapshotInterval
    BY PolicyAssumption
  <2> QED  BY <2>1 DEF Init, LagInv
<1>2. TypeInv /\ StoreInv /\ OrderInv /\ LagInv /\ [Next]_vars =>
        [\A e \in Exps : Restart /\ faults = 0 /\ policies[e] # None =>
           IF Stored(e)
           THEN Cardinality(Kept(e) \ Kept(e)') <= SnapshotInterval - 1 + RewardDepth
           ELSE Len(policies[e]) < SnapshotInterval /\ policies'[e] = None /\ Kept(e)' = {}]_vars
  BY RestartLoses, RestartForgets
<1> QED  BY <1>1, <1>2, InitType, InitDelivery, NextType, NextStore, NextOrder, NextLag, PTL
         DEF Spec, RestartLossIsBounded
=============================================================================
