------------------------- MODULE ConfigStreamProofs -------------------------
(***************************************************************************)
(* NothingMissed for any number of experiments and clients, any buffer     *)
(* size and any mix of failures.  Together with TypeOK it is inductive:    *)
(* the type of wire says that a deletion names no experiment, so that      *)
(* applying one takes nothing out of the cache.                            *)
(***************************************************************************)
EXTENDS ConfigStream, TLAPS

IndInv == TypeOK /\ NothingMissed

\* What a queue holds after an element joins it.
LEMMA AppendElements ==
    ASSUME NEW S, NEW q \in Seq(S), NEW x \in S
    PROVE  /\ Append(q, x) \in Seq(S)
           /\ Len(Append(q, x)) = Len(q) + 1
           /\ Elements(q) \cup {x} \subseteq Elements(Append(q, x))
<1>1. Append(q, x) \in Seq(S) /\ Len(Append(q, x)) = Len(q) + 1
  OBVIOUS
<1>2. x \in Elements(Append(q, x))
  <2>1. Len(q) + 1 \in DOMAIN Append(q, x) /\ Append(q, x)[Len(q) + 1] = x
    OBVIOUS
  <2> QED  BY <2>1 DEF Elements
<1>3. ASSUME NEW i \in DOMAIN q
      PROVE  q[i] \in Elements(Append(q, x))
  <2>1. i \in DOMAIN Append(q, x) /\ Append(q, x)[i] = q[i]
    OBVIOUS
  <2> QED  BY <2>1 DEF Elements
<1> QED  BY <1>1, <1>2, <1>3 DEF Elements

\* What a queue holds before its head leaves it.
LEMMA TailElements ==
    ASSUME NEW S, NEW q \in Seq(S), q # <<>>
    PROVE  /\ Head(q) \in S
           /\ Tail(q) \in Seq(S)
           /\ Len(Tail(q)) = Len(q) - 1
           /\ Elements(q) \subseteq {Head(q)} \cup Elements(Tail(q))
<1>1. Head(q) \in S /\ Tail(q) \in Seq(S) /\ Len(Tail(q)) = Len(q) - 1
  OBVIOUS
<1>2. ASSUME NEW i \in DOMAIN q
      PROVE  q[i] \in {Head(q)} \cup Elements(Tail(q))
  <2>1. CASE i = 1
    BY <2>1
  <2>2. CASE i # 1
    <3>1. i - 1 \in DOMAIN Tail(q) /\ Tail(q)[i - 1] = q[i]
      BY <2>2
    <3> QED  BY <3>1 DEF Elements
  <2> QED  BY <2>1, <2>2
<1> QED  BY <1>1, <1>2 DEF Elements

\* The empty queue holds nothing.
LEMMA EmptyElements == Elements(<<>>) = {}
  BY DEF Elements

\* The initial state: nobody is connected.
LEMMA InitInv == Init => IndInv
<1> SUFFICES ASSUME Init PROVE IndInv
  OBVIOUS
<1> USE DEF Init
<1>1. TypeOK
  <2>0. paused \in [Exps -> BOOLEAN] /\ listening \in BOOLEAN
    OBVIOUS
  <2>1. /\ db \in [Exps -> States]
        /\ pauses \in 0 .. MaxPauses /\ pending \in [Notices -> 0 .. MaxPending]
        /\ faults \in 0 .. MaxFaults
        /\ backoff \in [Clients -> InitialBackoff .. MaxBackoff]
    BY StreamAssumption DEF States
  <2>2. /\ channel \in Seq(Notices) /\ phase \in [Clients -> Phases]
        /\ buf \in [Clients -> Seq(Notices)] /\ wire \in [Clients -> Seq(Updates)]
        /\ snap \in [Clients -> SUBSET Exps] /\ cache \in [Clients -> SUBSET Exps]
        /\ lost \in [Clients -> SUBSET Notices]
    BY DEF Phases
  <2>3. \A c \in Clients : Len(buf[c]) <= BufferSize
    BY StreamAssumption
  <2> QED  BY <2>0, <2>1, <2>2, <2>3 DEF TypeOK
<1>2. NothingMissed
  BY DEF NothingMissed
<1> QED  BY <1>1, <1>2 DEF IndInv

\* Adding one to, or taking one from, an entry of a table of counters.
LEMMA Counters ==
    ASSUME NEW S, NEW M \in Nat, NEW f \in [S -> 0 .. M], NEW k \in S, NEW g
    PROVE  /\ (f[k] < M /\ g = [f EXCEPT ![k] = @ + 1]) =>
                 /\ g \in [S -> 0 .. M] /\ g[k] > 0
                 /\ \A n \in S : f[n] > 0 => g[n] > 0
           /\ (f[k] > 0 /\ g = [f EXCEPT ![k] = @ - 1]) =>
                 /\ g \in [S -> 0 .. M]
                 /\ \A n \in S \ {k} : f[n] > 0 => g[n] > 0
  OBVIOUS

\* A handler's commit keeps the types of what it touches.
LEMMA CommitsType ==
    ASSUME TypeOK, NEW e \in Exps, NEW op \in Ops, Commits(e, op)
    PROVE  /\ pending' \in [Notices -> 0 .. MaxPending]
           /\ pending'[<<e, op>>] > 0
           /\ \A n \in Notices : pending[n] > 0 => pending'[n] > 0
<1>1. <<e, op>> \in Notices
  BY DEF Notices
<1>2. MaxPending \in Nat /\ pending \in [Notices -> 0 .. MaxPending]
  BY StreamAssumption DEF TypeOK
<1> HIDE DEF Notices
<1> QED  BY <1>1, <1>2, Counters DEF Commits

\* StartExperiment commits, and its notification is pending.
LEMMA StartInv ==
    ASSUME IndInv, NEW e \in Exps, StartExperiment(e)
    PROVE  IndInv'
<1> USE DEF IndInv
<1>1. /\ pending' \in [Notices -> 0 .. MaxPending]
      /\ pending'[<<e, "upsert">>] > 0
      /\ \A n \in Notices : pending[n] > 0 => pending'[n] > 0
  BY CommitsType DEF StartExperiment, Ops
<1>2. TypeOK'
  BY <1>1 DEF TypeOK, StartExperiment, Commits, States, server
<1>3. NothingMissed'
  BY <1>1 DEF NothingMissed, InFlight, StartExperiment, Commits, server,
              TypeOK, Notices, Ops
<1> QED  BY <1>2, <1>3

\* A pause or resume only adds a notification.
LEMMA PauseInv ==
    ASSUME IndInv, NEW e \in Exps, NEW p \in BOOLEAN, PauseOrResume(e, p)
    PROVE  IndInv'
<1> USE DEF IndInv
<1>1. /\ pending' \in [Notices -> 0 .. MaxPending]
      /\ \A n \in Notices : pending[n] > 0 => pending'[n] > 0
  BY CommitsType DEF PauseOrResume, Ops
<1>2. TypeOK'
  BY <1>1, StreamAssumption DEF TypeOK, PauseOrResume, Commits, server
<1>3. NothingMissed'
  BY <1>1 DEF NothingMissed, InFlight, PauseOrResume, Commits, server,
              TypeOK, Notices, Ops
<1> QED  BY <1>2, <1>3

\* An experiment that ends is no longer owed to anybody.
LEMMA EndInv ==
    ASSUME IndInv, NEW e \in Exps, NEW from \in States,
           NEW to \in States \ {"RUNNING"}, EndExperiment(e, from, to)
    PROVE  IndInv'
<1> USE DEF IndInv
<1>1. /\ pending' \in [Notices -> 0 .. MaxPending]
      /\ \A n \in Notices : pending[n] > 0 => pending'[n] > 0
  BY CommitsType DEF EndExperiment, Ops
<1>2. TypeOK'
  BY <1>1 DEF TypeOK, EndExperiment, Commits, server
<1>3. NothingMissed'
  BY <1>1 DEF NothingMissed, InFlight, EndExperiment, Commits, server,
              TypeOK, Notices, Ops
<1> QED  BY <1>2, <1>3

\* CONCLUDING tells nobody, and nobody is owed it.
LEMMA BeginConcludeInv ==
    ASSUME IndInv, NEW e \in Exps, BeginConclude(e)
    PROVE  IndInv'
<1> USE DEF IndInv
<1>1. TypeOK'
  BY DEF TypeOK, BeginConclude, States, server
<1>2. NothingMissed'
  BY DEF NothingMissed, InFlight, BeginConclude, server, TypeOK
<1> QED  BY <1>1, <1>2

\* A notification leaves the pending ones for the channel, or is lost.
LEMMA SendsType ==
    ASSUME TypeOK, NEW e \in Exps, NEW op \in Ops, Sends(e, op)
    PROVE  /\ <<e, op>> \in Notices
           /\ pending' \in [Notices -> 0 .. MaxPending]
           /\ \A n \in Notices \ {<<e, op>>} : pending[n] > 0 => pending'[n] > 0
<1>1. <<e, op>> \in Notices
  BY DEF Notices
<1>2. MaxPending \in Nat /\ pending \in [Notices -> 0 .. MaxPending]
  BY StreamAssumption DEF TypeOK
<1> QED  BY <1>1, <1>2, Counters DEF Sends

\* Losing notices only adds to what clients are known to miss.
LEMMA LosesType ==
    ASSUME TypeOK, NEW C \in SUBSET Clients, NEW N \in SUBSET Notices, Loses(C, N)
    PROVE  /\ lost' \in [Clients -> SUBSET Notices]
           /\ \A c \in Clients : lost[c] \subseteq lost'[c]
           /\ \A c \in C : N \subseteq lost'[c]
  BY DEF TypeOK, Loses

\* A notification nobody is sent is a loss for every client.
LEMMA AllLose ==
    ASSUME TypeOK, NEW n \in Notices, Loses(Clients, {n})
    PROVE  /\ lost' \in [Clients -> SUBSET Notices]
           /\ \A c \in Clients : lost[c] \cup {n} \subseteq lost'[c]
<1>1. {n} \in SUBSET Notices /\ Clients \in SUBSET Clients
  OBVIOUS
<1>2. /\ lost' \in [Clients -> SUBSET Notices]
      /\ \A c \in Clients : lost[c] \subseteq lost'[c] /\ {n} \subseteq lost'[c]
  BY <1>1, LosesType
<1> QED  BY <1>2

\* pg_notify moves the notification to the listener's queue, if there is one.
LEMMA PublishInv ==
    ASSUME IndInv, NEW e \in Exps, NEW op \in Ops, Publish(e, op)
    PROVE  IndInv'
<1> USE DEF IndInv
<1>0. Sends(e, op)
  BY DEF Publish
<1>1. /\ <<e, op>> \in Notices
      /\ pending' \in [Notices -> 0 .. MaxPending]
      /\ \A n \in Notices \ {<<e, op>>} : pending[n] > 0 => pending'[n] > 0
  BY <1>0, SendsType
<1>2. CASE listening
  <2>1. channel' = Append(channel, <<e, op>>) /\ lost' = lost /\ faults' = faults
    BY <1>2 DEF Publish
  <2>2. channel' \in Seq(Notices)
        /\ Elements(channel) \cup {<<e, op>>} \subseteq Elements(channel')
    BY <1>1, <2>1, AppendElements DEF TypeOK
  <2>3. TypeOK'
    BY <1>0, <1>1, <2>1, <2>2 DEF TypeOK, Sends, server, handler
  <2>4. NothingMissed'
    BY <1>0, <1>1, <2>1, <2>2
       DEF NothingMissed, InFlight, Sends, server, handler, Notices, Ops
  <2> QED  BY <2>3, <2>4
<1>3. CASE ~listening
  <2>1. Loses(Clients, {<<e, op>>}) /\ channel' = channel /\ faults' = faults
    BY <1>3 DEF Publish
  <2>2. /\ lost' \in [Clients -> SUBSET Notices]
        /\ \A c \in Clients : lost[c] \cup {<<e, op>>} \subseteq lost'[c]
    BY <1>1, <2>1, AllLose
  <2>3. TypeOK'
    BY <1>0, <1>1, <2>1, <2>2 DEF TypeOK, Sends, server, handler
  <2>4. NothingMissed'
    BY <1>0, <1>1, <2>1, <2>2
       DEF NothingMissed, InFlight, Sends, server, handler, Notices, Ops
  <2> QED  BY <2>3, <2>4
<1> QED  BY <1>2, <1>3

\* One more failure, within the bound.
LEMMA FaultType ==
    ASSUME TypeOK, NEW kind, Fault(kind)
    PROVE  faults' \in 0 .. MaxFaults
  BY StreamAssumption DEF TypeOK, Fault

\* A failed Publish is a loss for every client.
LEMMA PublishFailsInv ==
    ASSUME IndInv, NEW e \in Exps, NEW op \in Ops, PublishFails(e, op)
    PROVE  IndInv'
<1> USE DEF IndInv
<1>0. /\ Sends(e, op) /\ Loses(Clients, {<<e, op>>}) /\ channel' = channel
      /\ faults' \in 0 .. MaxFaults
  BY FaultType DEF PublishFails
<1>1. /\ <<e, op>> \in Notices
      /\ pending' \in [Notices -> 0 .. MaxPending]
      /\ \A n \in Notices \ {<<e, op>>} : pending[n] > 0 => pending'[n] > 0
  BY <1>0, SendsType
<1>2. /\ lost' \in [Clients -> SUBSET Notices]
      /\ \A c \in Clients : lost[c] \cup {<<e, op>>} \subseteq lost'[c]
  BY <1>0, <1>1, AllLose
<1>3. TypeOK'
  BY <1>0, <1>1, <1>2 DEF TypeOK, Sends, server, handler
<1>4. NothingMissed'
  BY <1>0, <1>1, <1>2
     DEF NothingMissed, InFlight, Sends, server, handler, Notices, Ops
<1> QED  BY <1>3, <1>4

\* A LISTEN connection delivers nothing by itself.
LEMMA ListenerConnectsInv ==
    ASSUME IndInv, ListenerConnects
    PROVE  IndInv'
<1> USE DEF IndInv
<1>0. /\ listening' \in BOOLEAN
      /\ UNCHANGED <<handler, pending, channel, server, cache, backoff, lost, faults>>
  BY DEF ListenerConnects
<1>1. TypeOK'
  BY <1>0 DEF TypeOK, server, handler
<1>2. NothingMissed'
  BY DEF NothingMissed, InFlight, ListenerConnects, server, handler
<1> QED  BY <1>1, <1>2

\* With the connection, what PostgreSQL had queued for it is gone.
LEMMA ListenerFailsInv ==
    ASSUME IndInv, ListenerFails
    PROVE  IndInv'
<1> USE DEF IndInv
<1>1. Elements(channel) \subseteq Notices
  BY DEF TypeOK, Elements
<1>2. /\ lost' \in [Clients -> SUBSET Notices]
      /\ \A c \in Clients : lost[c] \cup Elements(channel) \subseteq lost'[c]
  BY <1>1, LosesType DEF ListenerFails
<1>3. faults' \in 0 .. MaxFaults
  BY FaultType DEF ListenerFails
<1>4. /\ channel' \in Seq(Notices)
      /\ UNCHANGED <<handler, pending, server, cache, backoff>>
  BY DEF ListenerFails
<1>5. listening' \in BOOLEAN
  BY DEF ListenerFails
<1>6. TypeOK'
  BY <1>2, <1>3, <1>4, <1>5 DEF TypeOK, server, handler
<1>7. NothingMissed'
  BY <1>2 DEF NothingMissed, InFlight, ListenerFails, server, handler
<1> QED  BY <1>6, <1>7

\* fanOut: a subscriber gets the head of the queue or is known to miss it.
LEMMA fanOutInv ==
    ASSUME IndInv, fanOut
    PROVE  IndInv'
<1> USE DEF IndInv
<1>1. /\ Head(channel) \in Notices /\ channel' \in Seq(Notices)
      /\ Elements(channel) \subseteq {Head(channel)} \cup Elements(channel')
  BY TailElements DEF TypeOK, fanOut
<1>2. /\ lost' \in [Clients -> SUBSET Notices]
      /\ \A c \in Clients : lost[c] \subseteq lost'[c]
      /\ \A c \in Full : Head(channel) \in lost'[c]
  <2>1. Full \in SUBSET Clients /\ {Head(channel)} \in SUBSET Notices
    BY <1>1 DEF Full
  <2> QED  BY <2>1, LosesType DEF fanOut
<1>3. ASSUME NEW c \in Clients
      PROVE  /\ buf'[c] \in Seq(Notices) /\ Len(buf'[c]) <= BufferSize
             /\ Elements(buf[c]) \subseteq Elements(buf'[c])
             /\ phase[c] # "down" =>
                  Head(channel) \in Elements(buf'[c]) \/ Head(channel) \in lost'[c]
  <2>1. CASE c \in subscribers \ Full
    <3>1. buf'[c] = Append(buf[c], Head(channel))
      BY <2>1 DEF fanOut
    <3>2. buf[c] \in Seq(Notices) /\ Len(buf[c]) < BufferSize
      BY <2>1, StreamAssumption DEF TypeOK, Full
    <3>3. /\ Append(buf[c], Head(channel)) \in Seq(Notices)
          /\ Len(Append(buf[c], Head(channel))) = Len(buf[c]) + 1
          /\ Elements(buf[c]) \cup {Head(channel)}
               \subseteq Elements(Append(buf[c], Head(channel)))
      BY <1>1, <3>2, AppendElements
    <3> QED  BY <3>1, <3>2, <3>3, StreamAssumption
  <2>2. CASE c \notin subscribers \ Full
    <3>1. buf'[c] = buf[c]
      BY <2>2 DEF fanOut
    <3>2. phase[c] # "down" => c \in Full
      BY <2>2 DEF subscribers
    <3> QED  BY <1>2, <3>1, <3>2 DEF TypeOK
  <2> QED  BY <2>1, <2>2
<1>4. TypeOK'
  <2>1. buf' \in [Clients -> Seq(Notices)]
    BY <1>3 DEF fanOut
  <2> QED  BY <1>1, <1>2, <1>3, <2>1 DEF TypeOK, fanOut, handler
<1>5. NothingMissed'
  <2>1. ASSUME NEW c \in Clients, NEW e \in Exps,
               phase[c] \in {"snapshot", "live"}, db[e] = "RUNNING"
        PROVE  (e \in cache[c] \/ InFlight(c, e) \/ <<e, "upsert">> \in lost[c])'
    BY <1>1, <1>2, <1>3, <2>1 DEF NothingMissed, InFlight, fanOut
  <2> QED  BY <2>1 DEF NothingMissed, fanOut, handler
<1> QED  BY <1>4, <1>5

\* A subscriber that has read nothing is owed nothing yet.
LEMMA SubscribeInv ==
    ASSUME IndInv, NEW c \in Clients, Subscribe(c)
    PROVE  IndInv'
<1> USE DEF IndInv
<1>1. TypeOK'
  BY DEF TypeOK, Subscribe, handler, Phases
<1>2. NothingMissed'
  BY DEF NothingMissed, InFlight, Subscribe, handler, TypeOK
<1> QED  BY <1>1, <1>2

\* The snapshot holds every running experiment.
LEMMA ListRunningInv ==
    ASSUME IndInv, NEW c \in Clients, ListRunning(c)
    PROVE  IndInv'
<1> USE DEF IndInv
<1>1. TypeOK'
  BY DEF TypeOK, ListRunning, handler, Phases
<1>2. NothingMissed'
  BY DEF NothingMissed, InFlight, ListRunning, handler, TypeOK
<1> QED  BY <1>1, <1>2

\* stream.Send keeps what is on the wire and adds the update.
LEMMA SendType ==
    ASSUME TypeOK, NEW c \in Clients, NEW u \in Updates, Send(c, u)
    PROVE  /\ wire' \in [Clients -> Seq(Updates)]
           /\ u \in Elements(wire'[c])
           /\ \A d \in Clients : Elements(wire[d]) \subseteq Elements(wire'[d])
<1>1. wire[c] \in Seq(Updates) /\ wire'[c] = Append(wire[c], u)
  BY DEF TypeOK, Send
<1>2. wire'[c] \in Seq(Updates) /\ Elements(wire[c]) \cup {u} \subseteq Elements(wire'[c])
  BY <1>1, AppendElements
<1> QED  BY <1>2 DEF TypeOK, Send

\* A row of the snapshot moves to the wire.
LEMMA SendSnapshotInv ==
    ASSUME IndInv, NEW c \in Clients, SendSnapshot(c)
    PROVE  IndInv'
<1> USE DEF IndInv
<1>1. CASE snap[c] = {} /\ phase' = [phase EXCEPT ![c] = "live"]
           /\ UNCHANGED <<snap, wire>>
  <2>1. TypeOK'
    BY <1>1 DEF TypeOK, SendSnapshot, handler, Phases
  <2>2. NothingMissed'
    BY <1>1 DEF NothingMissed, InFlight, SendSnapshot, handler, TypeOK
  <2> QED  BY <2>1, <2>2
<1>2. ASSUME NEW x \in snap[c], Send(c, Upsert(x)),
             snap' = [snap EXCEPT ![c] = @ \ {x}], phase' = phase
      PROVE  IndInv'
  <2>1. Upsert(x) \in Updates
    BY <1>2 DEF Updates, TypeOK
  <2>2. /\ wire' \in [Clients -> Seq(Updates)]
        /\ Upsert(x) \in Elements(wire'[c])
        /\ \A d \in Clients : Elements(wire[d]) \subseteq Elements(wire'[d])
    BY <1>2, <2>1, SendType
  <2>3. TypeOK'
    BY <1>2, <2>2 DEF TypeOK, SendSnapshot, handler
  <2>4. NothingMissed'
    BY <1>2, <2>2 DEF NothingMissed, InFlight, SendSnapshot, handler, TypeOK
  <2> QED  BY <2>3, <2>4
<1> QED  BY <1>1, <1>2 DEF SendSnapshot

\* Taking the next notification from a subscriber's channel.
LEMMA NextDeltaType ==
    ASSUME TypeOK, NEW c \in Clients, NextDelta(c)
    PROVE  /\ Head(buf[c]) \in Notices
           /\ buf' \in [Clients -> Seq(Notices)]
           /\ \A d \in Clients : Len(buf'[d]) <= BufferSize
           /\ \A d \in Clients \ {c} : buf'[d] = buf[d]
           /\ Elements(buf[c]) \subseteq {Head(buf[c])} \cup Elements(buf'[c])
<1>1. buf[c] \in Seq(Notices) /\ buf[c] # <<>> /\ buf'[c] = Tail(buf[c])
  BY DEF TypeOK, NextDelta
<1>2. /\ Head(buf[c]) \in Notices /\ buf'[c] \in Seq(Notices)
      /\ Len(buf'[c]) = Len(buf[c]) - 1
      /\ Elements(buf[c]) \subseteq {Head(buf[c])} \cup Elements(buf'[c])
  BY <1>1, TailElements
<1>3. Len(buf[c]) \in Nat /\ Len(buf[c]) <= BufferSize
  BY <1>1 DEF TypeOK
<1> QED  BY <1>2, <1>3, StreamAssumption DEF TypeOK, NextDelta

\* An upsert of a running experiment becomes an update that names it.
LEMMA SendDeltaInv ==
    ASSUME IndInv, NEW c \in Clients, SendDelta(c)
    PROVE  IndInv'
<1> USE DEF IndInv
<1> DEFINE n == Head(buf[c])
           u == buildUpdate(n)
<1>0. NextDelta(c) /\ Send(c, u) /\ lost' = lost /\ faults' = faults
  BY DEF SendDelta
<1>1. /\ n \in Notices
      /\ buf' \in [Clients -> Seq(Notices)]
      /\ \A d \in Clients : Len(buf'[d]) <= BufferSize
      /\ \A d \in Clients \ {c} : buf'[d] = buf[d]
      /\ Elements(buf[c]) \subseteq {n} \cup Elements(buf'[c])
  BY <1>0, NextDeltaType
<1>2. u \in Updates
  BY <1>1 DEF buildUpdate, Updates, Notices
<1>3. \A e \in Exps : n = <<e, "upsert">> /\ db[e] = "RUNNING" => u = Upsert(e)
  BY DEF buildUpdate
<1> HIDE DEF n, u
<1>4. /\ wire' \in [Clients -> Seq(Updates)]
      /\ u \in Elements(wire'[c])
      /\ \A d \in Clients : Elements(wire[d]) \subseteq Elements(wire'[d])
  BY <1>0, <1>2, SendType
<1>5. TypeOK'
  BY <1>0, <1>1, <1>4 DEF TypeOK, NextDelta, handler
<1>6. NothingMissed'
  BY <1>0, <1>1, <1>3, <1>4 DEF NothingMissed, InFlight, NextDelta, handler
<1> QED  BY <1>5, <1>6

\* A read error loses the notification for this client.
LEMMA ReadFailsInv ==
    ASSUME IndInv, NEW c \in Clients, SendDeltaReadFails(c)
    PROVE  IndInv'
<1> USE DEF IndInv
<1> DEFINE n == Head(buf[c])
<1>0. NextDelta(c) /\ Send(c, Deletion) /\ Loses({c}, {n})
      /\ faults' \in 0 .. MaxFaults
  BY FaultType DEF SendDeltaReadFails
<1>1. /\ n \in Notices
      /\ buf' \in [Clients -> Seq(Notices)]
      /\ \A d \in Clients : Len(buf'[d]) <= BufferSize
      /\ \A d \in Clients \ {c} : buf'[d] = buf[d]
      /\ Elements(buf[c]) \subseteq {n} \cup Elements(buf'[c])
  BY <1>0, NextDeltaType
<1>2. Deletion \in Updates
  BY DEF Updates
<1>3. /\ lost' \in [Clients -> SUBSET Notices]
      /\ \A d \in Clients : lost[d] \subseteq lost'[d]
      /\ n \in lost'[c]
  <2>1. {c} \in SUBSET Clients /\ {n} \in SUBSET Notices
    BY <1>1
  <2> HIDE DEF n
  <2> QED  BY <1>0, <2>1, LosesType
<1> HIDE DEF n
<1>4. /\ wire' \in [Clients -> Seq(Updates)]
      /\ \A d \in Clients : Elements(wire[d]) \subseteq Elements(wire'[d])
  BY <1>0, <1>2, SendType
<1>5. TypeOK'
  BY <1>0, <1>1, <1>3, <1>4 DEF TypeOK, NextDelta, handler
<1>6. NothingMissed'
  BY <1>0, <1>1, <1>3, <1>4 DEF NothingMissed, InFlight, NextDelta, handler
<1> QED  BY <1>5, <1>6

\* An update that is applied puts its experiment in the cache; a deletion
\* takes none out.
LEMMA ReceiveInv ==
    ASSUME IndInv, NEW c \in Clients, Receive(c)
    PROVE  IndInv'
<1> USE DEF IndInv
<1> DEFINE u == Head(wire[c])
<1>1. wire[c] \in Seq(Updates) /\ wire[c] # <<>> /\ wire'[c] = Tail(wire[c])
  BY DEF TypeOK, Receive
<1>2. /\ u \in Updates /\ wire'[c] \in Seq(Updates)
      /\ Elements(wire[c]) \subseteq {u} \cup Elements(wire'[c])
  BY <1>1, TailElements
<1>3. /\ cache'[c] \in SUBSET Exps
      /\ cache[c] \subseteq cache'[c]
      /\ \A e \in Exps : u = Upsert(e) => e \in cache'[c]
  <2>1. cache[c] \in SUBSET Exps /\ cache'[c] = apply_update(c, u)
    BY DEF TypeOK, Receive
  <2> HIDE DEF u
  <2>2. CASE u = Deletion
    BY <2>1, <2>2, StreamAssumption DEF apply_update, Deletion, Upsert
  <2>3. ASSUME NEW x \in Exps, u = Upsert(x)
        PROVE  cache'[c] = cache[c] \cup {x} /\ \A e \in Exps : u = Upsert(e) => e = x
    BY <2>1, <2>3 DEF apply_update, Upsert
  <2> QED  BY <1>2, <2>1, <2>2, <2>3 DEF Updates
<1>4. /\ \A d \in Clients \ {c} : cache'[d] = cache[d] /\ wire'[d] = wire[d]
      /\ UNCHANGED <<handler, pending, listening, channel, phase, buf, snap,
                     backoff, lost, faults>>
  BY DEF Receive, TypeOK
<1> HIDE DEF u
<1>5. wire' \in [Clients -> Seq(Updates)] /\ cache' \in [Clients -> SUBSET Exps]
  BY <1>2, <1>3 DEF TypeOK, Receive
<1>6. TypeOK'
  BY <1>4, <1>5 DEF TypeOK, handler
<1>7. NothingMissed'
  BY <1>2, <1>3, <1>4 DEF NothingMissed, InFlight, handler
<1> QED  BY <1>6, <1>7

\* A client whose stream ends is owed nothing until it has read a snapshot.
LEMMA StreamsEndInv ==
    ASSUME NothingMissed, TypeOK, NEW C \in SUBSET Clients, StreamsEnd(C),
           UNCHANGED <<handler, lost>>,
           \A c \in Clients \ C : cache'[c] = cache[c],
           C = Clients \/ UNCHANGED <<pending, channel>>
    PROVE  NothingMissed' /\ phase' \in [Clients -> Phases]
           /\ buf' \in [Clients -> Seq(Notices)]
           /\ (\A c \in Clients : Len(buf'[c]) <= BufferSize)
           /\ snap' \in [Clients -> SUBSET Exps]
           /\ wire' \in [Clients -> Seq(Updates)]
<1>1. \A c \in C : phase'[c] = "down"
  BY DEF StreamsEnd
<1>2. \A c \in Clients \ C : /\ phase'[c] = phase[c] /\ buf'[c] = buf[c]
                             /\ snap'[c] = snap[c] /\ wire'[c] = wire[c]
  BY DEF StreamsEnd
<1>3. NothingMissed'
  <2>1. ASSUME NEW c \in Clients, NEW e \in Exps,
               phase'[c] \in {"snapshot", "live"}, db'[e] = "RUNNING"
        PROVE  (e \in cache[c] \/ InFlight(c, e) \/ <<e, "upsert">> \in lost[c])'
    <3>1. c \in Clients \ C
      BY <1>1, <2>1
    <3>2. phase[c] \in {"snapshot", "live"} /\ db[e] = "RUNNING"
      BY <1>2, <2>1, <3>1 DEF handler
    <3> QED  BY <1>2, <3>1, <3>2 DEF NothingMissed, InFlight
  <2> QED  BY <2>1 DEF NothingMissed
<1>4. \A c \in Clients : Len(buf'[c]) <= BufferSize
  BY StreamAssumption DEF TypeOK, StreamsEnd
<1>5. /\ phase' \in [Clients -> Phases] /\ buf' \in [Clients -> Seq(Notices)]
      /\ snap' \in [Clients -> SUBSET Exps] /\ wire' \in [Clients -> Seq(Updates)]
  BY DEF TypeOK, StreamsEnd, Phases
<1> QED  BY <1>3, <1>4, <1>5

\* Backoff stays between its first and its largest value.
LEMMA BackoffBounds ==
    ASSUME NEW b \in InitialBackoff .. MaxBackoff
    PROVE  NextBackoff(b) \in InitialBackoff .. MaxBackoff
  BY StreamAssumption DEF NextBackoff

\* A broken stream.
LEMMA StreamFailsInv ==
    ASSUME IndInv, NEW c \in Clients, StreamFails(c)
    PROVE  IndInv'
<1> USE DEF IndInv
<1>1. faults' \in 0 .. MaxFaults
  BY FaultType DEF StreamFails
<1>2. backoff' \in [Clients -> InitialBackoff .. MaxBackoff]
  BY BackoffBounds DEF TypeOK, StreamFails
<1>3. StreamsEnd({c}) /\ {c} \in SUBSET Clients
      /\ UNCHANGED <<handler, pending, listening, channel, cache, lost>>
  BY DEF StreamFails
<1>4. NothingMissed' /\ phase' \in [Clients -> Phases]
      /\ buf' \in [Clients -> Seq(Notices)]
      /\ (\A d \in Clients : Len(buf'[d]) <= BufferSize)
      /\ snap' \in [Clients -> SUBSET Exps] /\ wire' \in [Clients -> Seq(Updates)]
  BY <1>3, StreamsEndInv
<1> QED  BY <1>1, <1>2, <1>3, <1>4 DEF TypeOK, handler

\* A restarted M1 has an empty cache and no stream.
LEMMA RestartM1Inv ==
    ASSUME IndInv, NEW c \in Clients, RestartM1(c)
    PROVE  IndInv'
<1> USE DEF IndInv
<1>1. faults' \in 0 .. MaxFaults
  BY FaultType DEF RestartM1
<1>2. /\ backoff' \in [Clients -> InitialBackoff .. MaxBackoff]
      /\ cache' \in [Clients -> SUBSET Exps]
  BY StreamAssumption DEF TypeOK, RestartM1
<1>3. /\ StreamsEnd({c}) /\ {c} \in SUBSET Clients
      /\ UNCHANGED <<handler, pending, listening, channel, lost>>
      /\ \A d \in Clients \ {c} : cache'[d] = cache[d]
  BY DEF RestartM1, TypeOK
<1>4. NothingMissed' /\ phase' \in [Clients -> Phases]
      /\ buf' \in [Clients -> Seq(Notices)]
      /\ (\A d \in Clients : Len(buf'[d]) <= BufferSize)
      /\ snap' \in [Clients -> SUBSET Exps] /\ wire' \in [Clients -> Seq(Updates)]
  BY <1>3, StreamsEndInv
<1> QED  BY <1>1, <1>2, <1>3, <1>4 DEF TypeOK, handler

\* A restarted M5 has no stream left, so the changes it forgot to publish are
\* in every client's next snapshot.
LEMMA RestartM5Inv ==
    ASSUME IndInv, RestartM5
    PROVE  IndInv'
<1> USE DEF IndInv
<1>1. faults' \in 0 .. MaxFaults
  BY FaultType DEF RestartM5
<1>2. backoff' \in [Clients -> InitialBackoff .. MaxBackoff]
  BY BackoffBounds DEF TypeOK, RestartM5
<1>3. /\ StreamsEnd(Clients) /\ Clients \in SUBSET Clients
      /\ UNCHANGED <<handler, cache, lost>>
  BY DEF RestartM5
<1>4. NothingMissed' /\ phase' \in [Clients -> Phases]
      /\ buf' \in [Clients -> Seq(Notices)]
      /\ (\A d \in Clients : Len(buf'[d]) <= BufferSize)
      /\ snap' \in [Clients -> SUBSET Exps] /\ wire' \in [Clients -> Seq(Updates)]
  BY <1>3, StreamsEndInv
<1>5. /\ pending' \in [Notices -> 0 .. MaxPending]
      /\ channel' \in Seq(Notices)
  BY StreamAssumption DEF RestartM5
<1>6. listening' \in BOOLEAN
  BY DEF RestartM5
<1> QED  BY <1>1, <1>2, <1>3, <1>4, <1>5, <1>6 DEF TypeOK, handler

\* Every step of the servers, the callers and the failures.
LEMMA NextInv == IndInv /\ [Next]_vars => IndInv'
<1> SUFFICES ASSUME IndInv, [Next]_vars PROVE IndInv'
  OBVIOUS
<1>1. ASSUME NEW e \in Exps, StartExperiment(e) PROVE IndInv'
  BY <1>1, StartInv
<1>2. ASSUME NEW e \in Exps, NEW p \in BOOLEAN, PauseOrResume(e, p) PROVE IndInv'
  BY <1>2, PauseInv
<1>3. ASSUME NEW e \in Exps, BeginConclude(e) PROVE IndInv'
  BY <1>3, BeginConcludeInv
<1>4. ASSUME NEW e \in Exps, \/ EndExperiment(e, "CONCLUDING", "CONCLUDED")
                             \/ EndExperiment(e, "CONCLUDED", "ARCHIVED")
      PROVE IndInv'
  BY <1>4, EndInv DEF States
<1>5. ASSUME NEW e \in Exps, NEW op \in Ops, Publish(e, op) PROVE IndInv'
  BY <1>5, PublishInv
<1>6. ASSUME NEW c \in Clients, Deliver(c) PROVE IndInv'
  BY <1>6, SubscribeInv, ListRunningInv, SendSnapshotInv, SendDeltaInv, ReceiveInv
     DEF Deliver
<1>7. CASE Fails
  BY <1>7, PublishFailsInv, ListenerFailsInv, ReadFailsInv, StreamFailsInv,
     RestartM1Inv, RestartM5Inv DEF Fails
<1>8. CASE UNCHANGED vars
  <2>1. TypeOK'
    BY <1>8 DEF IndInv, TypeOK, vars, handler, server
  <2>2. NothingMissed'
    BY <1>8 DEF IndInv, NothingMissed, InFlight, vars, handler, server
  <2> QED  BY <2>1, <2>2 DEF IndInv
<1> QED
  BY <1>1, <1>2, <1>3, <1>4, <1>5, <1>6, <1>7, <1>8, ListenerConnectsInv, fanOutInv
     DEF Next, Call, Quiescent

\* The queues between M5's handlers and M1's caches keep their types, and no
\* subscriber buffer outgrows subscriberBuffer.
THEOREM StreamTypeCorrect == Spec => []TypeOK
<1>1. IndInv => TypeOK
  BY DEF IndInv
<1> QED  BY <1>1, InitInv, NextInv, PTL DEF Spec

\* Subscribing before the snapshot closes every gap between snapshot and
\* deltas: a connected M1 has each running experiment, or it is on the way, or
\* a notification of it was dropped after the snapshot.
THEOREM SnapshotAndDeltasCoverAll == Spec => []NothingMissed
<1>1. IndInv => NothingMissed
  BY DEF IndInv
<1> QED  BY <1>1, InitInv, NextInv, PTL DEF Spec
=============================================================================
