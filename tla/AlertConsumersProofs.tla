------------------------ MODULE AlertConsumersProofs ------------------------
(***************************************************************************)
(* CommittedWereProcessed and HandledTookEffect for any number of          *)
(* experiments, alerts and failures.  The strengthening says where the     *)
(* loop is: everything before the message in hand is processed, no offset  *)
(* beyond it is committed, and a message about to be committed has had its *)
(* effect.                                                                 *)
(***************************************************************************)
EXTENDS AlertConsumers, TLAPS

Processed(t) == handled[t] \cup failed[t] \cup skipped[t]

\* An offset that may be the group's: none yet, or just behind an alert that
\* was handled.
CommittedAlert(t, o) == o > 0 => o - 1 \in handled[t]

\* The loop of one topic.
LoopAt(t) ==
    /\ marked[t] <= Done(t)
    /\ CommittedAlert(t, marked[t]) /\ CommittedAlert(t, committed[t])
    /\ \A i \in Offsets : i < Done(t) => i \in Processed(t)
    /\ handled[t] \subseteq 0 .. Len(log[t]) - 1
    /\ pc[t] \in {"read", "audit", "conclude", "finish"} => AlertExp(t) \in Exps
    /\ pc[t] = "commit" => TookEffect(t, Current(t))

IndInv == TypeOK /\ (\A t \in Topics : LoopAt(t)) /\ HandledTookEffect

\* No step takes an effect back: states only move away from RUNNING, audit
\* rows stay, and a topic is append-only.
Forward ==
    /\ \A e \in Exps : state'[e] = "RUNNING" => state[e] = "RUNNING"
    /\ \A t \in Topics : audits[t] \subseteq audits'[t]
    /\ \A t \in Topics : \A i \in 1 .. Len(log[t]) : log'[t][i] = log[t][i]

\* An effect stays.
LEMMA EffectStays ==
    ASSUME TypeOK, Forward, NEW t \in Topics, NEW i \in 0 .. Len(log[t]) - 1,
           TookEffect(t, i)
    PROVE  TookEffect(t, i)'
<1>1. i + 1 \in 1 .. Len(log[t]) /\ log[t][i + 1] \in Exps \cup {None}
  BY DEF TypeOK
<1>2. log'[t][i + 1] = log[t][i + 1]
  BY <1>1 DEF Forward
<1> QED  BY <1>1, <1>2 DEF Forward, TookEffect

\* A topic whose consumer does not move keeps its loop invariant.
LEMMA LoopStays ==
    ASSUME IndInv, Forward, NEW t \in Topics,
           pc'[t] = pc[t], pos'[t] = pos[t], marked'[t] = marked[t],
           committed'[t] \in {committed[t], marked[t]},
           handled'[t] = handled[t], failed'[t] = failed[t],
           skipped'[t] = skipped[t], Len(log[t]) <= Len(log'[t]), Len(log'[t]) \in Nat
    PROVE  LoopAt(t)'
<1>0. LoopAt(t) /\ TypeOK
  BY DEF IndInv
<1>1. marked'[t] <= Done(t)' /\ CommittedAlert(t, marked[t])' /\ CommittedAlert(t, committed[t])'
  BY <1>0 DEF LoopAt, Done, CommittedAlert
<1>2. \A i \in Offsets : i < Done(t)' => i \in Processed(t)'
  BY <1>0 DEF LoopAt, Done, Processed
<1>3. handled'[t] \subseteq 0 .. Len(log'[t]) - 1
  BY <1>0 DEF LoopAt, TypeOK
<1>4. pc'[t] # "fetch" =>
        /\ AlertExp(t)' = AlertExp(t) /\ Current(t)' = Current(t)
        /\ Current(t) \in 0 .. Len(log[t]) - 1
  <2> SUFFICES ASSUME pc'[t] # "fetch"
               PROVE  /\ AlertExp(t)' = AlertExp(t) /\ Current(t)' = Current(t)
                      /\ Current(t) \in 0 .. Len(log[t]) - 1
    OBVIOUS
  <2>1. pos[t] \in 1 .. Len(log[t])
    BY <1>0 DEF TypeOK
  <2> QED  BY <2>1, <1>0 DEF Forward, AlertExp, Current, TypeOK
<1>5. pc'[t] \in {"read", "audit", "conclude", "finish"} => AlertExp(t)' \in Exps
  BY <1>0, <1>4 DEF LoopAt
<1>6. pc'[t] = "commit" => TookEffect(t, Current(t))'
  BY <1>0, <1>4, EffectStays DEF LoopAt, TookEffect
<1> QED  BY <1>1, <1>2, <1>3, <1>5, <1>6 DEF LoopAt

\* What was handled before a step keeps its effect.
LEMMA HandledStays ==
    ASSUME IndInv, Forward, NEW t \in Topics, NEW i \in handled[t]
    PROVE  TookEffect(t, i)'
<1>1. i \in 0 .. Len(log[t]) - 1
  BY DEF IndInv, LoopAt
<1> QED  BY <1>1, EffectStays DEF IndInv, HandledTookEffect

\* The bookkeeping common to the steps of one consumer: the other topic's loop
\* stays, and old effects stay.
LEMMA OneConsumer ==
    ASSUME IndInv, TypeOK', Forward, NEW t \in Topics, LoopAt(t)',
           \A u \in Topics \ {t} :
              /\ pc'[u] = pc[u] /\ pos'[u] = pos[u] /\ marked'[u] = marked[u]
              /\ committed'[u] = committed[u]
              /\ handled'[u] = handled[u] /\ failed'[u] = failed[u]
              /\ skipped'[u] = skipped[u] /\ log'[u] = log[u],
           \A i \in handled'[t] \ handled[t] : TookEffect(t, i)'
    PROVE  IndInv'
<1>1. ASSUME NEW u \in Topics PROVE LoopAt(u)'
  <2>1. CASE u = t
    BY <2>1
  <2>2. CASE u # t
    <3>1. Len(log[u]) \in Nat
      BY DEF IndInv, TypeOK
    <3> QED  BY <2>2, <3>1, LoopStays
  <2> QED  BY <2>1, <2>2
<1>2. ASSUME NEW u \in Topics, NEW i \in handled'[u] PROVE TookEffect(u, i)'
  <2>1. CASE i \in handled[u]
    BY <2>1, HandledStays
  <2>2. CASE i \notin handled[u]
    BY <2>2
  <2> QED  BY <2>1, <2>2
<1> QED  BY <1>1, <1>2 DEF IndInv, HandledTookEffect

\* FetchMessage: the message in hand is the first that is not processed.
LEMMA FetchInv ==
    ASSUME IndInv, NEW t \in Topics, Fetch(t)
    PROVE  IndInv'
<1>0. TypeOK /\ LoopAt(t)
  BY DEF IndInv
<1> USE DEF Fetch, Goto, kafka, history
<1>1. TypeOK'
  BY <1>0 DEF TypeOK, LoopAt, Steps
<1>2. Forward
  BY DEF Forward
<1>3. /\ pos'[t] = pos[t] + 1 /\ pos[t] \in Nat /\ pc[t] = "fetch"
      /\ pc'[t] = IF log[t][pos[t] + 1] = None THEN "commit" ELSE "read"
  BY <1>0 DEF TypeOK
<1>4. Done(t)' = Done(t)
  BY <1>3 DEF Done
<1>5. AlertExp(t)' \in Exps \cup {None}
      /\ AlertExp(t)' = log[t][pos[t] + 1] /\ AlertExp(t)' = log[t][Current(t)' + 1]
  BY <1>0, <1>3 DEF TypeOK, AlertExp, Current
<1>6. LoopAt(t)'
  BY <1>0, <1>3, <1>4, <1>5 DEF LoopAt, CommittedAlert, Processed, TookEffect, Current
<1> QED  BY <1>0, <1>1, <1>2, <1>6, OneConsumer DEF TypeOK

\* The unlocked read: whatever it skips is not RUNNING any more, or asks for
\* nothing.
LEMMA ReadInv ==
    ASSUME IndInv, NEW t \in Topics, ReadExperiment(t)
    PROVE  IndInv'
<1>0. TypeOK /\ LoopAt(t)
  BY DEF IndInv
<1> USE DEF ReadExperiment, Goto, kafka, history
<1>1. TypeOK'
  BY <1>0 DEF TypeOK, Steps
<1>2. Forward
  BY DEF Forward
<1>3. /\ pos[t] \in Nat /\ pc[t] = "read"
      /\ pc'[t] = IF /\ state[AlertExp(t)] = "RUNNING"
                     /\ t = "guardrail" \/ AlertExp(t) \in AutoExps
                  THEN "audit" ELSE "commit"
  BY <1>0 DEF TypeOK
<1>4. Done(t)' = Done(t) /\ AlertExp(t)' = AlertExp(t)
      /\ AlertExp(t) = log[t][Current(t) + 1] /\ Current(t)' = Current(t)
  BY <1>3 DEF Done, AlertExp, Current
<1>5. pc'[t] = "commit" => TookEffect(t, Current(t))'
  BY <1>3, <1>4 DEF TookEffect
<1>6. LoopAt(t)'
  BY <1>0, <1>3, <1>4, <1>5 DEF LoopAt, CommittedAlert, Processed
<1> QED  BY <1>0, <1>1, <1>2, <1>6, OneConsumer DEF TypeOK

\* The audit row is a guardrail alert's effect.
LEMMA AuditInv ==
    ASSUME IndInv, NEW t \in Topics, InsertAudit(t)
    PROVE  IndInv'
<1>0. TypeOK /\ LoopAt(t)
  BY DEF IndInv
<1> USE DEF InsertAudit, Goto, kafka, history
<1>3. /\ pos[t] \in Nat /\ pos[t] > 0 /\ pos[t] <= MaxAlerts /\ pc[t] = "audit"
      /\ pc'[t] = IF t = "guardrail" THEN "commit" ELSE "conclude"
  BY <1>0, AlertAssumption DEF TypeOK
<1>4. Current(t) \in Offsets
  BY <1>3, AlertAssumption DEF Current, Offsets
<1>1. TypeOK'
  BY <1>0, <1>4 DEF TypeOK, Steps
<1>2. Forward
  BY <1>0 DEF Forward, TypeOK
<1>5. Done(t)' = Done(t) /\ AlertExp(t)' = AlertExp(t) /\ Current(t)' = Current(t)
      /\ Current(t) \in audits'[t]
  BY <1>0, <1>3 DEF Done, AlertExp, Current, TypeOK
<1>6. LoopAt(t)'
  BY <1>0, <1>3, <1>5 DEF LoopAt, CommittedAlert, Processed, TookEffect
<1> QED  BY <1>0, <1>1, <1>2, <1>6, OneConsumer DEF TypeOK

\* concludeByID begins, or finds that someone else has begun.
LEMMA ConcludeBeginInv ==
    ASSUME IndInv, NEW t \in Topics, ConcludeBegin(t)
    PROVE  IndInv'
<1>0. TypeOK /\ LoopAt(t)
  BY DEF IndInv
<1> USE DEF ConcludeBegin, Goto, kafka, history
<1>3. /\ pos[t] \in Nat /\ pos[t] > 0 /\ pos[t] <= MaxAlerts /\ pc[t] = "conclude"
      /\ pc'[t] \in {"finish", "fetch"}
  BY <1>0, AlertAssumption DEF TypeOK
<1>4. Current(t) \in Offsets /\ Current(t) = pos[t] - 1 /\ AlertExp(t) \in Exps
  BY <1>0, <1>3, AlertAssumption DEF Current, Offsets, LoopAt
<1>8. [failed EXCEPT ![t] = @ \cup {Current(t)}] \in [Topics -> SUBSET Offsets]
  BY <1>0, <1>4 DEF TypeOK
<1>7. failed' \in [Topics -> SUBSET Offsets] /\ pc' \in [Topics -> Steps]
      /\ state' \in [Exps -> {"RUNNING", "CONCLUDING", "CONCLUDED"}]
      /\ driver' \in [Exps -> {"nobody", "user", "consumer"}]
  BY <1>0, <1>4, <1>8 DEF TypeOK, Steps
<1>1. TypeOK'
  BY <1>0, <1>3, <1>7 DEF TypeOK
<1>2. Forward
  BY <1>0 DEF Forward, TypeOK
<1>5. AlertExp(t)' = AlertExp(t)
  BY DEF AlertExp
<1>6. LoopAt(t)'
  <2>1. marked'[t] <= Done(t)'
    BY <1>0, <1>3 DEF LoopAt, Done, TypeOK
  <2>2. ASSUME NEW i \in Offsets, i < Done(t)' PROVE i \in Processed(t)'
    <3>1. CASE pc'[t] = "finish"
      BY <1>0, <1>3, <2>2, <3>1 DEF LoopAt, Done, Processed, TypeOK
    <3>2. CASE pc'[t] = "fetch"
      <4>1. failed' = [failed EXCEPT ![t] = @ \cup {Current(t)}]
            /\ handled' = handled /\ skipped' = skipped
        BY <1>0, <1>3, <3>2 DEF TypeOK
      <4>2. i < pos[t] - 1 \/ i = Current(t)
        BY <1>3, <1>4, <2>2, <3>2, AlertAssumption DEF Done, Offsets
      <4> QED  BY <1>0, <1>3, <4>1, <4>2 DEF LoopAt, Done, Processed, TypeOK
    <3> QED  BY <1>3, <3>1, <3>2
  <2> QED  BY <1>0, <1>3, <1>4, <1>5, <2>1, <2>2 DEF LoopAt, CommittedAlert
<1> QED  BY <1>0, <1>1, <1>2, <1>6, OneConsumer DEF TypeOK

\* concludeByID's second transaction is the effect of a boundary alert.
LEMMA ConcludeFinishInv ==
    ASSUME IndInv, NEW t \in Topics, ConcludeFinish(t)
    PROVE  IndInv'
<1>0. TypeOK /\ LoopAt(t)
  BY DEF IndInv
<1> USE DEF ConcludeFinish, Goto, kafka, history
<1>1. TypeOK'
  BY <1>0 DEF TypeOK, Steps
<1>2. Forward
  BY <1>0 DEF Forward, TypeOK
<1>3. /\ pos[t] \in Nat /\ pc[t] = "finish" /\ pc'[t] = "commit"
      /\ AlertExp(t) \in Exps /\ state'[AlertExp(t)] = "CONCLUDED"
  BY <1>0 DEF TypeOK, LoopAt
<1>4. Done(t)' = Done(t) /\ AlertExp(t) = log'[t][Current(t)' + 1]
  BY <1>3 DEF Done, AlertExp, Current
<1>6. LoopAt(t)'
  BY <1>0, <1>3, <1>4 DEF LoopAt, CommittedAlert, Processed, TookEffect
<1> QED  BY <1>0, <1>1, <1>2, <1>6, OneConsumer DEF TypeOK
\* An error of ProcessAlert, with or without the effect of the failed call.
LEMMA CallFailsInv ==
    ASSUME IndInv, NEW t \in Topics, CallFails(t)
    PROVE  IndInv'
<1>0. TypeOK /\ LoopAt(t)
  BY DEF IndInv
<1> USE DEF CallFails, Goto, kafka, history
<1>3. /\ pos[t] \in Nat /\ pos[t] > 0 /\ pos[t] <= MaxAlerts
      /\ pc[t] # "fetch" /\ pc'[t] = "fetch"
  BY <1>0, AlertAssumption DEF TypeOK
<1>4. Current(t) \in Offsets /\ Current(t) = pos[t] - 1
  BY <1>3, AlertAssumption DEF Current, Offsets
<1>8. ASSUME NEW f \in [Topics -> SUBSET Offsets]
      PROVE  [f EXCEPT ![t] = @ \cup {Current(t)}] \in [Topics -> SUBSET Offsets]
  BY <1>4
<1>5. failed' \in [Topics -> SUBSET Offsets] /\ audits' \in [Topics -> SUBSET Offsets]
  BY <1>0, <1>8 DEF TypeOK
<1>9. faults' \in 0 .. MaxFaults
  BY <1>0, AlertAssumption DEF TypeOK, Fault
<1>7. pc' \in [Topics -> Steps]
      /\ state' \in [Exps -> {"RUNNING", "CONCLUDING", "CONCLUDED"}]
      /\ driver' \in [Exps -> {"nobody", "user", "consumer"}]
  BY <1>0 DEF TypeOK, Steps
<1>1. TypeOK'
  BY <1>0, <1>3, <1>5, <1>7, <1>9 DEF TypeOK
<1>2. Forward
  BY <1>0 DEF Forward, TypeOK
<1>6. LoopAt(t)'
  <2>1. marked'[t] <= Done(t)'
    BY <1>0, <1>3 DEF LoopAt, Done, TypeOK
  <2>2. ASSUME NEW i \in Offsets, i < Done(t)' PROVE i \in Processed(t)'
    <3>1. i < pos[t] - 1 \/ i = Current(t)
      BY <1>3, <1>4, <2>2, AlertAssumption DEF Done, Offsets
    <3> QED  BY <1>0, <1>3, <3>1 DEF LoopAt, Done, Processed, TypeOK
  <2> QED  BY <1>0, <1>3, <2>1, <2>2 DEF LoopAt, CommittedAlert
<1> QED  BY <1>0, <1>1, <1>2, <1>6, OneConsumer DEF TypeOK

\* CommitMessages: the message is handled, and it has had its effect.
LEMMA CommitInv ==
    ASSUME IndInv, NEW t \in Topics, CommitMessages(t)
    PROVE  IndInv'
<1>0. TypeOK /\ LoopAt(t)
  BY DEF IndInv
<1> USE DEF CommitMessages, Goto, kafka, history
<1>3. /\ pos[t] \in Nat /\ pos[t] > 0 /\ pos[t] <= MaxAlerts
      /\ pos[t] <= Len(log[t]) /\ Len(log[t]) \in Nat
      /\ pc[t] = "commit" /\ pc'[t] = "fetch" /\ marked'[t] = pos[t]
      /\ handled'[t] = handled[t] \cup {Current(t)}
  BY <1>0, AlertAssumption DEF TypeOK
<1>4. Current(t) \in Offsets /\ Current(t) = pos[t] - 1
  BY <1>3, AlertAssumption DEF Current, Offsets
<1>5. handled' \in [Topics -> SUBSET Offsets]
  BY <1>0, <1>4 DEF TypeOK
<1>1. TypeOK'
  BY <1>0, <1>3, <1>5 DEF TypeOK, Steps
<1>2. Forward
  BY DEF Forward
<1>6. LoopAt(t)'
  <2>2. ASSUME NEW i \in Offsets, i < Done(t)' PROVE i \in Processed(t)'
    <3>1. i < pos[t] - 1 \/ i = Current(t)
      BY <1>3, <1>4, <2>2, AlertAssumption DEF Done, Offsets
    <3> QED  BY <1>0, <1>3, <3>1 DEF LoopAt, Done, Processed
  <2> QED  BY <1>0, <1>3, <1>4, <2>2 DEF LoopAt, Done, CommittedAlert
<1>7. TookEffect(t, Current(t))'
  <2>1. TookEffect(t, Current(t)) /\ Current(t) \in 0 .. Len(log[t]) - 1
    BY <1>0, <1>3, <1>4 DEF LoopAt
  <2>2. Current(t)' = Current(t)
    BY DEF Current
  <2> QED  BY <1>0, <1>2, <2>1, <2>2 DEF TookEffect
<1>8. \A i \in handled'[t] \ handled[t] : TookEffect(t, i)'
  BY <1>3, <1>7 DEF TookEffect, Current
<1> QED  BY <1>0, <1>1, <1>2, <1>6, <1>8, OneConsumer DEF TypeOK

\* The queued offset reaches the broker.
LEMMA FlushInv ==
    ASSUME IndInv, NEW t \in Topics, FlushCommits(t)
    PROVE  IndInv'
<1>0. TypeOK /\ LoopAt(t)
  BY DEF IndInv
<1> USE DEF FlushCommits, kafka, history
<1>1. TypeOK'
  BY <1>0 DEF TypeOK
<1>2. Forward
  BY DEF Forward
<1>3. Len(log[t]) \in Nat
  BY <1>0 DEF TypeOK
<1>6. LoopAt(t)'
  BY <1>2, <1>3, LoopStays
<1> QED  BY <1>1, <1>2, <1>6, OneConsumer

\* A new alert.
LEMMA SendInv ==
    ASSUME IndInv, NEW t \in Topics, NEW a \in Exps \cup {None}, SendAlert(t, a)
    PROVE  IndInv'
<1>0. TypeOK
  BY DEF IndInv
<1> USE DEF SendAlert, history
<1>3. /\ log[t] \in Seq(Exps \cup {None}) /\ log'[t] = Append(log[t], a)
      /\ \A u \in Topics \ {t} : log'[u] = log[u]
  BY <1>0 DEF TypeOK
<1>4. /\ log'[t] \in Seq(Exps \cup {None}) /\ Len(log'[t]) = Len(log[t]) + 1
      /\ Len(log[t]) \in Nat
      /\ \A i \in 1 .. Len(log[t]) : log'[t][i] = log[t][i]
  BY <1>3
<1>5. log' \in [Topics -> Seq(Exps \cup {None})]
  BY <1>0, <1>4 DEF TypeOK
<1>1. TypeOK'
  BY <1>0, <1>3, <1>4, <1>5, AlertAssumption DEF TypeOK
<1>2. Forward
  BY <1>3, <1>4 DEF Forward
<1>6. LoopAt(t)'
  BY <1>2, <1>4, LoopStays
<1> QED  BY <1>1, <1>2, <1>3, <1>6, OneConsumer

\* A user's conclusion moves the experiment under the consumers' feet.
LEMMA UserInv ==
    ASSUME IndInv, NEW e \in Exps, UserConcludeBegin(e) \/ UserConcludeFinish(e)
    PROVE  IndInv'
<1>0. TypeOK
  BY DEF IndInv
<1> USE DEF UserConcludeBegin, UserConcludeFinish, kafka, history
<1>1. TypeOK'
  BY <1>0 DEF TypeOK
<1>2. Forward
  BY <1>0 DEF Forward, TypeOK
<1>3. ASSUME NEW t \in Topics PROVE LoopAt(t)'
  <2>1. Len(log[t]) \in Nat
    BY <1>0 DEF TypeOK
  <2> QED  BY <1>2, <2>1, LoopStays
<1>4. HandledTookEffect'
  BY <1>2, HandledStays DEF HandledTookEffect
<1> QED  BY <1>1, <1>3, <1>4 DEF IndInv

\* A restart goes back to the group's offset, below which all is processed, or
\* jumps over the whole topic.
LEMMA RestartInv ==
    ASSUME IndInv, Restart
    PROVE  IndInv'
<1>0. TypeOK
  BY DEF IndInv
<1> USE DEF Restart, kafka
<1>1. ASSUME NEW t \in Topics
      PROVE  /\ Len(log[t]) \in Nat /\ Len(log[t]) <= MaxAlerts
             /\ committed[t] \in Int /\ marked[t] \in Int /\ pos[t] \in Nat
             /\ Done(t) \in Int /\ committed[t] <= Done(t)
             /\ Done(t) <= pos[t] /\ pos[t] <= Len(log[t])
  BY <1>0 DEF TypeOK, IndInv, LoopAt, Done
<1>2. ASSUME NEW t \in Topics
      PROVE  /\ pos'[t] = IF committed[t] >= 0 THEN committed[t] ELSE Len(log[t])
             /\ pos'[t] \in Nat /\ marked'[t] = committed[t] /\ pc'[t] = "fetch"
             /\ committed[t] <= pos'[t] /\ pos'[t] <= Len(log[t])
             /\ Done(t)' = pos'[t]
  BY <1>1 DEF StartOffset, Done
<1>3. skipped' \in [Topics -> SUBSET Offsets]
  <2>1. ASSUME NEW t \in Topics PROVE 0 .. Len(log[t]) - 1 \subseteq Offsets
    BY <1>1, AlertAssumption DEF Offsets
  <2> QED  BY <1>0, <2>1 DEF TypeOK
<1>4. pos' \in [Topics -> Nat] /\ pc' \in [Topics -> Steps]
      /\ driver' \in [Exps -> {"nobody", "user", "consumer"}]
      /\ faults' \in 0 .. MaxFaults
  BY <1>0, <1>2, AlertAssumption DEF TypeOK, Steps, Fault
<1>5. TypeOK'
  BY <1>0, <1>1, <1>2, <1>3, <1>4 DEF TypeOK
<1>6. Forward
  BY DEF Forward
<1>7. ASSUME NEW t \in Topics PROVE LoopAt(t)'
  <2>1. ASSUME NEW i \in Offsets, i < pos'[t] PROVE i \in Processed(t)'
    <3>1. CASE committed[t] >= 0
      <4>1. i < Done(t) /\ skipped'[t] = skipped[t]
        BY <1>1, <1>2, <2>1, <3>1, AlertAssumption DEF Offsets
      <4> QED  BY <4>1 DEF IndInv, LoopAt, Processed
    <3>2. CASE ~(committed[t] >= 0)
      BY <1>1, <1>2, <2>1, <3>2, AlertAssumption DEF Processed, Offsets
    <3> QED  BY <3>1, <3>2
  <2> QED  BY <1>2, <2>1 DEF LoopAt, IndInv, CommittedAlert
<1>8. HandledTookEffect'
  BY <1>6, HandledStays DEF HandledTookEffect
<1> QED  BY <1>5, <1>7, <1>8 DEF IndInv

\* Empty topics.
LEMMA InitInv == Init => IndInv
<1> SUFFICES ASSUME Init PROVE IndInv
  OBVIOUS
<1>1. TypeOK
  BY AlertAssumption DEF Init, TypeOK, Steps
<1>2. ASSUME NEW t \in Topics PROVE LoopAt(t)
  BY AlertAssumption DEF Init, LoopAt, Done, Processed, Offsets, CommittedAlert
<1>3. HandledTookEffect
  BY DEF Init, HandledTookEffect
<1> QED  BY <1>1, <1>2, <1>3 DEF IndInv

\* Every step of the consumers, the producers, the users and the failures.
LEMMA NextInv == IndInv /\ [Next]_vars => IndInv'
<1> SUFFICES ASSUME IndInv, [Next]_vars PROVE IndInv'
  OBVIOUS
<1>1. ASSUME NEW t \in Topics, Consume(t) \/ CallFails(t) \/ FlushCommits(t)
      PROVE  IndInv'
  BY <1>1, FetchInv, ReadInv, AuditInv, ConcludeBeginInv, ConcludeFinishInv,
     CommitInv, CallFailsInv, FlushInv DEF Consume
<1>2. CASE UNCHANGED vars
  <2>1. TypeOK'
    BY <1>2 DEF IndInv, TypeOK, vars, kafka, history
  <2>2. \A t \in Topics : LoopAt(t)'
    BY <1>2 DEF IndInv, LoopAt, CommittedAlert, Done, Processed, AlertExp, Current, TookEffect,
                vars, kafka, history
  <2>3. HandledTookEffect'
    BY <1>2 DEF IndInv, HandledTookEffect, TookEffect, vars, kafka, history
  <2> QED  BY <2>1, <2>2, <2>3 DEF IndInv
<1> QED
  BY <1>1, <1>2, SendInv, UserInv, RestartInv DEF Next, Quiescent

\* The offsets, logs and records of the two consumers keep their types and
\* their order: committed <= marked <= fetched <= written.
THEOREM AlertsTypeCorrect == Spec => []TypeOK
<1>1. IndInv => TypeOK
  BY DEF IndInv
<1> QED  BY <1>1, InitInv, NextInv, PTL DEF Spec

\* Committing after processing: the group's offset lies behind an alert that
\* was handled; every one below it was handled, answered with an error, or
\* written before the group had an offset, and is not read again.
THEOREM NoSilentLoss == Spec => []CommittedWereProcessed
<1>1. IndInv => CommittedWereProcessed
  <2> SUFFICES ASSUME IndInv, NEW t \in Topics
               PROVE  /\ committed[t] > 0 => committed[t] - 1 \in handled[t]
                      /\ \A i \in Offsets : i < committed[t] => i \in Processed(t) /\ i < Done(t)
    BY DEF CommittedWereProcessed, Processed
  <2>1. /\ committed[t] \in Int /\ marked[t] \in Int /\ pos[t] \in Nat
        /\ committed[t] <= marked[t] /\ marked[t] <= Done(t) /\ CommittedAlert(t, committed[t])
    BY DEF IndInv, TypeOK, LoopAt
  <2>2. ASSUME NEW i \in Offsets, i < committed[t] PROVE i < Done(t)
    BY <2>1, <2>2, AlertAssumption DEF Offsets, Done
  <2> QED  BY <2>1, <2>2 DEF IndInv, LoopAt, CommittedAlert
<1> QED  BY <1>1, InitInv, NextInv, PTL DEF Spec

\* An alert that is handled has had its effect, although the experiment was
\* read without a lock.
THEOREM HandledMeansDone == Spec => []HandledTookEffect
<1>1. IndInv => HandledTookEffect
  BY DEF IndInv
<1> QED  BY <1>1, InitInv, NextInv, PTL DEF Spec
=============================================================================
