--------------------------- MODULE AlertConsumers ---------------------------
(***************************************************************************)
(* M5's two Kafka consumers: guardrail alerts of M3 pause an experiment,   *)
(* sequential boundary alerts of M4a conclude it.  Both run the same loop, *)
(* one message at a time: fetch, process, commit; processing reads the     *)
(* experiment without a lock and acts on what it read, while users and the *)
(* other consumer conclude experiments.  One partition per topic.          *)
(* Kafka's reader is modelled from how the loop uses it: FetchMessage      *)
(* returns the next message whether or not the last one was committed,     *)
(* CommitMessages only queues the offset (CommitInterval), and a group     *)
(* without a committed offset starts at the end of the log (LastOffset).   *)
(***************************************************************************)
EXTENDS Integers, Sequences

CONSTANTS
    Exps,       \* experiment ids
    AutoExps,   \* experiments that are not holdouts and are configured for
                \* AUTO_PAUSE and for sequential testing; others only log
    MaxAlerts,  \* bound: alerts per topic
    Failures,   \* which failures happen: a subset of {"db", "crash"}
    MaxFaults,  \* bound: how many of them
    None        \* a payload that is not an alert

Topics == {"guardrail", "sequential"}

ASSUME AlertAssumption ==
    /\ AutoExps \subseteq Exps /\ None \notin Exps
    /\ MaxAlerts \in Nat /\ MaxFaults \in Nat
    /\ Failures \subseteq {"db", "crash"}

VARIABLES
    state,      \* experiments.state
    driver,     \* who is between concludeByID's two transactions
    log,        \* the alerts of each topic
    pos,        \* next offset FetchMessage returns
    marked,     \* offset given to CommitMessages
    committed,  \* the group's offset at the broker, -1 before the first
    pc,         \* what the consumer does next
    audits,     \* offsets with an audit row
    handled,    \* history: offsets ProcessAlert returned without error for
    failed,     \* history: offsets it returned an error for
    skipped,    \* history: offsets a (re)start jumped over
    faults      \* failures so far

kafka   == <<log, committed>>
history == <<handled, failed, skipped>>
vars    == <<state, driver, kafka, pos, marked, pc, audits, history, faults>>

Steps   == {"fetch", "read", "audit", "conclude", "finish", "commit"}
Offsets == 0 .. MaxAlerts - 1

\* What the tables, the topics and the consumers hold.
TypeOK ==
    /\ state \in [Exps -> {"RUNNING", "CONCLUDING", "CONCLUDED"}]
    /\ driver \in [Exps -> {"nobody", "user", "consumer"}]
    /\ log \in [Topics -> Seq(Exps \cup {None})]
    /\ pos \in [Topics -> Nat] /\ marked \in [Topics -> Int]
    /\ committed \in [Topics -> Int]
    /\ pc \in [Topics -> Steps]
    /\ audits \in [Topics -> SUBSET Offsets]
    /\ handled \in [Topics -> SUBSET Offsets]
    /\ failed \in [Topics -> SUBSET Offsets]
    /\ skipped \in [Topics -> SUBSET Offsets]
    /\ faults \in 0 .. MaxFaults
    /\ \A t \in Topics : /\ committed[t] <= marked[t] /\ marked[t] <= pos[t]
                         /\ pos[t] <= Len(log[t]) /\ Len(log[t]) <= MaxAlerts
                         /\ pc[t] # "fetch" => pos[t] > 0

Init ==
    /\ state = [e \in Exps |-> "RUNNING"]
    /\ driver = [e \in Exps |-> "nobody"]
    /\ log = [t \in Topics |-> <<>>]
    /\ pos = [t \in Topics |-> 0]
    /\ marked = [t \in Topics |-> -1]
    /\ committed = [t \in Topics |-> -1]
    /\ pc = [t \in Topics |-> "fetch"]
    /\ audits = [t \in Topics |-> {}]
    /\ handled = [t \in Topics |-> {}]
    /\ failed = [t \in Topics |-> {}]
    /\ skipped = [t \in Topics |-> {}]
    /\ faults = 0

-----------------------------------------------------------------------------
(* The consumer loop                                                       *)

\* The message being processed: its offset and its experiment.
Current(t)  == pos[t] - 1
AlertExp(t) == log[t][pos[t]]

Goto(t, step) == pc' = [pc EXCEPT ![t] = step]

\* Mutant: ReadMessage in place of FetchMessage, which commits as it reads.
FetchAndMark(t) ==
    /\ pc[t] = "fetch" /\ pos[t] < Len(log[t])
    /\ pos' = [pos EXCEPT ![t] = @ + 1]
    /\ marked' = [marked EXCEPT ![t] = pos[t] + 1]
    /\ Goto(t, IF log[t][pos[t] + 1] = None THEN "commit" ELSE "read")
    /\ UNCHANGED <<state, driver, kafka, audits, history, faults>>

\* FetchMessage; a malformed payload is committed and skipped.  (A fetch that
\* errors is tried again and changes nothing.)
Fetch(t) ==
    /\ pc[t] = "fetch" /\ pos[t] < Len(log[t])
    /\ pos' = [pos EXCEPT ![t] = @ + 1]
    /\ Goto(t, IF log[t][pos[t] + 1] = None THEN "commit" ELSE "read")
    /\ UNCHANGED <<state, driver, kafka, marked, audits, history, faults>>

\* Mutant: experiments that are RUNNING are the ones skipped.
ReadSkipsRunning(t) ==
    /\ pc[t] = "read"
    /\ Goto(t, IF state[AlertExp(t)] = "RUNNING" THEN "commit" ELSE "audit")
    /\ UNCHANGED <<state, driver, kafka, pos, marked, audits, history, faults>>

\* ProcessAlert reads the experiment, without a transaction: one that is not
\* RUNNING (or not there), or a sequential alert for one not configured for
\* it, is skipped.
ReadExperiment(t) ==
    /\ pc[t] = "read"
    /\ Goto(t, IF /\ state[AlertExp(t)] = "RUNNING"
                  /\ t = "guardrail" \/ AlertExp(t) \in AutoExps
               THEN "audit" ELSE "commit")
    /\ UNCHANGED <<state, driver, kafka, pos, marked, audits, history, faults>>

\* The audit row, whatever the state is by now.  A guardrail alert is then
\* done: pausing is the row and a notification, which Publish may lose.
InsertAudit(t) ==
    /\ pc[t] = "audit"
    /\ audits' = [audits EXCEPT ![t] = @ \cup {Current(t)}]
    /\ Goto(t, IF t = "guardrail" THEN "commit" ELSE "conclude")
    /\ UNCHANGED <<state, driver, kafka, pos, marked, history, faults>>

\* concludeByID, first transaction.  If someone else concluded it meanwhile,
\* ProcessAlert returns an error: the loop logs it, sleeps and fetches on.
ConcludeBegin(t) ==
    LET e == AlertExp(t) IN
    /\ pc[t] = "conclude"
    /\ \/ /\ state[e] = "RUNNING"
          /\ state' = [state EXCEPT ![e] = "CONCLUDING"]
          /\ driver' = [driver EXCEPT ![e] = "consumer"]
          /\ Goto(t, "finish")
          /\ UNCHANGED history
       \/ /\ state[e] # "RUNNING"
          /\ failed' = [failed EXCEPT ![t] = @ \cup {Current(t)}]
          /\ Goto(t, "fetch")
          /\ UNCHANGED <<state, driver, handled, skipped>>
    /\ UNCHANGED <<kafka, pos, marked, audits, faults>>

\* Its second transaction.
ConcludeFinish(t) ==
    LET e == AlertExp(t) IN
    /\ pc[t] = "finish"
    /\ state' = [state EXCEPT ![e] = "CONCLUDED"]
    /\ driver' = [driver EXCEPT ![e] = "nobody"]
    /\ Goto(t, "commit")
    /\ UNCHANGED <<kafka, pos, marked, audits, history, faults>>

Fault(kind) ==
    /\ kind \in Failures /\ faults < MaxFaults
    /\ faults' = faults + 1

\* A database call of ProcessAlert fails, with or without its effect (the
\* answer to a commit can get lost).
CallFails(t) ==
    LET e == AlertExp(t) IN
    /\ pc[t] \in {"read", "audit", "conclude", "finish"}
    /\ Fault("db")
    /\ Goto(t, "fetch")
    /\ failed' = [failed EXCEPT ![t] = @ \cup {Current(t)}]
    /\ \/ UNCHANGED <<state, audits>>
       \/ /\ pc[t] = "audit"
          /\ audits' = [audits EXCEPT ![t] = @ \cup {Current(t)}]
          /\ UNCHANGED state
       \/ /\ pc[t] = "finish"
          /\ state' = [state EXCEPT ![e] = "CONCLUDED"]
          /\ UNCHANGED audits
    /\ driver' = IF pc[t] = "finish" THEN [driver EXCEPT ![e] = "nobody"]
                                     ELSE driver
    /\ UNCHANGED <<kafka, pos, marked, handled, skipped>>

\* CommitMessages.
CommitMessages(t) ==
    /\ pc[t] = "commit"
    /\ marked' = [marked EXCEPT ![t] = pos[t]]
    /\ handled' = [handled EXCEPT ![t] = @ \cup {Current(t)}]
    /\ Goto(t, "fetch")
    /\ UNCHANGED <<state, driver, kafka, pos, audits, failed, skipped, faults>>

\* The reader sends the queued offset to the broker, once a second.
FlushCommits(t) ==
    /\ committed[t] # marked[t]
    /\ committed' = [committed EXCEPT ![t] = marked[t]]
    /\ UNCHANGED <<state, driver, log, pos, marked, pc, audits, history, faults>>

-----------------------------------------------------------------------------
(* Everybody else                                                          *)

\* M3 or M4a sends an alert; a payload may be malformed.
SendAlert(t, a) ==
    /\ Len(log[t]) < MaxAlerts
    /\ log' = [log EXCEPT ![t] = Append(@, a)]
    /\ UNCHANGED <<state, driver, committed, pos, marked, pc, audits, history,
                   faults>>

\* A user's ConcludeExperiment: the same two transactions.
UserConcludeBegin(e) ==
    /\ state[e] = "RUNNING"
    /\ state' = [state EXCEPT ![e] = "CONCLUDING"]
    /\ driver' = [driver EXCEPT ![e] = "user"]
    /\ UNCHANGED <<kafka, pos, marked, pc, audits, history, faults>>

UserConcludeFinish(e) ==
    /\ driver[e] = "user"
    /\ state' = [state EXCEPT ![e] = "CONCLUDED"]
    /\ driver' = [driver EXCEPT ![e] = "nobody"]
    /\ UNCHANGED <<kafka, pos, marked, pc, audits, history, faults>>

\* Mutant: a reader that ignores the group's offset.
StartAtEnd(t) == Len(log[t])

\* Where a new reader of the group begins.
StartOffset(t) == IF committed[t] >= 0 THEN committed[t] ELSE Len(log[t])

\* M5 dies and starts again.
Restart ==
    /\ Fault("crash")
    /\ driver' = [e \in Exps |-> "nobody"]
    /\ pos' = [t \in Topics |-> StartOffset(t)]
    /\ marked' = committed
    /\ pc' = [t \in Topics |-> "fetch"]
    /\ skipped' = [t \in Topics |-> IF committed[t] >= 0 THEN skipped[t]
                                    ELSE 0 .. Len(log[t]) - 1]
    /\ UNCHANGED <<state, kafka, audits, handled, failed>>

\* The topics are read to their end, and nobody calls.
Quiescent ==
    /\ \A t \in Topics : pc[t] = "fetch" /\ pos[t] = Len(log[t])
    /\ UNCHANGED vars

Consume(t) ==
    \/ Fetch(t)
    \/ ReadExperiment(t)
    \/ InsertAudit(t)
    \/ ConcludeBegin(t)
    \/ ConcludeFinish(t)
    \/ CommitMessages(t)

Next ==
    \/ \E t \in Topics :
         \/ Consume(t)
         \/ CallFails(t)
         \/ FlushCommits(t)
         \/ \E a \in Exps \cup {None} : SendAlert(t, a)
    \/ \E e \in Exps : UserConcludeBegin(e) \/ UserConcludeFinish(e)
    \/ Restart
    \/ Quiescent

Spec == Init /\ [][Next]_vars

\* The consumers' goroutines and the handlers run; alerts, users' calls and
\* failures need not happen.
FairSpec ==
    /\ Spec
    /\ \A t \in Topics : WF_vars(Consume(t)) /\ WF_vars(FlushCommits(t))
    /\ \A e \in Exps : WF_vars(UserConcludeFinish(e))

-----------------------------------------------------------------------------
(* Properties                                                              *)

\* How many messages the consumer has put behind it.
Done(t) == IF pc[t] = "fetch" THEN pos[t] ELSE pos[t] - 1

\* The loop commits after it processes, and what it commits is an alert that
\* was handled.  But offsets are cumulative, and a fetch never goes back: an
\* alert that ProcessAlert failed on is passed by the commit of a later one,
\* and then no fetch, and no restart, returns it again.  Across restarts,
\* every alert below the group's offset was handled, or failed on, or jumped
\* over by a start without a committed offset, and is behind the consumer.
CommittedWereProcessed ==
    \A t \in Topics :
        /\ committed[t] > 0 => committed[t] - 1 \in handled[t]
        /\ \A i \in Offsets : i < committed[t] =>
             i \in handled[t] \cup failed[t] \cup skipped[t] /\ i < Done(t)

\* A guardrail alert leaves its audit row, and only an experiment not
\* configured for sequential testing goes on RUNNING after a boundary alert.
TookEffect(t, i) ==
    LET e == log[t][i + 1] IN
    (e # None /\ state[e] = "RUNNING") =>
       IF t = "guardrail" THEN i \in audits[t] ELSE e \notin AutoExps

\* An alert the consumer is done with took effect, whatever failures, restarts
\* and concurrent conclusions came between reading the experiment and acting.
HandledTookEffect == \A t \in Topics : \A i \in handled[t] : TookEffect(t, i)

\* Restarts and errors do not stop the consumers: every alert is eventually
\* handled, failed on or jumped over.
AlertsAreConsumed ==
    \A t \in Topics : \A i \in Offsets :
       Len(log[t]) > i ~> i \in handled[t] \cup failed[t] \cup skipped[t]
=============================================================================
