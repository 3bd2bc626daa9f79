------------------------ MODULE ManagementPortProofs ------------------------
(***************************************************************************)
(* M5's Rust port for any number of experiments, handlers, streams, alerts *)
(* and restarts: the types, the state machine of the store, that M1 serves *)
(* only what was started and validated, and that a drained M1 agrees with  *)
(* the database.                                                           *)
(***************************************************************************)
EXTENDS ManagementPort, TLAPS

Pcs == {"idle", "transition", "validate", "revert", "run", "mark", "read", "publish"}
Rows == States \cup {"none"}
Entries == [exp : Experiments, state : States, deletion : BOOLEAN, version : Nat]
Requests == [op : Ops, pc : Pcs \ {"idle"}, exp : Experiments, row : Rows] \cup {Idle}

Clients == [stream : {"closed", "loaded", "behind", "backfill", "live"},
            pos : Nat, backfill : Nat, known : Nat,
            rows : [Experiments -> Active \cup {Absent}],
            view : [Experiments -> States \cup {Absent}]]

\* The types, in full: a request that has published has read a row, and a
\* request is only ever for an experiment that exists.
TypeInv ==
    /\ db \in [Experiments -> [state : Rows, type : Types, config : {"valid", "invalid"}]]
    /\ req \in [Handlers -> Requests]
    /\ version \in Nat /\ log \in Seq(Entries)
    /\ m1 \in Clients /\ m1.pos <= Len(log)
    /\ alerts \in [topic : Seq(Experiments), pos : Nat, committed : Nat]
    /\ alerts.committed <= alerts.pos /\ alerts.pos <= Len(alerts.topic)
    /\ raced \in SUBSET Experiments /\ missed \in SUBSET Experiments
    /\ \A h \in Handlers : req[h].pc = "publish" => req[h].row \in States
    /\ \A h \in Handlers : req[h] # Idle => db[req[h].exp].state # "none"

-----------------------------------------------------------------------------
(* What is served was started.                                             *)

Started == {"RUNNING", "PAUSED", "CONCLUDING", "CONCLUDED", "ARCHIVED"}
HasStarted(e) == db[e].state \in Started
IsValid(e) == validate_starting(experiment_row_to_proto(e))

\* What an event makes of the client's view.
Shown(event) == IF event.deletion THEN Absent ELSE Visible(event.state)

StartedInv ==
    /\ \A e \in Experiments : m1.view[e] # Absent => HasStarted(e)
    /\ \A e \in Experiments : m1.rows[e] # Absent => HasStarted(e)
    /\ \A i \in 1 .. Len(log) : Shown(log[i]) # Absent => HasStarted(log[i].exp)
    /\ \A h \in Handlers : req[h].row \in Active => HasStarted(req[h].exp)
    /\ \A h \in Handlers : req[h].pc = "run" => IsValid(req[h].exp)
    /\ \A e \in Experiments : HasStarted(e) => IsValid(e)

-----------------------------------------------------------------------------
(* A drained view is exact.                                                *)

\* A request that changed what is visible, or may have, and has not said so.
Pending(e) == \E h \in Handlers : req[h].exp = e /\ req[h].pc \in {"mark", "read", "publish"}

\* An event for the experiment is still to be delivered.
Queued(e) == \E i \in m1.pos + 1 .. Len(log) : log[i].exp = e
LastFor(e, i) == log[i].exp = e /\ \A j \in i + 1 .. Len(log) : log[j].exp # e

\* Where the state of the experiment is when its only request has come to pc.
Reached(op, pc) ==
    CASE pc \in {"validate", "revert", "run"} -> {"STARTING"}
      [] pc = "mark" -> {"CONCLUDING"}
      [] pc \in {"read", "publish"} ->
            (CASE op \in {"start", "resume"} -> {"RUNNING"}
               [] op = "pause" -> {"PAUSED"}
               [] op = "conclude" -> {"CONCLUDING", "CONCLUDED"}
               [] OTHER -> {"ARCHIVED"})
      [] OTHER -> Rows

\* One request at a time, and the store is where that request left it.
Orderly ==
    /\ \A g, h \in Handlers : req[g].exp = req[h].exp /\ req[g].exp \in Experiments \ raced => g = h
    /\ \A h \in Handlers : req[h].exp \in Experiments \ raced =>
         /\ db[req[h].exp].state \in Reached(req[h].op, req[h].pc)
         /\ req[h].pc = "publish" => req[h].row = db[req[h].exp].state

\* The last event about an experiment shows its state, unless a request is
\* about to announce another.
LastIsCurrent ==
    \A e \in Experiments \ raced : Pending(e) \/
        \A i \in 1 .. Len(log) : LastFor(e, i) => Shown(log[i]) = Visible(db[e].state)

\* A view nothing is queued or missing for is current.
ViewIsCurrent ==
    \A e \in Experiments \ (raced \cup missed) :
        Pending(e) \/ Queued(e) \/ m1.view[e] = Visible(db[e].state)

\* What is left on a stream without a receiver is known to be missing.
ClosedIsMissed == ~Receiving => \A e \in Experiments : Queued(e) => e \in missed

\* A row the backfill has still to send may be old, but then the event that
\* made it so comes after it.
RowsAreCurrent ==
    m1.stream = "backfill" => \A e \in Experiments \ raced :
        m1.rows[e] # Absent => Pending(e) \/ Queued(e) \/ m1.rows[e] = Visible(db[e].state)

ViewInv == Orderly /\ LastIsCurrent /\ ViewIsCurrent /\ ClosedIsMissed /\ RowsAreCurrent
IndInv == TypeInv /\ StartedInv /\ ViewInv

-----------------------------------------------------------------------------
(* Types.                                                                  *)

\* The edges the store knows.
Edges == {start_transition, run_transition, revert_to_draft, pause_transition,
          resume_transition, conclude_transition, mark_concluded, archive_transition}

LEMMA EdgeTypes ==
    \A t \in Edges : t.from \subseteq States /\ t.to \in States
  BY DEF Edges, States, start_transition, run_transition, revert_to_draft, pause_transition,
         resume_transition, conclude_transition, mark_concluded, archive_transition

\* A conditional UPDATE moves one row to a state it may be in, or none.
LEMMA UpdateRow ==
    ASSUME TypeInv, NEW e \in Experiments, NEW t \in Edges, Update(e, t)
    PROVE  /\ db' \in [Experiments -> [state : Rows, type : Types, config : {"valid", "invalid"}]]
           /\ \A f \in Experiments : f # e => db'[f] = db[f]
           /\ \A f \in Experiments : db'[f].type = db[f].type
           /\ \A f \in Experiments : db[f].state # "none" => db'[f].state # "none"
           /\ db'[e].state = IF Matches(e, t) THEN t.to ELSE db[e].state
<1>1. t.to \in Rows /\ t.to # "none"
  BY EdgeTypes DEF Rows, States
<1>2. db \in [Experiments -> [state : Rows, type : Types, config : {"valid", "invalid"}]]
  BY DEF TypeInv
<1> QED  BY <1>1, <1>2 DEF Update

LEMMA IdleFields ==
    Idle.op = "none" /\ Idle.pc = "idle" /\ Idle.exp = NoExperiment /\ Idle.row = "none"
  BY DEF Idle

\* A request that is served, and one that is not.
LEMMA Requesting ==
    ASSUME TypeInv, NEW h \in Handlers
    PROVE  /\ req[h] # Idle => req[h] \in [op : Ops, pc : Pcs \ {"idle"}, exp : Experiments, row : Rows]
           /\ req[h].pc = "idle" <=> req[h] = Idle
           /\ req[h].exp \in Experiments <=> req[h] # Idle
<1>1. req[h] \in Requests
  BY DEF TypeInv
<1>2. req[h] # Idle => req[h] \in [op : Ops, pc : Pcs \ {"idle"}, exp : Experiments, row : Rows]
  BY <1>1 DEF Requests
<1> QED  BY <1>2, IdleFields, PortAssumption

\* The table after a handler goes on.
LEMMA Going ==
    ASSUME TypeInv, NEW h \in Handlers, req[h] # Idle, NEW pc \in Pcs \ {"idle"}, Goto(h, pc)
    PROVE  /\ req' \in [Handlers -> Requests]
           /\ req'[h].pc = pc /\ req'[h].op = req[h].op
           /\ req'[h].exp = req[h].exp /\ req'[h].row = req[h].row
           /\ \A g \in Handlers \ {h} : req'[g] = req[g]
<1>1. req[h] \in [op : Ops, pc : Pcs \ {"idle"}, exp : Experiments, row : Rows]
  BY Requesting
<1>2. [req[h] EXCEPT !.pc = pc] \in Requests
  BY <1>1 DEF Requests
<1>3. /\ req' \in [Handlers -> Requests]
      /\ req'[h] = [req[h] EXCEPT !.pc = pc]
      /\ \A g \in Handlers \ {h} : req'[g] = req[g]
  BY <1>2 DEF Goto, TypeInv
<1> QED  BY <1>1, <1>3

\* The table after a handler ends.
LEMMA Ending ==
    ASSUME TypeInv, NEW h \in Handlers, Done(h)
    PROVE  /\ req' \in [Handlers -> Requests] /\ req'[h] = Idle
           /\ \A g \in Handlers \ {h} : req'[g] = req[g]
<1>1. Idle \in Requests
  BY DEF Requests
<1> QED  BY <1>1 DEF Done, TypeInv

\* The table after a handler has read its row.
LEMMA Reading ==
    ASSUME TypeInv, NEW h \in Handlers, req[h].pc = "read", Read(h, "publish")
    PROVE  /\ req'[h].exp = req[h].exp /\ req'[h].row = db[req[h].exp].state
           /\ req'[h].pc = "publish" /\ req'[h].op = req[h].op
           /\ \A g \in Handlers \ {h} : req'[g] = req[g]
<1>1. /\ req[h] \in [op : Ops, pc : Pcs \ {"idle"}, exp : Experiments, row : Rows]
      /\ req' = [req EXCEPT ![h].row = db[req[h].exp].state, ![h].pc = "publish"]
  BY Requesting, IdleFields DEF Read
<1> QED  BY <1>1 DEF TypeInv

\* What TypeInv says of the requests, when one of them ends and the table of
\* the experiments loses none.
LEMMA DoneTypes ==
    ASSUME TypeInv, NEW h \in Handlers, Done(h), UNCHANGED db
    PROVE  /\ req' \in [Handlers -> Requests]
           /\ \A g \in Handlers : /\ req'[g].pc = "publish" => req'[g].row \in States
                                  /\ req'[g] # Idle => db'[req'[g].exp].state # "none"
<1>1. /\ req' \in [Handlers -> Requests] /\ req'[h] = Idle
      /\ \A g \in Handlers \ {h} : req'[g] = req[g]
  BY Ending
<1>2. Idle.pc # "publish"
  BY DEF Idle
<1>3. ASSUME NEW g \in Handlers
      PROVE  /\ req'[g].pc = "publish" => req'[g].row \in States
             /\ req'[g] # Idle => db'[req'[g].exp].state # "none"
  <2>1. CASE g = h
    BY <1>1, <1>2, <2>1
  <2>2. CASE g # h
    BY <1>1, <2>2 DEF TypeInv
  <2> QED  BY <2>1, <2>2
<1> QED  BY <1>1, <1>3

LEMMA StepType ==
    ASSUME TypeInv, NEW h \in Handlers, req[h] # Idle, NEW t \in Edges,
           NEW next \in Pcs \ {"idle", "publish"}, Step(h, t, next)
    PROVE  TypeInv'
<1> DEFINE e == req[h].exp
<1>1. e \in Experiments
  BY Requesting
<1>2. /\ db' \in [Experiments -> [state : Rows, type : Types, config : {"valid", "invalid"}]]
      /\ \A f \in Experiments : db[f].state # "none" => db'[f].state # "none"
  BY <1>1, UpdateRow DEF Step
<1>3. Goto(h, next) \/ Done(h)
  BY DEF Step
<1>4. /\ req' \in [Handlers -> Requests]
      /\ req'[h] = Idle \/ (req'[h].pc = next /\ req'[h].exp = e)
      /\ \A g \in Handlers \ {h} : req'[g] = req[g]
  <2>1. CASE Goto(h, next)
    <3>1. next \in Pcs \ {"idle"}
      OBVIOUS
    <3> QED  BY <2>1, <3>1, Going
  <2>2. CASE Done(h)
    BY <2>2, Ending
  <2> QED  BY <1>3, <2>1, <2>2
<1>5. ASSUME NEW g \in Handlers
      PROVE  /\ req'[g].pc = "publish" => req'[g].row \in States
             /\ req'[g] # Idle => db'[req'[g].exp].state # "none"
  <2>1. CASE g # h
    BY <1>2, <1>4, <2>1, Requesting DEF TypeInv
  <2>2. CASE g = h
    BY <1>1, <1>2, <1>4, <2>2, IdleFields DEF TypeInv
  <2> QED  BY <2>1, <2>2
<1> QED  BY <1>2, <1>4, <1>5 DEF TypeInv, Step

LEMMA ReadType ==
    ASSUME TypeInv, NEW h \in Handlers, req[h] # Idle, Read(h, "publish")
    PROVE  TypeInv'
<1> DEFINE e == req[h].exp
<1>1. e \in Experiments /\ db[e].state \in States
  BY Requesting DEF TypeInv, Rows
<1>2. req[h] \in [op : Ops, pc : Pcs \ {"idle"}, exp : Experiments, row : Rows]
  BY DEF TypeInv, Requests
<1>3. req'[h] \in [op : Ops, pc : Pcs \ {"idle"}, exp : Experiments, row : Rows]
  BY <1>1, <1>2 DEF Read, TypeInv, Pcs, Rows
<1>4. /\ req' \in [Handlers -> Requests]
      /\ req'[h].row \in States /\ req'[h].exp = e
      /\ \A g \in Handlers \ {h} : req'[g] = req[g]
  BY <1>1, <1>2, <1>3 DEF Read, TypeInv, Requests
<1>5. \A g \in Handlers : /\ req'[g].pc = "publish" => req'[g].row \in States
                          /\ req'[g] # Idle => db[req'[g].exp].state # "none"
  BY <1>1, <1>4 DEF TypeInv, States
<1> QED  BY <1>4, <1>5 DEF TypeInv, Read

LEMMA PublishType ==
    ASSUME TypeInv, NEW h \in Handlers, req[h].pc = "publish", NEW d \in BOOLEAN, publish(h, d)
    PROVE  TypeInv'
<1>1. req[h] # Idle /\ req[h].exp \in Experiments /\ req[h].row \in States
  BY Requesting DEF TypeInv, Idle
<1>3. [exp |-> req[h].exp, state |-> req[h].row, deletion |-> d, version |-> version] \in Entries
  BY <1>1 DEF TypeInv, Entries
<1>4. log' \in Seq(Entries) /\ Len(log') = Len(log) + 1
  BY <1>3 DEF TypeInv, publish
<1>5. m1' \in Clients /\ m1'.pos <= Len(log')
  BY <1>4 DEF TypeInv, Clients, publish
<1>6. version' \in Nat /\ missed' \in SUBSET Experiments
  BY <1>1 DEF TypeInv, publish
<1> QED  BY <1>4, <1>5, <1>6, DoneTypes DEF TypeInv, publish

LEMMA BeginType ==
    ASSUME TypeInv, NEW h \in Handlers, NEW op \in Ops, NEW e \in Experiments, Begin(h, op, e)
    PROVE  TypeInv'
<1>1. [op |-> op, pc |-> "transition", exp |-> e, row |-> "none"] \in Requests
  BY DEF Requests, Pcs, Rows
<1>2. /\ req' \in [Handlers -> Requests]
      /\ req'[h] = [op |-> op, pc |-> "transition", exp |-> e, row |-> "none"]
      /\ \A g \in Handlers \ {h} : req'[g] = req[g]
  BY <1>1 DEF TypeInv, Begin
<1>3. \A g \in Handlers : /\ req'[g].pc = "publish" => req'[g].row \in States
                          /\ req'[g] # Idle => db[req'[g].exp].state # "none"
  BY <1>2 DEF TypeInv, Begin
<1>4. raced' \in SUBSET Experiments
  BY DEF TypeInv, Begin
<1> QED  BY <1>2, <1>3, <1>4 DEF TypeInv, Begin

LEMMA HandlerFailsType ==
    ASSUME TypeInv, NEW h \in Handlers, HandlerFails(h)
    PROVE  TypeInv'
<1>1. raced' \in SUBSET Experiments
  BY Requesting DEF TypeInv, HandlerFails
<1> QED  BY <1>1, DoneTypes DEF TypeInv, HandlerFails

LEMMA CreateType ==
    ASSUME TypeInv, NEW e \in Experiments, create_experiment(e)
    PROVE  TypeInv'
<1>1. /\ db' \in [Experiments -> [state : Rows, type : Types, config : {"valid", "invalid"}]]
      /\ \A f \in Experiments : db[f].state # "none" => db'[f].state # "none"
  BY DEF TypeInv, create_experiment, Rows, States
<1>2. \A g \in Handlers : req[g] # Idle => db'[req[g].exp].state # "none"
  BY <1>1, Requesting DEF TypeInv
<1> QED  BY <1>1, <1>2 DEF TypeInv, create_experiment

\* The transitions of the handlers: where a request is, the UPDATE it
\* issues, and where it goes on.
Transits == {
    [op |-> "start", pc |-> "transition", edge |-> start_transition, next |-> "validate"],
    [op |-> "start", pc |-> "run", edge |-> run_transition, next |-> "read"],
    [op |-> "pause", pc |-> "transition", edge |-> pause_transition, next |-> "read"],
    [op |-> "resume", pc |-> "transition", edge |-> resume_transition, next |-> "read"],
    [op |-> "conclude", pc |-> "transition", edge |-> conclude_transition, next |-> "mark"],
    [op |-> "archive", pc |-> "transition", edge |-> archive_transition, next |-> "read"]}

Validates(h) ==
    /\ At(h, "start", "validate")
    /\ Goto(h, IF validate_starting(experiment_row_to_proto(req[h].exp)) THEN "run" ELSE "revert")
    /\ UNCHANGED <<db, version, log, m1, alerts, raced, missed, used>>
Reverts(h) ==
    /\ At(h, "start", "revert")
    /\ Update(req[h].exp, revert_to_draft) /\ Done(h)
    /\ UNCHANGED <<version, log, m1, alerts, raced, missed, used>>
Marks(h) ==
    /\ At(h, "conclude", "mark") /\ Goto(h, "read")
    /\ Update(req[h].exp, mark_concluded) \/ UNCHANGED db
    /\ UNCHANGED <<version, log, m1, alerts, raced, missed>>
Announces(h) ==
    \E d \in BOOLEAN : publish(h, d) /\ (d <=> req[h].op \in {"conclude", "archive"})

Handles(h) ==
    \/ start_experiment(h) \/ pause_experiment(h) \/ resume_experiment(h)
    \/ conclude_experiment(h) \/ archive_experiment(h)

\* The steps of the five handlers, by what they do.
LEMMA HandlerSteps ==
    ASSUME NEW h \in Handlers, Handles(h)
    PROVE  \/ \E x \in Transits : At(h, x.op, x.pc) /\ Step(h, x.edge, x.next)
           \/ Validates(h) \/ Reverts(h) \/ Marks(h)
           \/ req[h].pc = "read" /\ Read(h, "publish")
           \/ req[h].pc = "publish" /\ Announces(h)
<1>1. CASE start_experiment(h)
  <2>1. At(h, "start", "transition") /\ Step(h, start_transition, "validate") =>
            \E x \in Transits : At(h, x.op, x.pc) /\ Step(h, x.edge, x.next)
    BY DEF Transits
  <2>2. At(h, "start", "run") /\ Step(h, run_transition, "read") =>
            \E x \in Transits : At(h, x.op, x.pc) /\ Step(h, x.edge, x.next)
    BY DEF Transits
  <2>3. At(h, "start", "publish") /\ publish(h, FALSE) => Announces(h)
    BY DEF Announces, At
  <2> QED  BY <1>1, <2>1, <2>2, <2>3 DEF start_experiment, Validates, Reverts, At
<1>2. CASE pause_experiment(h)
  <2>1. At(h, "pause", "transition") /\ Step(h, pause_transition, "read") =>
            \E x \in Transits : At(h, x.op, x.pc) /\ Step(h, x.edge, x.next)
    BY DEF Transits
  <2>2. At(h, "pause", "publish") /\ publish(h, FALSE) => Announces(h)
    BY DEF Announces, At
  <2> QED  BY <1>2, <2>1, <2>2 DEF pause_experiment, At
<1>3. CASE resume_experiment(h)
  <2>1. At(h, "resume", "transition") /\ Step(h, resume_transition, "read") =>
            \E x \in Transits : At(h, x.op, x.pc) /\ Step(h, x.edge, x.next)
    BY DEF Transits
  <2>2. At(h, "resume", "publish") /\ publish(h, FALSE) => Announces(h)
    BY DEF Announces, At
  <2> QED  BY <1>3, <2>1, <2>2 DEF resume_experiment, At
<1>4. CASE conclude_experiment(h)
  <2>1. At(h, "conclude", "transition") /\ Step(h, conclude_transition, "mark") =>
            \E x \in Transits : At(h, x.op, x.pc) /\ Step(h, x.edge, x.next)
    BY DEF Transits
  <2>2. At(h, "conclude", "publish") /\ publish(h, TRUE) => Announces(h)
    BY DEF Announces, At
  <2> QED  BY <1>4, <2>1, <2>2 DEF conclude_experiment, Marks, At
<1>5. CASE archive_experiment(h)
  <2>1. At(h, "archive", "transition") /\ Step(h, archive_transition, "read") =>
            \E x \in Transits : At(h, x.op, x.pc) /\ Step(h, x.edge, x.next)
    BY DEF Transits
  <2>2. At(h, "archive", "publish") /\ publish(h, TRUE) => Announces(h)
    BY DEF Announces, At
  <2> QED  BY <1>5, <2>1, <2>2 DEF archive_experiment, At
<1> QED  BY <1>1, <1>2, <1>3, <1>4, <1>5 DEF Handles

LEMMA TransitTypes ==
    \A x \in Transits : /\ x.edge \in Edges /\ x.next \in Pcs \ {"idle", "publish"}
                        /\ x.pc \in Pcs \ {"idle"}
  BY DEF Transits, Edges, Pcs

\* A handler that goes on, with or without an UPDATE of its experiment.
LEMMA MoveType ==
    ASSUME TypeInv, NEW h \in Handlers, req[h] # Idle, NEW pc \in Pcs \ {"idle", "publish"},
           Goto(h, pc), NEW t \in Edges, Update(req[h].exp, t) \/ UNCHANGED db,
           UNCHANGED <<version, log, m1, alerts, raced, missed>>
    PROVE  TypeInv'
<1> DEFINE e == req[h].exp
<1>1. e \in Experiments
  BY Requesting
<1>2. /\ db' \in [Experiments -> [state : Rows, type : Types, config : {"valid", "invalid"}]]
      /\ \A f \in Experiments : db[f].state # "none" => db'[f].state # "none"
  <2>1. CASE Update(e, t)
    BY <1>1, <2>1, UpdateRow
  <2>2. CASE UNCHANGED db
    BY <2>2 DEF TypeInv
  <2> QED  BY <2>1, <2>2
<1>3. /\ req' \in [Handlers -> Requests] /\ req'[h].pc = pc /\ req'[h].exp = e
      /\ \A g \in Handlers \ {h} : req'[g] = req[g]
  BY Going
<1>4. ASSUME NEW g \in Handlers
      PROVE  /\ req'[g].pc = "publish" => req'[g].row \in States
             /\ req'[g] # Idle => db'[req'[g].exp].state # "none"
  <2>1. CASE g # h
    BY <1>2, <1>3, <2>1, Requesting DEF TypeInv
  <2>2. CASE g = h
    BY <1>1, <1>2, <1>3, <2>2 DEF TypeInv
  <2> QED  BY <2>1, <2>2
<1> QED  BY <1>2, <1>3, <1>4 DEF TypeInv

LEMMA RevertType ==
    ASSUME TypeInv, NEW h \in Handlers, Reverts(h)
    PROVE  TypeInv'
<1> DEFINE e == req[h].exp
<1>1. req[h] # Idle /\ e \in Experiments /\ revert_to_draft \in Edges
  BY Requesting, IdleFields DEF Reverts, At, Edges
<1>2. /\ db' \in [Experiments -> [state : Rows, type : Types, config : {"valid", "invalid"}]]
      /\ \A f \in Experiments : db[f].state # "none" => db'[f].state # "none"
  BY <1>1, UpdateRow DEF Reverts
<1>3. /\ req' \in [Handlers -> Requests] /\ req'[h] = Idle
      /\ \A g \in Handlers \ {h} : req'[g] = req[g]
  BY Ending DEF Reverts
<1>4. ASSUME NEW g \in Handlers
      PROVE  /\ req'[g].pc = "publish" => req'[g].row \in States
             /\ req'[g] # Idle => db'[req'[g].exp].state # "none"
  <2>1. CASE g # h
    BY <1>2, <1>3, <2>1, Requesting DEF TypeInv
  <2>2. CASE g = h
    BY <1>3, <2>2, IdleFields
  <2> QED  BY <2>1, <2>2
<1> QED  BY <1>2, <1>3, <1>4 DEF TypeInv, Reverts

LEMMA HandlerType ==
    ASSUME TypeInv, NEW h \in Handlers, Handles(h)
    PROVE  TypeInv'
<1>1. CASE \E x \in Transits : At(h, x.op, x.pc) /\ Step(h, x.edge, x.next)
  <2>1. PICK x \in Transits : At(h, x.op, x.pc) /\ Step(h, x.edge, x.next)
    BY <1>1
  <2>2. req[h] # Idle /\ x.edge \in Edges /\ x.next \in Pcs \ {"idle", "publish"}
    BY <2>1, TransitTypes, IdleFields DEF At
  <2> QED  BY <2>1, <2>2, StepType
<1>2. CASE Validates(h)
  <2>1. req[h] # Idle /\ revert_to_draft \in Edges
    BY <1>2, IdleFields DEF Validates, At, Edges
  <2>2. PICK pc \in {"run", "revert"} : Goto(h, pc)
    BY <1>2 DEF Validates
  <2>3. pc \in Pcs \ {"idle", "publish"}
    BY DEF Pcs
  <2> QED  BY <1>2, <2>1, <2>2, <2>3, MoveType DEF Validates
<1>3. CASE Reverts(h)
  BY <1>3, RevertType
<1>4. CASE Marks(h)
  <2>1. req[h] # Idle /\ mark_concluded \in Edges /\ "read" \in Pcs \ {"idle", "publish"}
    BY <1>4, IdleFields DEF Marks, At, Edges, Pcs
  <2> QED  BY <1>4, <2>1, MoveType DEF Marks
<1>5. CASE req[h].pc = "read" /\ Read(h, "publish")
  BY <1>5, ReadType, IdleFields
<1>6. CASE req[h].pc = "publish" /\ Announces(h)
  BY <1>6, PublishType DEF Announces
<1> QED  BY <1>1, <1>2, <1>3, <1>4, <1>5, <1>6, HandlerSteps

AlertStates == [topic : Seq(Experiments), pos : Nat, committed : Nat]

LEMMA AlertTypes ==
    ASSUME TypeInv,
           (\E e \in Experiments : AlertArrives(e)) \/ consume_guardrail_alert \/ commit_consumer_state
    PROVE  TypeInv'
<1>0. /\ alerts \in AlertStates /\ alerts.topic \in Seq(Experiments)
      /\ alerts.pos \in Nat /\ alerts.committed \in Nat
      /\ alerts.committed <= alerts.pos /\ alerts.pos <= Len(alerts.topic)
  BY DEF TypeInv, AlertStates
<1>1. ASSUME NEW e \in Experiments, AlertArrives(e)
      PROVE  TypeInv'
  <2>1. alerts' = [alerts EXCEPT !.topic = Append(alerts.topic, e)]
    BY <1>1 DEF AlertArrives
  <2>2. /\ Append(alerts.topic, e) \in Seq(Experiments)
        /\ Len(Append(alerts.topic, e)) = Len(alerts.topic) + 1
    BY <1>0
  <2>3. /\ alerts' \in AlertStates /\ alerts'.topic = Append(alerts.topic, e)
        /\ alerts'.pos = alerts.pos /\ alerts'.committed = alerts.committed
    BY <1>0, <2>1, <2>2 DEF AlertStates
  <2>4. alerts'.committed <= alerts'.pos /\ alerts'.pos <= Len(alerts'.topic)
    BY <1>0, <2>2, <2>3
  <2> QED  BY <1>1, <2>3, <2>4 DEF TypeInv, AlertArrives, AlertStates
<1>2. CASE consume_guardrail_alert
  <2> DEFINE e == alerts.topic[alerts.pos + 1]
  <2>0. alerts.pos < Len(alerts.topic) /\ alerts' = [alerts EXCEPT !.pos = alerts.pos + 1]
    BY <1>2 DEF consume_guardrail_alert
  <2>1. /\ alerts' \in AlertStates
        /\ alerts'.committed <= alerts'.pos /\ alerts'.pos <= Len(alerts'.topic)
    <3>1. alerts' \in AlertStates /\ alerts'.topic = alerts.topic
          /\ alerts'.pos = alerts.pos + 1 /\ alerts'.committed = alerts.committed
      BY <1>0, <2>0 DEF AlertStates
    <3> QED  BY <1>0, <2>0, <3>1
  <2>2. e \in Experiments /\ pause_transition \in Edges
    BY <1>0, <2>0 DEF Edges
  <2>3. Update(e, pause_transition) \/ UNCHANGED db
    BY <1>2 DEF consume_guardrail_alert
  <2>4. /\ db' \in [Experiments -> [state : Rows, type : Types, config : {"valid", "invalid"}]]
        /\ \A f \in Experiments : db[f].state # "none" => db'[f].state # "none"
    <3>1. CASE Update(e, pause_transition)
      BY <2>2, <3>1, UpdateRow
    <3>2. CASE UNCHANGED db
      BY <3>2 DEF TypeInv
    <3> QED  BY <2>3, <3>1, <3>2
  <2>5. raced' \in SUBSET Experiments
    BY <1>2, <2>2 DEF consume_guardrail_alert, TypeInv
  <2>6. \A g \in Handlers : req[g] # Idle => db'[req[g].exp].state # "none"
    BY <2>4, Requesting DEF TypeInv
  <2> QED  BY <1>2, <2>1, <2>4, <2>5, <2>6 DEF TypeInv, consume_guardrail_alert, AlertStates
<1>3. CASE commit_consumer_state
  <2>1. alerts' = [alerts EXCEPT !.committed = alerts.pos]
    BY <1>3 DEF commit_consumer_state
  <2>2. /\ alerts' \in AlertStates /\ alerts'.topic = alerts.topic
        /\ alerts'.pos = alerts.pos /\ alerts'.committed = alerts.pos
    BY <1>0, <2>1 DEF AlertStates
  <2> QED  BY <1>0, <1>3, <2>2 DEF TypeInv, commit_consumer_state, AlertStates
<1> QED  BY <1>1, <1>2, <1>3

\* What the events behind a position are about.
LEMMA EventsOf ==
    ASSUME TypeInv, NEW i \in 1 .. Len(log)
    PROVE  log[i] \in Entries /\ log[i].exp \in Experiments
<1>1. log[i] \in Entries
  BY DEF TypeInv
<1> QED  BY <1>1 DEF Entries

\* An event that is applied leaves the rest of the view as it is.
LEMMA Applied ==
    ASSUME TypeInv, m1.pos < Len(log)
    PROVE  /\ Apply(m1, log[m1.pos + 1]) \in Clients
           /\ Apply(m1, log[m1.pos + 1]).pos = m1.pos + 1
           /\ Apply(m1, log[m1.pos + 1]).stream = m1.stream
           /\ Apply(m1, log[m1.pos + 1]).rows = m1.rows
           /\ \A e \in Experiments :
                Apply(m1, log[m1.pos + 1]).view[e] =
                    IF log[m1.pos + 1].exp = e THEN Shown(log[m1.pos + 1]) ELSE m1.view[e]
<1> DEFINE event == log[m1.pos + 1]
<1>1. m1 \in Clients /\ m1.pos + 1 \in 1 .. Len(log) /\ m1.pos + 1 \in Nat
  BY DEF TypeInv, Clients
<1>2. event \in Entries /\ event.exp \in Experiments
  BY <1>1, EventsOf
<1>3. Shown(event) \in States \cup {Absent}
  BY <1>2 DEF Shown, Visible, Entries
<1> DEFINE known == Later(event.version, m1.known)
           view == [m1.view EXCEPT ![event.exp] = Shown(event)]
<1>4. known \in Nat
  BY <1>1, <1>2 DEF Clients, Entries, Later
<1>5. view \in [Experiments -> States \cup {Absent}]
  BY <1>1, <1>2, <1>3 DEF Clients
<1>6. Apply(m1, event) = [m1 EXCEPT !.view = view, !.known = known, !.pos = m1.pos + 1]
  BY <1>1, <1>2 DEF Apply, Shown, Clients
<1>7. /\ Apply(m1, event) \in Clients /\ Apply(m1, event).pos = m1.pos + 1
      /\ Apply(m1, event).stream = m1.stream /\ Apply(m1, event).view = view
      /\ Apply(m1, event).rows = m1.rows
  <2> HIDE DEF event, known, view
  <2> QED  BY <1>1, <1>4, <1>5, <1>6 DEF Clients
<1>8. \A e \in Experiments : view[e] = IF event.exp = e THEN Shown(event) ELSE m1.view[e]
  BY <1>1, <1>2 DEF Clients
<1> QED  BY <1>7, <1>8

\* A step of the stream is the stream's alone.
LEMMA StreamFrame ==
    Streaming => UNCHANGED <<db, req, version, log, alerts, raced>>
  BY DEF Streaming, stream_config_updates, subscribe, ListActive, SendRow, EndBackfill, Deliver, Disconnect

LEMMA Loads ==
    ASSUME TypeInv, stream_config_updates
    PROVE  /\ m1' \in Clients /\ m1'.pos = m1.pos /\ m1'.view = m1.view /\ m1'.rows = m1.rows
           /\ m1'.stream = "loaded" /\ m1.stream = "closed" /\ missed' = missed
<1>1. m1 \in Clients /\ version \in Nat /\ m1' = [m1 EXCEPT !.stream = "loaded", !.backfill = version]
  BY DEF TypeInv, stream_config_updates
<1> QED  BY <1>1 DEF Clients, stream_config_updates

\* The receiver exists: what is in the log already will not be delivered.
LEMMA Subscribes ==
    ASSUME TypeInv, subscribe
    PROVE  /\ m1' \in Clients /\ m1'.pos = Len(log) /\ m1'.view = m1.view /\ m1'.rows = m1.rows
           /\ m1'.stream \in {"behind", "live"} /\ m1.stream = "loaded" /\ missed' = missed
<1>1. m1 \in Clients /\ Len(log) \in Nat
  BY DEF TypeInv
<1>2. PICK s \in {"behind", "live"} : m1' = [m1 EXCEPT !.stream = s, !.pos = Len(log)]
  BY DEF subscribe
<1> QED  BY <1>1, <1>2 DEF Clients, subscribe

LEMMA Listed ==
    ASSUME TypeInv, ListActive
    PROVE  /\ m1' \in Clients /\ m1'.pos = m1.pos /\ m1'.view = m1.view /\ missed' = missed
           /\ \/ m1'.stream = "backfill" /\ \A e \in Experiments : m1'.rows[e] = Visible(db[e].state)
              \/ m1'.stream = "live" /\ m1'.rows = m1.rows
<1> DEFINE rows == [e \in Experiments |-> Visible(db[e].state)]
<1>1. m1 \in Clients
  BY DEF TypeInv
<1>2. rows \in [Experiments -> Active \cup {Absent}]
  BY DEF Visible
<1>3. CASE m1' = [m1 EXCEPT !.stream = "backfill", !.rows = rows]
  <2>1. m1' \in Clients /\ m1'.pos = m1.pos /\ m1'.view = m1.view /\ m1'.stream = "backfill" /\ m1'.rows = rows
    <3> HIDE DEF rows
    <3> QED  BY <1>1, <1>2, <1>3 DEF Clients
  <2> QED  BY <2>1 DEF ListActive
<1>4. CASE m1' = [m1 EXCEPT !.stream = "live"]
  BY <1>1, <1>4 DEF Clients, ListActive
<1> QED  BY <1>3, <1>4 DEF ListActive

\* A row is sent and shown, or its variants cannot be read.
LEMMA RowSent ==
    ASSUME TypeInv, NEW e \in Experiments, SendRow(e)
    PROVE  /\ m1' \in Clients /\ m1'.pos = m1.pos
           /\ m1.stream = "backfill" /\ m1'.stream = "backfill" /\ m1.rows[e] # Absent
           /\ \A f \in Experiments : m1'.rows[f] = IF f = e THEN Absent ELSE m1.rows[f]
           /\ \/ /\ missed' = missed \ {e}
                 /\ \A f \in Experiments : m1'.view[f] = IF f = e THEN m1.rows[e] ELSE m1.view[f]
              \/ missed' = missed /\ m1'.view = m1.view
<1> DEFINE rows == [m1.rows EXCEPT ![e] = Absent]
           view == [m1.view EXCEPT ![e] = m1.rows[e]]
           known == Later(m1.backfill, m1.known)
<1>1. m1 \in Clients /\ m1.stream = "backfill" /\ m1.rows[e] # Absent
  BY DEF TypeInv, SendRow
<1>2. /\ rows \in [Experiments -> Active \cup {Absent}]
      /\ view \in [Experiments -> States \cup {Absent}]
      /\ known \in Nat
  BY <1>1 DEF Clients, Active, States, Later
<1>3. /\ \A f \in Experiments : rows[f] = IF f = e THEN Absent ELSE m1.rows[f]
      /\ \A f \in Experiments : view[f] = IF f = e THEN m1.rows[e] ELSE m1.view[f]
  BY <1>1 DEF Clients
<1>4. CASE m1' = [m1 EXCEPT !.rows = rows, !.view = view, !.known = known] /\ missed' = missed \ {e}
  <2>1. m1' \in Clients /\ m1'.pos = m1.pos /\ m1'.stream = m1.stream /\ m1'.rows = rows /\ m1'.view = view
    <3> HIDE DEF rows, view, known
    <3> QED  BY <1>1, <1>2, <1>4 DEF Clients
  <2> QED  BY <1>1, <1>3, <1>4, <2>1
<1>5. CASE m1' = [m1 EXCEPT !.rows = rows] /\ missed' = missed
  <2>1. m1' \in Clients /\ m1'.pos = m1.pos /\ m1'.stream = m1.stream /\ m1'.rows = rows /\ m1'.view = m1.view
    <3> HIDE DEF rows
    <3> QED  BY <1>1, <1>2, <1>5 DEF Clients
  <2> QED  BY <1>1, <1>3, <1>5, <2>1
<1> QED  BY <1>1, <1>4, <1>5 DEF SendRow, Clients

LEMMA BackfillEnds ==
    ASSUME TypeInv, EndBackfill
    PROVE  /\ m1' \in Clients /\ m1'.pos = m1.pos /\ m1'.view = m1.view /\ m1'.rows = m1.rows
           /\ m1'.stream = "live" /\ missed' = missed
<1>1. m1 \in Clients /\ m1' = [m1 EXCEPT !.stream = "live", !.pos = m1.pos]
  BY DEF TypeInv, EndBackfill, ReceiveFrom
<1> QED  BY <1>1 DEF Clients, EndBackfill

\* The receiver skips what the channel no longer holds, or applies an event.
LEMMA Delivered ==
    ASSUME TypeInv, Deliver
    PROVE  \/ /\ m1' \in Clients /\ m1'.stream = "live" /\ m1'.view = m1.view
              /\ m1'.pos \in m1.pos .. Len(log) /\ m1'.rows = m1.rows
              /\ missed' = missed \cup {log[i].exp : i \in m1.pos + 1 .. m1'.pos}
           \/ /\ m1.pos < Len(log) /\ m1' = Apply(m1, log[m1.pos + 1])
              /\ missed' = missed \ {log[m1.pos + 1].exp}
<1>1. m1 \in Clients /\ Len(log) \in Nat /\ m1.pos \in Nat /\ Capacity \in Nat
  BY PortAssumption DEF TypeInv, Clients
<1>2. CASE m1.pos < Len(log) - Capacity
  <2>1. Len(log) - Capacity \in Nat /\ Len(log) - Capacity \in m1.pos .. Len(log)
    BY <1>1, <1>2
  <2>2. m1' = [m1 EXCEPT !.pos = Len(log) - Capacity] /\ m1.stream = "live"
    BY <1>2 DEF Deliver
  <2>3. /\ m1' \in Clients /\ m1'.stream = "live" /\ m1'.view = m1.view
        /\ m1'.pos = Len(log) - Capacity /\ m1'.rows = m1.rows
    BY <1>1, <2>1, <2>2 DEF Clients
  <2> QED  BY <1>2, <2>1, <2>3 DEF Deliver
<1>3. CASE ~(m1.pos < Len(log) - Capacity)
  BY <1>3 DEF Deliver
<1> QED  BY <1>2, <1>3

\* What was queued on a stream that breaks is missing.
LEMMA Disconnected ==
    ASSUME TypeInv, Disconnect
    PROVE  /\ m1' \in Clients /\ m1'.pos = m1.pos /\ m1'.view = m1.view /\ m1'.stream = "closed"
           /\ m1'.rows = NothingListed
           /\ missed' = missed \cup {log[i].exp : i \in m1.pos + 1 .. Len(log)}
<1>1. m1 \in Clients /\ m1' = [m1 EXCEPT !.stream = "closed", !.rows = NothingListed]
  BY DEF TypeInv, Disconnect
<1>2. NothingListed \in [Experiments -> Active \cup {Absent}]
  BY DEF NothingListed
<1> QED  BY <1>1, <1>2 DEF Clients, Disconnect

\* The connection ends with the process.
LEMMA Restarted ==
    ASSUME TypeInv, Restart
    PROVE  /\ m1' \in Clients /\ m1'.pos = 0 /\ m1'.view = m1.view /\ m1'.stream = "closed"
           /\ m1'.rows = NothingListed /\ log' = <<>>
<1>1. m1 \in Clients /\ m1' = [m1 EXCEPT !.stream = "closed", !.pos = 0, !.rows = NothingListed]
  BY DEF TypeInv, Restart, Cut
<1>2. NothingListed \in [Experiments -> Active \cup {Absent}]
  BY DEF NothingListed
<1>3. log' = <<>>
  BY DEF Restart
<1> QED  BY <1>1, <1>2, <1>3 DEF Clients

LEMMA StreamTypes ==
    ASSUME TypeInv, Streaming
    PROVE  TypeInv'
<1>0. m1.pos \in Nat /\ Len(log) \in Nat /\ m1.pos <= Len(log) /\ missed \in SUBSET Experiments
  BY DEF TypeInv, Clients
<1>1. m1' \in Clients /\ m1'.pos <= Len(log) /\ missed' \in SUBSET Experiments
  <2>1. CASE stream_config_updates \/ subscribe \/ ListActive \/ EndBackfill
    BY <1>0, <2>1, Loads, Subscribes, Listed, BackfillEnds
  <2>2. ASSUME NEW e \in Experiments, SendRow(e)
        PROVE  m1' \in Clients /\ m1'.pos <= Len(log) /\ missed' \in SUBSET Experiments
    BY <1>0, <2>2, RowSent
  <2>3. CASE Deliver
    BY <1>0, <2>3, Delivered, Applied, EventsOf
  <2>4. CASE Disconnect
    BY <1>0, <2>4, Disconnected, EventsOf
  <2> QED  BY <2>1, <2>2, <2>3, <2>4 DEF Streaming
<1> QED  BY <1>1, StreamFrame DEF TypeInv

LEMMA RestartType ==
    ASSUME TypeInv, Restart
    PROVE  TypeInv'
<1>0. m1 \in Clients /\ m1.pos \in Nat /\ m1.pos <= Len(log) /\ Len(log) \in Nat
  BY DEF TypeInv, Clients
<1>1. m1' \in Clients /\ m1'.pos = 0 /\ Len(log') = 0 /\ log' \in Seq(Entries)
  BY Restarted
<1>2. /\ alerts' \in AlertStates
      /\ alerts'.committed <= alerts'.pos /\ alerts'.pos <= Len(alerts'.topic)
  <2>1. /\ alerts \in AlertStates /\ alerts.topic \in Seq(Experiments)
        /\ alerts.pos \in Nat /\ alerts.committed \in Nat
        /\ alerts.committed <= alerts.pos /\ alerts.pos <= Len(alerts.topic)
    BY DEF TypeInv, AlertStates
  <2>2. alerts' = [alerts EXCEPT !.pos = alerts.committed]
    BY DEF Restart
  <2>3. /\ alerts' \in AlertStates /\ alerts'.topic = alerts.topic
        /\ alerts'.pos = alerts.committed /\ alerts'.committed = alerts.committed
    BY <2>1, <2>2 DEF AlertStates
  <2> QED  BY <2>1, <2>3
<1>3. /\ req' \in [Handlers -> Requests]
      /\ \A h \in Handlers : req'[h] = Idle
  BY DEF Restart, Requests
<1>4. missed' \in SUBSET Experiments /\ raced' \in SUBSET Experiments
  BY <1>0, EventsOf DEF Restart, TypeInv
<1>5. \A h \in Handlers : req'[h].pc # "publish"
  BY <1>3, IdleFields
<1> QED  BY <1>1, <1>2, <1>3, <1>4, <1>5 DEF TypeInv, Restart, Clients, AlertStates

LEMMA InitType == Init => TypeInv
<1> SUFFICES ASSUME Init PROVE TypeInv
  OBVIOUS
<1>1. db \in [Experiments -> [state : Rows, type : Types, config : {"valid", "invalid"}]]
  BY DEF Init, Rows
<1>2. req \in [Handlers -> Requests] /\ \A h \in Handlers : req[h] = Idle
  BY DEF Init, Requests
<1>3. m1 \in Clients /\ m1.pos <= Len(log)
  BY DEF Init, Clients, NothingListed
<1>4. \A h \in Handlers : req[h].pc # "publish"
  BY <1>2, IdleFields
<1> QED  BY <1>1, <1>2, <1>3, <1>4 DEF Init, TypeInv, Clients

LEMMA NextType == TypeInv /\ [Next]_vars => TypeInv'
<1> SUFFICES ASSUME TypeInv, [Next]_vars PROVE TypeInv'
  OBVIOUS
<1>1. ASSUME NEW e \in Experiments, create_experiment(e) PROVE TypeInv'
  BY <1>1, CreateType
<1>2. ASSUME NEW e \in Experiments, AlertArrives(e) PROVE TypeInv'
  BY <1>2, AlertTypes
<1>3. ASSUME NEW h \in Handlers, NEW op \in Ops, NEW e \in Experiments, Begin(h, op, e) PROVE TypeInv'
  BY <1>3, BeginType
<1>4. ASSUME NEW h \in Handlers, Handles(h) PROVE TypeInv'
  BY <1>4, HandlerType
<1>5. ASSUME NEW h \in Handlers, HandlerFails(h) PROVE TypeInv'
  BY <1>5, HandlerFailsType
<1>6. CASE consume_guardrail_alert \/ commit_consumer_state
  BY <1>6, AlertTypes
<1>7. CASE Streaming
  BY <1>7, StreamTypes
<1>8. CASE Restart
  BY <1>8, RestartType
<1>9. CASE UNCHANGED vars
  BY <1>9 DEF TypeInv, vars
<1> QED  BY <1>1, <1>2, <1>3, <1>4, <1>5, <1>6, <1>7, <1>8, <1>9 DEF Next, Handles

\* Types: every request, row, event and view is one the code can have, with
\* any number of handlers, experiments and restarts.
THEOREM TypeCorrect == Spec => []TypeOK
<1>1. TypeInv => TypeOK
  <2> SUFFICES ASSUME TypeInv PROVE TypeOK
    OBVIOUS
  <2>1. ASSUME NEW h \in Handlers
        PROVE  /\ req[h].op \in Ops \cup {"none"} /\ req[h].exp \in Experiments \cup {NoExperiment}
               /\ req[h].pc \in Pcs /\ req[h].row \in Rows
    <3>1. CASE req[h] = Idle
      BY <3>1, IdleFields DEF Pcs, Rows
    <3>2. CASE req[h] # Idle
      BY <3>2, Requesting
    <3> QED  BY <3>1, <3>2
  <2> QED  BY <2>1 DEF TypeInv, TypeOK, Pcs, Rows, Entries, Clients
<1> QED  BY <1>1, InitType, NextType, PTL DEF Spec

-----------------------------------------------------------------------------
(* The state machine.                                                      *)

\* A request that passed validation is about to run the experiment.
Runs(e) == \E h \in Handlers : At(h, "start", "run") /\ req[h].exp = e

LEMMA RunEdge ==
    \A x \in Transits : x.edge = run_transition => x.op = "start" /\ x.pc = "run"
<1>1. /\ run_transition.from # start_transition.from /\ run_transition.from # pause_transition.from
      /\ run_transition.from # resume_transition.from /\ run_transition.from # conclude_transition.from
      /\ run_transition.from # archive_transition.from
  BY DEF run_transition, start_transition, pause_transition, resume_transition, conclude_transition,
         archive_transition
<1> QED  BY <1>1 DEF Transits

\* A step creates one experiment, moves one along an edge, or leaves all of
\* them where they are.
LEMMA DbSteps ==
    ASSUME TypeInv, Next
    PROVE  \/ UNCHANGED db
           \/ \E e \in Experiments : create_experiment(e)
           \/ \E e \in Experiments, t \in Edges : Update(e, t) /\ (t = run_transition => Runs(e))
<1> DEFINE Updates == \E e \in Experiments, t \in Edges : Update(e, t) /\ (t = run_transition => Runs(e))
<1>0. run_transition \notin {revert_to_draft, mark_concluded, pause_transition}
  BY DEF run_transition, revert_to_draft, mark_concluded, pause_transition
<1>1. ASSUME NEW h \in Handlers, Handles(h)
      PROVE  UNCHANGED db \/ Updates
  <2>1. CASE \E x \in Transits : At(h, x.op, x.pc) /\ Step(h, x.edge, x.next)
    <3>1. PICK x \in Transits : At(h, x.op, x.pc) /\ Step(h, x.edge, x.next)
      BY <2>1
    <3>2. req[h].exp \in Experiments /\ x.edge \in Edges
      BY <3>1, TransitTypes, Requesting, IdleFields DEF At
    <3>3. x.edge = run_transition => At(h, "start", "run")
      BY <3>1, RunEdge
    <3> QED  BY <3>1, <3>2, <3>3 DEF Step, Runs
  <2>2. CASE Reverts(h)
    <3>1. req[h].exp \in Experiments /\ revert_to_draft \in Edges
      BY <2>2, Requesting, IdleFields DEF At, Reverts, Edges
    <3> QED  BY <1>0, <2>2, <3>1 DEF Reverts
  <2>3. CASE Marks(h)
    <3>1. req[h].exp \in Experiments /\ mark_concluded \in Edges
      BY <2>3, Requesting, IdleFields DEF At, Marks, Edges
    <3> QED  BY <1>0, <2>3, <3>1 DEF Marks
  <2>4. CASE Validates(h) \/ Read(h, "publish") \/ Announces(h)
    BY <2>4 DEF Validates, Read, Announces, publish
  <2> QED  BY <1>1, <2>1, <2>2, <2>3, <2>4, HandlerSteps
<1>2. ASSUME consume_guardrail_alert
      PROVE  UNCHANGED db \/ Updates
  <2>1. alerts.topic[alerts.pos + 1] \in Experiments /\ pause_transition \in Edges
    BY <1>2 DEF TypeInv, consume_guardrail_alert, Edges
  <2> QED  BY <1>0, <1>2, <2>1 DEF consume_guardrail_alert
<1>3. ASSUME NEW h \in Handlers, HandlerFails(h) \/ \E op \in Ops, e \in Experiments : Begin(h, op, e)
      PROVE  UNCHANGED db
  BY <1>3 DEF HandlerFails, Begin
<1>4. ASSUME \/ \E e \in Experiments : AlertArrives(e)
             \/ commit_consumer_state \/ Streaming
             \/ Restart
      PROVE  UNCHANGED db
  BY <1>4, StreamFrame DEF AlertArrives, commit_consumer_state, Restart
<1> QED  BY <1>1, <1>2, <1>3, <1>4 DEF Next, Handles

LEMMA EdgesAreLegal ==
    \A t \in Edges : \A s \in t.from : t.to \in Successors[s]
  BY DEF Edges, Successors, start_transition, run_transition, revert_to_draft, pause_transition,
         resume_transition, conclude_transition, mark_concluded, archive_transition

\* Whatever runs at the same time, an experiment only moves along the edges
\* of the state machine: the WHERE clause of every UPDATE decides.
THEOREM LegalTransitions == Spec => OnlyLegalTransitions
<1> DEFINE Legal == \A e \in Experiments : db[e].state \notin {"none", db'[e].state}
                        => db'[e].state \in Successors[db[e].state]
<1>1. ASSUME TypeInv, Next PROVE Legal
  <2>1. CASE UNCHANGED db
    BY <2>1
  <2>2. ASSUME NEW e \in Experiments, create_experiment(e) PROVE Legal
    BY <2>2 DEF create_experiment, TypeInv
  <2>3. ASSUME NEW e \in Experiments, NEW t \in Edges, Update(e, t) PROVE Legal
    <3>1. /\ \A f \in Experiments : f # e => db'[f] = db[f]
          /\ db'[e].state = IF Matches(e, t) THEN t.to ELSE db[e].state
      BY <1>1, <2>3, UpdateRow
    <3>2. Matches(e, t) => t.to \in Successors[db[e].state]
      BY EdgesAreLegal DEF Matches
    <3> QED  BY <3>1, <3>2
  <2> QED  BY <1>1, <2>1, <2>2, <2>3, DbSteps
<1>2. TypeInv /\ [Next]_vars => [Legal]_vars
  BY <1>1
<1> QED  BY <1>2, InitType, NextType, PTL DEF Spec, OnlyLegalTransitions

-----------------------------------------------------------------------------
(* What M1 serves was started, and validated before it ran.                *)

\* Once started, an experiment stays so; its type never changes; and it runs
\* only after a request validated it.
LEMMA StartedStable ==
    ASSUME TypeInv, StartedInv, [Next]_vars
    PROVE  /\ \A e \in Experiments : IsValid(e)' <=> IsValid(e)
           /\ \A e \in Experiments : HasStarted(e) => HasStarted(e)'
           /\ \A e \in Experiments : HasStarted(e)' => IsValid(e)'
<1> DEFINE Good ==
      /\ \A e \in Experiments : db'[e].type = db[e].type
      /\ \A e \in Experiments : HasStarted(e) => HasStarted(e)'
      /\ \A e \in Experiments : HasStarted(e)' => HasStarted(e) \/ IsValid(e)
<1>1. ASSUME UNCHANGED db PROVE Good
  BY <1>1 DEF HasStarted
<1>2. ASSUME NEW e \in Experiments, create_experiment(e) PROVE Good
  BY <1>2 DEF create_experiment, TypeInv, HasStarted, Started
<1>3. ASSUME NEW e \in Experiments, NEW t \in Edges, Update(e, t), t = run_transition => Runs(e)
      PROVE  Good
  <2>1. /\ \A f \in Experiments : f # e => db'[f] = db[f]
        /\ \A f \in Experiments : db'[f].type = db[f].type
        /\ db'[e].state = IF Matches(e, t) THEN t.to ELSE db[e].state
    BY <1>3, UpdateRow
  <2>2. \A s \in t.from : /\ s \in Started => t.to \in Started
                          /\ t.to \in Started => s \in Started \/ t = run_transition
    BY DEF Edges, Started, start_transition, run_transition, revert_to_draft, pause_transition,
           resume_transition, conclude_transition, mark_concluded, archive_transition
  <2>3. Runs(e) => IsValid(e)
    BY DEF Runs, At, StartedInv
  <2> QED  BY <1>3, <2>1, <2>2, <2>3 DEF HasStarted, Matches
<1>4. ASSUME UNCHANGED vars PROVE Good
  BY <1>1, <1>4 DEF vars
<1>5. Good
  BY <1>1, <1>2, <1>3, <1>4, DbSteps
<1>6. \A e \in Experiments : IsValid(e)' <=> IsValid(e)
  BY <1>5 DEF IsValid, validate_starting, experiment_row_to_proto
<1> QED  BY <1>5, <1>6 DEF StartedInv

\* The steps that touch the client, its stream or the log.
Publishes == \E h \in Handlers, d \in BOOLEAN :
    req[h].pc = "publish" /\ publish(h, d) /\ (d <=> req[h].op \in {"conclude", "archive"})

LEMMA ClientSteps ==
    ASSUME [Next]_vars
    PROVE  \/ Streaming \/ Restart
           \/ Publishes \/ UNCHANGED <<m1, log, missed>>
<1>1. ASSUME NEW h \in Handlers, Handles(h) PROVE Publishes \/ UNCHANGED <<m1, log, missed>>
  BY <1>1, HandlerSteps DEF Step, Validates, Reverts, Marks, Read, Announces, Publishes
<1>2. ASSUME NEW h \in Handlers, HandlerFails(h) \/ \E op \in Ops, e \in Experiments : Begin(h, op, e)
      PROVE  UNCHANGED <<m1, log, missed>>
  BY <1>2 DEF HandlerFails, Begin
<1>3. ASSUME \/ \E e \in Experiments : create_experiment(e) \/ AlertArrives(e)
             \/ consume_guardrail_alert \/ commit_consumer_state \/ UNCHANGED vars
      PROVE  UNCHANGED <<m1, log, missed>>
  BY <1>3 DEF create_experiment, AlertArrives, consume_guardrail_alert, commit_consumer_state, vars
<1> QED  BY <1>1, <1>2, <1>3 DEF Next, Handles

LEMMA LogSteps ==
    ASSUME [Next]_vars
    PROVE  \/ UNCHANGED log \/ log' = <<>> \/ Publishes
  BY ClientSteps, StreamFrame DEF Restart

\* What a step does to the requests, as far as StartedInv is concerned.
RequestsKeep ==
    \A g \in Handlers :
        /\ req'[g].row \in Active =>
             /\ req'[g].exp \in Experiments
             /\ \/ db[req'[g].exp].state \in Active
                \/ req[g].row \in Active /\ req[g].exp = req'[g].exp
        /\ req'[g].pc = "run" => req'[g].exp \in Experiments /\ IsValid(req'[g].exp)

LEMMA RequestsKept ==
    ASSUME TypeInv, StartedInv, Next
    PROVE  RequestsKeep
<1>0. /\ \A g \in Handlers : req[g].row \in Active => req[g].exp \in Experiments
      /\ \A g \in Handlers : req[g].pc = "run" => req[g].exp \in Experiments /\ IsValid(req[g].exp)
      /\ Idle.row \notin Active /\ Idle.pc # "run"
  BY Requesting, IdleFields DEF StartedInv, Active
<1>1. ASSUME NEW h \in Handlers, NEW pc \in Pcs \ {"idle"}, req[h] # Idle, Goto(h, pc),
             pc = "run" => IsValid(req[h].exp)
      PROVE  RequestsKeep
  <2>1. /\ req'[h].pc = pc /\ req'[h].exp = req[h].exp /\ req'[h].row = req[h].row
        /\ \A g \in Handlers \ {h} : req'[g] = req[g]
    BY <1>1, Going
  <2>2. req[h].exp \in Experiments
    BY <1>1, Requesting
  <2> QED  BY <1>0, <1>1, <2>1, <2>2 DEF RequestsKeep
<1>2. ASSUME NEW h \in Handlers, Done(h) PROVE RequestsKeep
  <2>1. req'[h] = Idle /\ \A g \in Handlers \ {h} : req'[g] = req[g]
    BY <1>2, Ending
  <2> QED  BY <1>0, <2>1 DEF RequestsKeep
<1>3. CASE UNCHANGED req
  BY <1>0, <1>3 DEF RequestsKeep
<1>4. ASSUME NEW h \in Handlers, Handles(h) PROVE RequestsKeep
  <2>1. CASE \E x \in Transits : At(h, x.op, x.pc) /\ Step(h, x.edge, x.next)
    <3>1. PICK x \in Transits : At(h, x.op, x.pc) /\ Step(h, x.edge, x.next)
      BY <2>1
    <3>2. x.next # "run" /\ x.next \in Pcs \ {"idle"} /\ req[h] # Idle
      BY <3>1, IdleFields DEF At, Transits, Pcs
    <3> QED  BY <1>1, <1>2, <3>1, <3>2 DEF Step
  <2>2. CASE Validates(h)
    <3>1. PICK pc \in {"run", "revert"} : Goto(h, pc) /\ (pc = "run" => IsValid(req[h].exp))
      BY <2>2 DEF Validates, IsValid
    <3>2. pc \in Pcs \ {"idle"} /\ req[h] # Idle
      BY <2>2, IdleFields DEF Pcs, Validates, At
    <3> QED  BY <1>1, <3>1, <3>2
  <2>3. CASE Marks(h)
    <3>1. req[h] # Idle /\ "read" \in Pcs \ {"idle"} /\ Goto(h, "read")
      BY <2>3, IdleFields DEF Marks, At, Pcs
    <3> QED  BY <1>1, <3>1
  <2>4. CASE Reverts(h) \/ Announces(h)
    BY <1>2, <2>4 DEF Reverts, Announces, publish
  <2>5. CASE req[h].pc = "read" /\ Read(h, "publish")
    <3>1. req[h].exp \in Experiments
      BY <2>5, Requesting, IdleFields
    <3> QED  BY <1>0, <2>5, <3>1, Reading DEF RequestsKeep
  <2> QED  BY <1>4, <2>1, <2>2, <2>3, <2>4, <2>5, HandlerSteps
<1>5. ASSUME NEW h \in Handlers, NEW op \in Ops, NEW e \in Experiments, Begin(h, op, e) PROVE RequestsKeep
  <2>1. /\ req'[h] = [op |-> op, pc |-> "transition", exp |-> e, row |-> "none"]
        /\ \A g \in Handlers \ {h} : req'[g] = req[g]
    BY <1>5 DEF Begin, TypeInv
  <2>2. req'[h].pc # "run" /\ req'[h].row \notin Active
    BY <2>1 DEF Active
  <2> QED  BY <1>0, <2>1, <2>2 DEF RequestsKeep
<1>6. ASSUME NEW h \in Handlers, HandlerFails(h) PROVE RequestsKeep
  BY <1>2, <1>6 DEF HandlerFails
<1>7. CASE Restart
  <2>1. \A g \in Handlers : req'[g] = Idle
    BY <1>7 DEF Restart
  <2> QED  BY <1>0, <2>1 DEF RequestsKeep
<1>8. ASSUME \/ \E e \in Experiments : create_experiment(e) \/ AlertArrives(e)
             \/ consume_guardrail_alert \/ commit_consumer_state
             \/ Streaming
      PROVE  UNCHANGED req
  BY <1>8, StreamFrame DEF create_experiment, AlertArrives, consume_guardrail_alert, commit_consumer_state
<1> QED  BY <1>3, <1>4, <1>5, <1>6, <1>7, <1>8 DEF Next, Handles

LEMMA InitStarted == Init => StartedInv
<1> SUFFICES ASSUME Init PROVE StartedInv
  OBVIOUS
<1>1. \A e \in Experiments : m1.view[e] = Absent /\ m1.rows[e] = Absent /\ ~HasStarted(e)
  BY DEF Init, HasStarted, Started, NothingListed
<1>2. \A h \in Handlers : req[h].row = "none" /\ req[h].pc = "idle"
  BY IdleFields DEF Init
<1>3. Len(log) = 0
  BY DEF Init
<1> QED  BY <1>1, <1>2, <1>3 DEF StartedInv, Active

LEMMA NextStarted == TypeInv /\ StartedInv /\ [Next]_vars => StartedInv'
<1> SUFFICES ASSUME TypeInv, StartedInv, [Next]_vars PROVE StartedInv'
  OBVIOUS
<1>1. /\ \A e \in Experiments : IsValid(e)' <=> IsValid(e)
      /\ \A e \in Experiments : HasStarted(e) => HasStarted(e)'
      /\ \A e \in Experiments : HasStarted(e)' => IsValid(e)'
  BY StartedStable
<1>2. \A e \in Experiments : db[e].state \in Active => HasStarted(e)
  BY DEF Active, HasStarted, Started
<1>3. ASSUME NEW h \in Handlers
      PROVE  /\ req'[h].row \in Active => HasStarted(req[h].exp)'
             /\ req'[h].pc = "run" => IsValid(req[h].exp)'
  <2>1. CASE Next
    <3>1. RequestsKeep
      BY <2>1, RequestsKept
    <3> QED  BY <1>1, <1>2, <3>1 DEF RequestsKeep, StartedInv, HasStarted, IsValid, validate_starting,
                                    experiment_row_to_proto
  <2>2. CASE UNCHANGED vars
    BY <2>2 DEF vars, StartedInv, HasStarted, IsValid, validate_starting, experiment_row_to_proto
  <2> QED  BY <2>1, <2>2
<1>4. ASSUME NEW e \in Experiments, m1'.view[e] # Absent \/ m1'.rows[e] # Absent
      PROVE  HasStarted(e)'
  <2>1. CASE m1'.view = m1.view /\ m1'.rows = m1.rows
    BY <1>1, <1>4, <2>1 DEF StartedInv
  <2>2. CASE ListActive
    <3>1. m1'.view = m1.view /\ (m1'.rows = m1.rows \/ m1'.rows[e] = Visible(db[e].state))
      BY <2>2, Listed
    <3>2. Visible(db[e].state) # Absent => HasStarted(e)
      BY <1>2 DEF Visible
    <3> QED  BY <1>1, <1>4, <3>1, <3>2 DEF StartedInv
  <2>3. ASSUME NEW f \in Experiments, SendRow(f) PROVE HasStarted(e)'
    <3>1. m1.view[e] # Absent \/ m1.rows[e] # Absent
      BY <1>4, <2>3, RowSent
    <3> QED  BY <1>1, <3>1 DEF StartedInv
  <2>4. CASE Deliver
    <3>1. CASE m1.pos < Len(log) /\ m1' = Apply(m1, log[m1.pos + 1])
      <4>1. m1.pos + 1 \in 1 .. Len(log)
        BY <3>1 DEF TypeInv, Clients
      <4>2. /\ m1'.view[e] = IF log[m1.pos + 1].exp = e THEN Shown(log[m1.pos + 1]) ELSE m1.view[e]
            /\ m1'.rows = m1.rows
        BY <3>1, Applied
      <4> QED  BY <1>1, <1>4, <4>1, <4>2 DEF StartedInv
    <3> QED  BY <2>1, <2>4, <3>1, Delivered
  <2>5. CASE stream_config_updates \/ subscribe \/ EndBackfill
    BY <2>1, <2>5, Loads, Subscribes, BackfillEnds
  <2>6. CASE Disconnect \/ Restart
    <3>1. m1'.view = m1.view /\ m1'.rows = NothingListed
      BY <2>6, Disconnected, Restarted
    <3> QED  BY <1>1, <1>4, <3>1 DEF StartedInv, NothingListed
  <2>7. CASE Publishes \/ UNCHANGED m1
    BY <2>1, <2>7 DEF Publishes, publish
  <2> QED  BY <2>2, <2>3, <2>4, <2>5, <2>6, <2>7, ClientSteps DEF Streaming
<1>5. ASSUME NEW i \in 1 .. Len(log'), Shown(log'[i]) # Absent
      PROVE  HasStarted(log[i].exp)'
  <2>1. CASE UNCHANGED log
    BY <1>1, <1>5, <2>1, EventsOf DEF StartedInv, HasStarted
  <2>2. CASE log' = <<>>
    BY <1>5, <2>2
  <2>3. ASSUME NEW h \in Handlers, NEW d \in BOOLEAN, req[h].pc = "publish", publish(h, d)
        PROVE  HasStarted(log[i].exp)'
    <3>1. log' = Append(log, [exp |-> req[h].exp, state |-> req[h].row, deletion |-> d, version |-> version])
      BY <2>3 DEF publish
    <3>2. Len(log') = Len(log) + 1 /\ Len(log) \in Nat
      BY <3>1 DEF TypeInv
    <3>3. CASE i <= Len(log)
      <4>1. log'[i] = log[i] /\ i \in 1 .. Len(log)
        BY <1>5, <3>1, <3>2, <3>3 DEF TypeInv
      <4> QED  BY <1>1, <1>5, <4>1, EventsOf DEF StartedInv, HasStarted
    <3>4. CASE i = Len(log) + 1
      <4>1. log'[i] = [exp |-> req[h].exp, state |-> req[h].row, deletion |-> d, version |-> version]
        BY <3>1, <3>4 DEF TypeInv
      <4>2. req[h].row \in Active /\ log'[i].exp = req[h].exp
        BY <1>5, <4>1 DEF Shown, Visible
      <4>3. req[h].exp \in Experiments
        BY <2>3, Requesting, IdleFields
      <4> QED  BY <1>1, <4>2, <4>3 DEF StartedInv, HasStarted
    <3> QED  BY <1>5, <3>2, <3>3, <3>4
  <2> QED  BY <2>1, <2>2, <2>3, LogSteps DEF Publishes
<1> QED  BY <1>1, <1>3, <1>4, <1>5 DEF StartedInv

\* What is served was started and validated.
THEOREM ServedStarted == Spec => []ServedWasStarted
<1>1. TypeInv /\ StartedInv => ServedWasStarted
  BY DEF StartedInv, ServedWasStarted, HasStarted, Started, IsValid
<1> QED  BY <1>1, InitType, NextType, InitStarted, NextStarted, PTL DEF Spec

-----------------------------------------------------------------------------
(* A drained view is exact.                                                *)

\* The store is where the only request for an experiment left it.
Placed(h) ==
    req[h].exp \in Experiments \ raced =>
        /\ db[req[h].exp].state \in Reached(req[h].op, req[h].pc)
        /\ req[h].pc = "publish" => req[h].row = db[req[h].exp].state

\* When one request moves, and the row of its experiment with it, the others
\* stay in order.
LEMMA OneMoves ==
    ASSUME TypeInv, Orderly, NEW h \in Handlers, raced \subseteq raced',
           req'[h].exp \in {req[h].exp, NoExperiment},
           \A g \in Handlers \ {h} : req'[g] = req[g],
           \A f \in Experiments \ raced' : f # req[h].exp => db'[f].state = db[f].state,
           Placed(h)'
    PROVE  Orderly'
<1>1. ASSUME NEW g \in Handlers, NEW k \in Handlers,
             req'[g].exp = req'[k].exp, req'[g].exp \in Experiments \ raced'
      PROVE  g = k
  <2>1. req[g].exp = req'[g].exp /\ req[k].exp = req'[k].exp
    BY <1>1, PortAssumption
  <2> QED  BY <1>1, <2>1 DEF Orderly
<1>2. ASSUME NEW g \in Handlers PROVE Placed(g)'
  <2>1. CASE g = h
    BY <2>1
  <2>2. CASE g # h
    <3>1. SUFFICES ASSUME req'[g].exp \in Experiments \ raced' PROVE Placed(g)'
      BY DEF Placed
    <3>2. req'[g] = req[g] /\ req[g].exp \in Experiments \ raced
      BY <2>2, <3>1
    <3>3. req[g].exp # req[h].exp
      BY <2>2, <3>2 DEF Orderly
    <3>4. db'[req[g].exp].state = db[req[g].exp].state
      BY <3>1, <3>2, <3>3
    <3> QED  BY <3>2, <3>4 DEF Placed, Orderly
  <2> QED  BY <2>1, <2>2
<1> QED  BY <1>1, <1>2 DEF Orderly, Placed

\* What an UPDATE leaves behind where the handler goes on.
LEMMA TransitsReach ==
    \A x \in Transits :
        /\ x.edge.to \in Reached(x.op, x.next) /\ x.next # "publish"
        /\ x.pc \notin {"mark", "read", "publish"}
        /\ \/ x.next \in {"mark", "read"}
           \/ \A s \in x.edge.from : Visible(s) = Visible(x.edge.to)
  BY DEF Transits, Reached, Visible, Active, start_transition, run_transition, pause_transition,
         resume_transition, conclude_transition, archive_transition

LEMMA HandlerOrderly ==
    ASSUME TypeInv, Orderly, NEW h \in Handlers, Handles(h)
    PROVE  Orderly'
<1> DEFINE e == req[h].exp
<1>0. req[h] # Idle => e \in Experiments
  BY Requesting
<1>1. CASE \E x \in Transits : At(h, x.op, x.pc) /\ Step(h, x.edge, x.next)
  <2>1. PICK x \in Transits : At(h, x.op, x.pc) /\ Step(h, x.edge, x.next)
    BY <1>1
  <2>2. req[h] # Idle /\ x.edge \in Edges /\ x.next \in Pcs \ {"idle"}
    BY <2>1, TransitTypes, IdleFields DEF At
  <2>3. /\ \A f \in Experiments : f # e => db'[f] = db[f]
        /\ db'[e].state = IF Matches(e, x.edge) THEN x.edge.to ELSE db[e].state
    BY <1>0, <2>1, <2>2, UpdateRow DEF Step
  <2>4. CASE Matches(e, x.edge)
    <3>1. /\ req'[h].pc = x.next /\ req'[h].op = req[h].op /\ req'[h].exp = e
          /\ \A g \in Handlers \ {h} : req'[g] = req[g]
      BY <2>1, <2>2, <2>4, Going DEF Step
    <3>2. Placed(h)'
      BY <2>1, <2>3, <2>4, <3>1, TransitsReach DEF Placed, At
    <3> QED  BY <2>1, <2>3, <3>1, <3>2, OneMoves DEF Step
  <2>5. CASE ~Matches(e, x.edge)
    <3>1. req'[h] = Idle /\ \A g \in Handlers \ {h} : req'[g] = req[g]
      BY <2>1, <2>5, Ending DEF Step
    <3>2. Placed(h)' /\ req'[h].exp = NoExperiment
      BY <3>1, IdleFields, PortAssumption DEF Placed
    <3> QED  BY <2>1, <2>3, <3>1, <3>2, OneMoves DEF Step
  <2> QED  BY <2>4, <2>5
<1>2. CASE Validates(h)
  <2>1. PICK pc \in {"run", "revert"} : Goto(h, pc)
    BY <1>2 DEF Validates
  <2>2. pc \in Pcs \ {"idle"} /\ req[h] # Idle /\ req[h].pc = "validate"
    BY <1>2, IdleFields DEF Pcs, Validates, At
  <2>3. /\ req'[h].pc = pc /\ req'[h].op = req[h].op /\ req'[h].exp = e
        /\ \A g \in Handlers \ {h} : req'[g] = req[g]
    BY <2>1, <2>2, Going
  <2>4. Reached(req[h].op, pc) = Reached(req[h].op, req[h].pc)
    BY <2>2 DEF Reached
  <2>5. Placed(h)'
    BY <1>2, <2>2, <2>3, <2>4 DEF Placed, Orderly, Validates
  <2> QED  BY <1>2, <2>3, <2>5, OneMoves DEF Validates
<1>3. CASE Reverts(h)
  <2>1. req[h] # Idle /\ revert_to_draft \in Edges
    BY <1>3, IdleFields DEF Reverts, At, Edges
  <2>2. \A f \in Experiments : f # e => db'[f] = db[f]
    BY <1>0, <1>3, <2>1, UpdateRow DEF Reverts
  <2>3. req'[h] = Idle /\ \A g \in Handlers \ {h} : req'[g] = req[g]
    BY <1>3, Ending DEF Reverts
  <2>4. Placed(h)' /\ req'[h].exp = NoExperiment
    BY <2>3, IdleFields, PortAssumption DEF Placed
  <2> QED  BY <1>3, <2>2, <2>3, <2>4, OneMoves DEF Reverts
<1>4. CASE Marks(h)
  <2>1. /\ req[h] # Idle /\ mark_concluded \in Edges /\ "read" \in Pcs \ {"idle"}
        /\ req[h].op = "conclude" /\ req[h].pc = "mark"
    BY <1>4, IdleFields DEF Marks, At, Edges, Pcs
  <2>2. /\ \A f \in Experiments : f # e => db'[f] = db[f]
        /\ db'[e].state \in {db[e].state, "CONCLUDED"}
    <3>1. CASE Update(e, mark_concluded)
      BY <1>0, <2>1, <3>1, UpdateRow DEF mark_concluded
    <3> QED  BY <1>4, <3>1 DEF Marks
  <2>3. /\ req'[h].pc = "read" /\ req'[h].op = req[h].op /\ req'[h].exp = e
        /\ \A g \in Handlers \ {h} : req'[g] = req[g]
    BY <1>4, <2>1, Going DEF Marks
  <2>4. Reached("conclude", "mark") = {"CONCLUDING"} /\ Reached("conclude", "read") = {"CONCLUDING", "CONCLUDED"}
    BY DEF Reached
  <2>5. Placed(h)'
    BY <1>4, <2>1, <2>2, <2>3, <2>4 DEF Placed, Orderly, Marks
  <2> QED  BY <1>4, <2>2, <2>3, <2>5, OneMoves DEF Marks
<1>5. CASE req[h].pc = "read" /\ Read(h, "publish")
  <2>1. /\ req'[h].exp = e /\ req'[h].row = db[e].state /\ req'[h].pc = "publish" /\ req'[h].op = req[h].op
        /\ \A g \in Handlers \ {h} : req'[g] = req[g]
    BY <1>5, Reading
  <2>2. Reached(req[h].op, "publish") = Reached(req[h].op, "read")
    BY DEF Reached
  <2>3. Placed(h)'
    BY <1>5, <2>1, <2>2 DEF Placed, Orderly, Read
  <2> QED  BY <1>5, <2>1, <2>3, OneMoves DEF Read
<1>6. CASE Announces(h)
  <2>1. req'[h] = Idle /\ \A g \in Handlers \ {h} : req'[g] = req[g]
    BY <1>6, Ending DEF Announces, publish
  <2>2. Placed(h)' /\ req'[h].exp = NoExperiment
    BY <2>1, IdleFields, PortAssumption DEF Placed
  <2> QED  BY <1>6, <2>1, <2>2, OneMoves DEF Announces, publish
<1> QED  BY <1>1, <1>2, <1>3, <1>4, <1>5, <1>6, HandlerSteps

LEMMA NextOrderly == TypeInv /\ Orderly /\ [Next]_vars => Orderly'
<1> SUFFICES ASSUME TypeInv, Orderly, [Next]_vars PROVE Orderly'
  OBVIOUS
<1>1. ASSUME NEW h \in Handlers, Handles(h) PROVE Orderly'
  BY <1>1, HandlerOrderly
<1>2. ASSUME NEW h \in Handlers, HandlerFails(h) PROVE Orderly'
  <2>1. req'[h] = Idle /\ \A g \in Handlers \ {h} : req'[g] = req[g]
    BY <1>2, Ending DEF HandlerFails
  <2>2. Placed(h)' /\ req'[h].exp = NoExperiment
    BY <2>1, IdleFields, PortAssumption DEF Placed
  <2> QED  BY <1>2, <2>1, <2>2, OneMoves DEF HandlerFails
<1>3. ASSUME NEW h \in Handlers, NEW op \in Ops, NEW e \in Experiments, Begin(h, op, e) PROVE Orderly'
  <2>1. /\ req'[h] = [op |-> op, pc |-> "transition", exp |-> e, row |-> "none"]
        /\ \A g \in Handlers \ {h} : req'[g] = req[g]
    BY <1>3 DEF Begin, TypeInv
  <2>2. raced \subseteq raced' /\ (e \notin raced' => \A g \in Handlers : req[g].exp # e)
    BY <1>3 DEF Begin, Busy
  <2>3. req[h].exp \notin Experiments /\ UNCHANGED db
    BY <1>3, IdleFields, PortAssumption DEF Begin
  <2>4. ASSUME NEW g \in Handlers, NEW k \in Handlers,
               req'[g].exp = req'[k].exp, req'[g].exp \in Experiments \ raced'
        PROVE  g = k
    BY <2>1, <2>2, <2>4 DEF Orderly
  <2>5. Reached(op, "transition") = Rows /\ db[e].state \in Rows
    BY DEF Reached, TypeInv
  <2>6. ASSUME NEW g \in Handlers PROVE Placed(g)'
    <3>1. CASE g = h
      BY <2>1, <2>3, <2>5, <3>1 DEF Placed
    <3>2. CASE g # h
      BY <2>1, <2>2, <2>3, <3>2 DEF Placed, Orderly
    <3> QED  BY <3>1, <3>2
  <2> QED  BY <2>4, <2>6 DEF Orderly, Placed
<1>4. CASE Restart
  <2>1. \A g \in Handlers : req'[g].exp \notin Experiments
    BY <1>4, IdleFields, PortAssumption DEF Restart
  <2> QED  BY <2>1 DEF Orderly
<1>5. ASSUME NEW e \in Experiments, create_experiment(e) PROVE Orderly'
  <2>1. /\ \A f \in Experiments : f # e => db'[f].state = db[f].state
        /\ db[e].state = "none" /\ UNCHANGED <<req, raced>>
    BY <1>5 DEF create_experiment, TypeInv
  <2>2. \A g \in Handlers : req[g].exp \in Experiments => req[g].exp # e
    BY <2>1, Requesting DEF TypeInv
  <2> QED  BY <2>1, <2>2 DEF Orderly
<1>6. CASE consume_guardrail_alert
  <2> DEFINE e == alerts.topic[alerts.pos + 1]
  <2>1. e \in Experiments /\ pause_transition \in Edges
    BY <1>6 DEF TypeInv, consume_guardrail_alert, Edges
  <2>2. raced \subseteq raced' /\ UNCHANGED req
    BY <1>6 DEF consume_guardrail_alert
  <2>3. \A f \in Experiments \ raced' : db'[f].state = db[f].state
    <3>1. CASE Update(e, pause_transition) /\ raced' = IF Matches(e, pause_transition) THEN raced \cup {e} ELSE raced
      BY <2>1, <3>1, UpdateRow
    <3> QED  BY <1>6, <3>1 DEF consume_guardrail_alert
  <2> QED  BY <2>2, <2>3 DEF Orderly
<1>7. ASSUME \/ \E e \in Experiments : AlertArrives(e)
             \/ commit_consumer_state \/ Streaming
             \/ UNCHANGED vars
      PROVE  UNCHANGED <<db, req, raced>>
  BY <1>7, StreamFrame DEF AlertArrives, commit_consumer_state, vars
<1>8. CASE UNCHANGED <<db, req, raced>>
  BY <1>8 DEF Orderly
<1> QED  BY <1>1, <1>2, <1>3, <1>4, <1>5, <1>6, <1>7, <1>8 DEF Next, Handles

\* A step either leaves a request that is about to announce the experiment,
\* or there was none and what is visible of the experiment did not change -
\* but for the announcement itself.
Quiet(e) ==
    \/ Pending(e)'
    \/ ~Pending(e) /\ Visible(db'[e].state) = Visible(db[e].state)

LEMMA HandlerQuiet ==
    ASSUME TypeInv, Orderly, NEW h \in Handlers, Handles(h), NEW e \in Experiments \ raced'
    PROVE  Quiet(e) \/ (Announces(h) /\ req[h].pc = "publish" /\ req[h].exp = e)
<1>0. req[h] # Idle => req[h].exp \in Experiments
  BY Requesting
<1>1. ASSUME req[h].exp # e, \A g \in Handlers \ {h} : req'[g] = req[g],
             req'[h].exp \in {req[h].exp, NoExperiment}, db'[e] = db[e]
      PROVE  Quiet(e)
  <2>1. \A g \in Handlers : req[g].exp = e => req'[g] = req[g]
    BY <1>1
  <2>2. Pending(e) => Pending(e)'
    BY <2>1 DEF Pending
  <2> QED  BY <1>1, <2>2 DEF Quiet
<1>2. ASSUME req[h].exp = e, req[h].pc \notin {"mark", "read", "publish"}, e \notin raced
      PROVE  ~Pending(e)
  BY <1>2 DEF Pending, Orderly
<1>3. CASE \E x \in Transits : At(h, x.op, x.pc) /\ Step(h, x.edge, x.next)
  <2>1. PICK x \in Transits : At(h, x.op, x.pc) /\ Step(h, x.edge, x.next)
    BY <1>3
  <2>2. req[h] # Idle /\ x.edge \in Edges /\ x.next \in Pcs \ {"idle"}
    BY <2>1, TransitTypes, IdleFields DEF At
  <2>3. /\ \A f \in Experiments : f # req[h].exp => db'[f] = db[f]
        /\ db'[req[h].exp].state = IF Matches(req[h].exp, x.edge) THEN x.edge.to ELSE db[req[h].exp].state
    BY <1>0, <2>1, <2>2, UpdateRow DEF Step
  <2>4. UNCHANGED raced
    BY <2>1 DEF Step
  <2>5. CASE Matches(req[h].exp, x.edge)
    <3>1. /\ req'[h].pc = x.next /\ req'[h].exp = req[h].exp
          /\ \A g \in Handlers \ {h} : req'[g] = req[g]
      BY <2>1, <2>2, <2>5, Going DEF Step
    <3>2. CASE req[h].exp # e
      BY <1>1, <2>3, <3>1, <3>2
    <3>3. CASE req[h].exp = e /\ x.next \in {"mark", "read"}
      BY <3>1, <3>3 DEF Quiet, Pending
    <3>4. CASE req[h].exp = e /\ \A s \in x.edge.from : Visible(s) = Visible(x.edge.to)
      BY <1>2, <2>1, <2>3, <2>4, <2>5, <3>4, TransitsReach DEF Quiet, Matches, At
    <3> QED  BY <3>2, <3>3, <3>4, TransitsReach
  <2>6. CASE ~Matches(req[h].exp, x.edge)
    <3>1. /\ req'[h].exp = NoExperiment
          /\ \A g \in Handlers \ {h} : req'[g] = req[g]
      BY <2>1, <2>2, <2>6, Ending, IdleFields DEF Step
    <3>2. CASE req[h].exp # e
      BY <1>1, <2>3, <3>1, <3>2
    <3>3. CASE req[h].exp = e
      BY <1>2, <2>1, <2>3, <2>4, <2>6, <3>3, TransitsReach DEF Quiet, At
    <3> QED  BY <3>2, <3>3
  <2> QED  BY <2>5, <2>6
<1>4. CASE Validates(h)
  <2>1. PICK pc \in {"run", "revert"} : Goto(h, pc)
    BY <1>4 DEF Validates
  <2>2. pc \in Pcs \ {"idle"} /\ req[h] # Idle /\ req[h].pc = "validate" /\ UNCHANGED <<db, raced>>
    BY <1>4, IdleFields DEF Pcs, Validates, At
  <2>3. /\ req'[h].exp = req[h].exp
        /\ \A g \in Handlers \ {h} : req'[g] = req[g]
    BY <2>1, <2>2, Going
  <2>4. CASE req[h].exp = e
    BY <1>2, <2>2, <2>4 DEF Quiet
  <2> QED  BY <1>1, <2>2, <2>3, <2>4
<1>5. CASE Reverts(h)
  <2>1. req[h] # Idle /\ revert_to_draft \in Edges /\ req[h].pc = "revert" /\ UNCHANGED raced
    BY <1>5, IdleFields DEF Reverts, At, Edges
  <2>2. /\ \A f \in Experiments : f # req[h].exp => db'[f] = db[f]
        /\ db'[req[h].exp].state = IF Matches(req[h].exp, revert_to_draft) THEN revert_to_draft.to
                                   ELSE db[req[h].exp].state
    BY <1>0, <1>5, <2>1, UpdateRow DEF Reverts
  <2>3. req'[h].exp = NoExperiment /\ \A g \in Handlers \ {h} : req'[g] = req[g]
    BY <1>5, Ending, IdleFields DEF Reverts
  <2>4. CASE req[h].exp = e
    <3>1. Visible(db'[e].state) = Visible(db[e].state)
      BY <2>2, <2>4 DEF Matches, revert_to_draft, Visible, Active
    <3> QED  BY <1>2, <2>1, <2>4, <3>1 DEF Quiet
  <2> QED  BY <1>1, <2>2, <2>3, <2>4
<1>6. CASE Marks(h)
  <2>1. /\ req[h] # Idle /\ mark_concluded \in Edges /\ "read" \in Pcs \ {"idle"}
    BY <1>6, IdleFields DEF Marks, At, Edges, Pcs
  <2>2. \A f \in Experiments : f # req[h].exp => db'[f] = db[f]
    BY <1>0, <1>6, <2>1, UpdateRow DEF Marks
  <2>3. /\ req'[h].pc = "read" /\ req'[h].exp = req[h].exp
        /\ \A g \in Handlers \ {h} : req'[g] = req[g]
    BY <1>6, <2>1, Going DEF Marks
  <2>4. CASE req[h].exp = e
    BY <2>3, <2>4 DEF Quiet, Pending
  <2> QED  BY <1>1, <2>2, <2>3, <2>4
<1>7. CASE req[h].pc = "read" /\ Read(h, "publish")
  <2>1. /\ req'[h].exp = req[h].exp /\ req'[h].pc = "publish" /\ UNCHANGED db
        /\ \A g \in Handlers \ {h} : req'[g] = req[g]
    BY <1>7, Reading DEF Read
  <2>2. CASE req[h].exp = e
    BY <2>1, <2>2 DEF Quiet, Pending
  <2> QED  BY <1>1, <2>1, <2>2
<1>8. CASE req[h].pc = "publish" /\ Announces(h)
  <2>1. req'[h].exp = NoExperiment /\ UNCHANGED db /\ \A g \in Handlers \ {h} : req'[g] = req[g]
    BY <1>8, Ending, IdleFields DEF Announces, publish
  <2> QED  BY <1>1, <1>8, <2>1
<1> QED  BY <1>3, <1>4, <1>5, <1>6, <1>7, <1>8, HandlerSteps

\* The announcement of an experiment.
Announced(e) == \E h \in Handlers, d \in BOOLEAN :
    /\ req[h].pc = "publish" /\ req[h].exp = e /\ publish(h, d)
    /\ d <=> req[h].op \in {"conclude", "archive"}

LEMMA NextQuiet ==
    ASSUME TypeInv, Orderly, [Next]_vars, NEW e \in Experiments \ raced'
    PROVE  Quiet(e) \/ Announced(e)
<1>1. ASSUME NEW h \in Handlers, Handles(h) PROVE Quiet(e) \/ Announced(e)
  BY <1>1, HandlerQuiet DEF Announces, Announced
<1>2. ASSUME NEW h \in Handlers, HandlerFails(h) PROVE Quiet(e)
  <2>1. req'[h] = Idle /\ \A g \in Handlers \ {h} : req'[g] = req[g]
    BY <1>2, Ending DEF HandlerFails
  <2>2. req[h].exp = e => req[h].pc = "transition"
    BY <1>2 DEF HandlerFails
  <2>3. Pending(e) => Pending(e)'
    BY <2>1, <2>2 DEF Pending
  <2> QED  BY <1>2, <2>3 DEF Quiet, HandlerFails
<1>3. ASSUME NEW h \in Handlers, NEW op \in Ops, NEW f \in Experiments, Begin(h, op, f) PROVE Quiet(e)
  <2>1. req[h].pc = "idle" /\ \A g \in Handlers \ {h} : req'[g] = req[g]
    BY <1>3, IdleFields DEF Begin, TypeInv
  <2>2. Pending(e) => Pending(e)'
    BY <2>1 DEF Pending
  <2> QED  BY <1>3, <2>2 DEF Quiet, Begin
<1>4. CASE Restart
  <2>1. ~Pending(e)
    BY <1>4 DEF Restart, Pending
  <2> QED  BY <1>4, <2>1 DEF Quiet, Restart
<1>5. ASSUME NEW f \in Experiments, create_experiment(f) PROVE Quiet(e)
  <2>1. db'[e].state = db[e].state \/ (db[e].state = "none" /\ db'[e].state = "DRAFT")
    BY <1>5 DEF create_experiment, TypeInv
  <2>2. Visible(db'[e].state) = Visible(db[e].state)
    BY <2>1 DEF Visible, Active
  <2>3. Pending(e) => Pending(e)'
    BY <1>5 DEF Pending, create_experiment
  <2> QED  BY <2>2, <2>3 DEF Quiet
<1>6. CASE consume_guardrail_alert
  <2> DEFINE f == alerts.topic[alerts.pos + 1]
  <2>1. f \in Experiments /\ pause_transition \in Edges
    BY <1>6 DEF TypeInv, consume_guardrail_alert, Edges
  <2>2. db'[e].state = db[e].state
    <3>1. CASE Update(f, pause_transition) /\ raced' = IF Matches(f, pause_transition) THEN raced \cup {f} ELSE raced
      BY <2>1, <3>1, UpdateRow
    <3> QED  BY <1>6, <3>1 DEF consume_guardrail_alert
  <2>3. Pending(e) => Pending(e)'
    BY <1>6 DEF Pending, consume_guardrail_alert
  <2> QED  BY <2>2, <2>3 DEF Quiet
<1>7. ASSUME \/ \E f \in Experiments : AlertArrives(f)
             \/ commit_consumer_state \/ Streaming
             \/ UNCHANGED vars
      PROVE  UNCHANGED <<db, req>>
  BY <1>7, StreamFrame DEF AlertArrives, commit_consumer_state, vars
<1>8. CASE UNCHANGED <<db, req>>
  BY <1>8 DEF Quiet, Pending
<1> QED  BY <1>1, <1>2, <1>3, <1>4, <1>5, <1>6, <1>7, <1>8 DEF Next, Handles

\* History only grows.
LEMMA RacedGrows == TypeInv /\ [Next]_vars => raced \subseteq raced'
<1> SUFFICES ASSUME TypeInv, [Next]_vars PROVE raced \subseteq raced'
  OBVIOUS
<1>1. ASSUME NEW h \in Handlers, Handles(h) PROVE UNCHANGED raced
  BY <1>1, HandlerSteps DEF Step, Validates, Reverts, Marks, Read, Announces, publish
<1> QED  BY <1>1, StreamFrame DEF Next, Handles, HandlerFails, Begin, Restart, create_experiment,
                    AlertArrives, consume_guardrail_alert, commit_consumer_state, vars

\* What an announcement adds to the log.
LEMMA LogGrows ==
    ASSUME TypeInv, NEW h \in Handlers, NEW d \in BOOLEAN, req[h].pc = "publish", publish(h, d)
    PROVE  /\ Len(log') = Len(log) + 1 /\ Len(log) \in Nat
           /\ \A i \in 1 .. Len(log) : log'[i] = log[i]
           /\ log'[Len(log) + 1].exp = req[h].exp /\ log'[Len(log) + 1].state = req[h].row
           /\ log'[Len(log) + 1].deletion = d
<1> DEFINE event == [exp |-> req[h].exp, state |-> req[h].row, deletion |-> d, version |-> version]
<1>1. log' = Append(log, event) /\ log \in Seq(Entries)
  BY DEF publish, TypeInv
<1>2. event \in Entries
  BY Requesting, IdleFields DEF TypeInv, Entries
<1>3. /\ Len(log') = Len(log) + 1 /\ Len(log) \in Nat
      /\ \A i \in 1 .. Len(log) : log'[i] = log[i]
      /\ log'[Len(log) + 1] = event
  <2> HIDE DEF event
  <2> QED  BY <1>1, <1>2
<1> QED  BY <1>3

\* The event a request announces shows the state of the experiment.
LEMMA AnnouncedIsCurrent ==
    ASSUME TypeInv, Orderly, NEW h \in Handlers, req[h].pc = "publish", req[h].exp \in Experiments \ raced,
           NEW event, event.state = req[h].row, event.deletion <=> req[h].op \in {"conclude", "archive"}
    PROVE  Shown(event) = Visible(db[req[h].exp].state)
<1>1. /\ db[req[h].exp].state \in Reached(req[h].op, "publish")
      /\ req[h].row = db[req[h].exp].state
  BY DEF Orderly
<1>2. req[h].op \in Ops
  BY Requesting
<1> QED  BY <1>1, <1>2 DEF Shown, Visible, Active, Reached, Ops

LEMMA NextLast == TypeInv /\ Orderly /\ LastIsCurrent /\ [Next]_vars => LastIsCurrent'
<1> SUFFICES ASSUME TypeInv, Orderly, LastIsCurrent, [Next]_vars,
                    NEW e \in Experiments \ raced', ~Pending(e)',
                    NEW i \in 1 .. Len(log'), LastFor(e, i)'
             PROVE  Shown(log'[i]) = Visible(db'[e].state)
  BY DEF LastIsCurrent, Shown
<1>0. e \in Experiments \ raced
  BY RacedGrows
<1>1. CASE Announced(e)
  <2>1. PICK h \in Handlers, d \in BOOLEAN :
          /\ req[h].pc = "publish" /\ req[h].exp = e /\ publish(h, d)
          /\ d <=> req[h].op \in {"conclude", "archive"}
    BY <1>1 DEF Announced
  <2>2. /\ Len(log') = Len(log) + 1 /\ Len(log) \in Nat
        /\ log'[Len(log) + 1].exp = e /\ log'[Len(log) + 1].state = req[h].row
        /\ log'[Len(log) + 1].deletion = d
    BY <2>1, LogGrows
  <2>3. i = Len(log) + 1
    BY <2>2 DEF LastFor
  <2>4. Shown(log'[i]) = Visible(db[e].state)
    BY <1>0, <2>1, <2>2, <2>3, AnnouncedIsCurrent
  <2> QED  BY <2>1, <2>4 DEF publish
<1>2. CASE Quiet(e)
  <2>1. ~Pending(e) /\ Visible(db'[e].state) = Visible(db[e].state)
    BY <1>2 DEF Quiet
  <2>2. CASE UNCHANGED log
    BY <1>0, <2>1, <2>2 DEF LastIsCurrent, LastFor
  <2>3. CASE log' = <<>>
    BY <2>3
  <2>4. ASSUME NEW h \in Handlers, NEW d \in BOOLEAN, req[h].pc = "publish", publish(h, d), req[h].exp # e
        PROVE  Shown(log'[i]) = Visible(db'[e].state)
    <3>1. /\ Len(log') = Len(log) + 1 /\ Len(log) \in Nat
          /\ \A j \in 1 .. Len(log) : log'[j] = log[j]
          /\ log'[Len(log) + 1].exp # e
      BY <2>4, LogGrows
    <3>2. i \in 1 .. Len(log)
      BY <3>1 DEF LastFor
    <3>3. LastFor(e, i)
      BY <3>1, <3>2 DEF LastFor
    <3> QED  BY <1>0, <2>1, <3>1, <3>2, <3>3 DEF LastIsCurrent
  <2> QED  BY <1>1, <2>2, <2>3, <2>4, LogSteps DEF Publishes, Announced
<1> QED  BY <1>1, <1>2, NextQuiet

LEMMA NextView ==
    TypeInv /\ ViewInv /\ [Next]_vars => ViewIsCurrent'
<1> SUFFICES ASSUME TypeInv, ViewInv, [Next]_vars,
                    NEW e \in Experiments \ (raced' \cup missed'), ~Pending(e)', ~Queued(e)'
             PROVE  m1'.view[e] = Visible(db'[e].state)
  BY DEF ViewIsCurrent
<1>0. /\ e \in Experiments \ raced
      /\ m1.pos \in Nat /\ Len(log) \in Nat /\ m1.pos <= Len(log)
  BY RacedGrows DEF TypeInv, Clients
<1>1. CASE Announced(e)
  <2>1. PICK h \in Handlers, d \in BOOLEAN :
          req[h].pc = "publish" /\ req[h].exp = e /\ publish(h, d)
    BY <1>1 DEF Announced
  <2>2. Len(log') = Len(log) + 1 /\ log'[Len(log) + 1].exp = e /\ m1' = m1
    BY <2>1, LogGrows DEF publish
  <2>3. Len(log) + 1 \in m1'.pos + 1 .. Len(log')
    BY <1>0, <2>2
  <2> QED  BY <2>2, <2>3 DEF Queued
<1>2. CASE Quiet(e)
  <2>1. ~Pending(e) /\ Visible(db'[e].state) = Visible(db[e].state)
    BY <1>2 DEF Quiet
  <2>2. ASSUME e \notin missed, ~Queued(e) PROVE m1.view[e] = Visible(db[e].state)
    BY <1>0, <2>1, <2>2 DEF ViewInv, ViewIsCurrent
  <2>3. ASSUME NEW f \in Experiments, SendRow(f) PROVE m1'.view[e] = Visible(db'[e].state)
    <3>1. UNCHANGED log /\ m1'.pos = m1.pos /\ m1.stream = "backfill" /\ m1.rows[f] # Absent
      BY <2>3, RowSent DEF SendRow
    <3>2. ~Queued(e)
      BY <3>1 DEF Queued
    <3>3. CASE m1'.view = m1.view /\ missed' = missed
      BY <2>1, <2>2, <3>2, <3>3
    <3>4. CASE missed' = missed \ {f} /\ m1'.view[e] = (IF e = f THEN m1.rows[f] ELSE m1.view[e])
      <4>1. CASE e = f
        BY <1>0, <2>1, <3>1, <3>2, <3>4, <4>1 DEF ViewInv, RowsAreCurrent
      <4> QED  BY <2>1, <2>2, <3>2, <3>4, <4>1
    <3> QED  BY <2>3, <3>3, <3>4, RowSent
  <2>4. CASE Deliver
    <3>0. UNCHANGED log
      BY <2>4 DEF Deliver
    <3>1. CASE /\ m1'.view = m1.view /\ m1'.pos \in m1.pos .. Len(log)
               /\ missed' = missed \cup {log[i].exp : i \in m1.pos + 1 .. m1'.pos}
      <4>1. \A i \in m1.pos + 1 .. Len(log) : i \in m1.pos + 1 .. m1'.pos \/ i \in m1'.pos + 1 .. Len(log)
        BY <1>0, <3>1
      <4>2. ~Queued(e)
        BY <3>0, <3>1, <4>1 DEF Queued
      <4> QED  BY <2>1, <2>2, <3>1, <4>2
    <3>2. CASE /\ m1.pos < Len(log) /\ m1' = Apply(m1, log[m1.pos + 1])
               /\ missed' = missed \ {log[m1.pos + 1].exp}
      <4>1. /\ m1'.view[e] = IF log[m1.pos + 1].exp = e THEN Shown(log[m1.pos + 1]) ELSE m1.view[e]
            /\ m1'.pos = m1.pos + 1
        BY <3>2, Applied
      <4>2. CASE log[m1.pos + 1].exp = e
        <5>1. m1.pos + 1 \in 1 .. Len(log) /\ LastFor(e, m1.pos + 1)
          BY <1>0, <3>0, <3>2, <4>1, <4>2 DEF LastFor, Queued
        <5> QED  BY <1>0, <2>1, <4>1, <4>2, <5>1 DEF ViewInv, LastIsCurrent
      <4>3. CASE log[m1.pos + 1].exp # e
        <5>1. \A i \in m1.pos + 1 .. Len(log) : i = m1.pos + 1 \/ i \in m1'.pos + 1 .. Len(log)
          BY <1>0, <4>1
        <5>2. ~Queued(e)
          BY <3>0, <4>3, <5>1 DEF Queued
        <5> QED  BY <2>1, <2>2, <3>2, <4>1, <4>3, <5>2
      <4> QED  BY <4>2, <4>3
    <3> QED  BY <2>4, <3>1, <3>2, Delivered
  <2>5. CASE subscribe
    <3>1. m1'.view = m1.view /\ missed' = missed /\ m1.stream = "loaded"
      BY <2>5, Subscribes
    <3>2. ~Queued(e)
      BY <2>2, <3>1 DEF ViewInv, ClosedIsMissed, Receiving
    <3> QED  BY <2>1, <2>2, <3>1, <3>2
  <2>6. CASE stream_config_updates \/ ListActive \/ EndBackfill \/ Disconnect
    <3>1. /\ m1'.view = m1.view /\ m1'.pos = m1.pos /\ UNCHANGED log /\ missed \subseteq missed'
      BY <2>6, Loads, Listed, BackfillEnds, Disconnected, StreamFrame DEF Streaming
    <3>2. ~Queued(e)
      BY <3>1 DEF Queued
    <3> QED  BY <2>1, <2>2, <3>1, <3>2
  <2>7. CASE Restart
    <3>1. m1'.view = m1.view
      BY <2>7, Restarted
    <3>2. e \notin missed /\ ~Queued(e)
      BY <2>7 DEF Restart, Queued, ViewInv, ClosedIsMissed
    <3> QED  BY <2>1, <2>2, <3>1, <3>2
  <2>8. CASE UNCHANGED <<m1, log, missed>>
    BY <2>1, <2>2, <2>8 DEF Queued
  <2>9. ASSUME NEW h \in Handlers, NEW d \in BOOLEAN, req[h].pc = "publish", publish(h, d)
        PROVE  m1'.view[e] = Visible(db'[e].state)
    <3>1. /\ Len(log') = Len(log) + 1 /\ \A j \in 1 .. Len(log) : log'[j] = log[j]
          /\ m1' = m1 /\ missed \subseteq missed'
      BY <2>9, LogGrows DEF publish
    <3>2. ~Queued(e)
      BY <1>0, <3>1 DEF Queued
    <3> QED  BY <2>1, <2>2, <3>1, <3>2
  <2> QED  BY <2>3, <2>4, <2>5, <2>6, <2>7, <2>8, <2>9, ClientSteps DEF Publishes, Streaming
<1> QED  BY <1>1, <1>2, NextQuiet DEF ViewInv

LEMMA NextClosed ==
    TypeInv /\ ClosedIsMissed /\ [Next]_vars => ClosedIsMissed'
<1> SUFFICES ASSUME TypeInv, ClosedIsMissed, [Next]_vars, m1'.stream \in {"closed", "loaded"},
                    NEW e \in Experiments, Queued(e)'
             PROVE  e \in missed'
  BY DEF ClosedIsMissed, Receiving
<1>0. m1.pos \in Nat /\ Len(log) \in Nat /\ m1.pos <= Len(log)
  BY DEF TypeInv, Clients
<1>1. CASE Disconnect
  BY <1>1, Disconnected DEF Queued, Disconnect
<1>2. CASE Restart
  <2>1. m1'.pos = 0 /\ Len(log') = 0
    BY <1>2, Restarted
  <2> QED  BY <2>1 DEF Queued
<1>3. CASE UNCHANGED <<m1, log, missed>>
  BY <1>3 DEF ClosedIsMissed, Queued, Receiving
<1>4. ASSUME NEW h \in Handlers, NEW d \in BOOLEAN, req[h].pc = "publish", publish(h, d)
      PROVE  e \in missed'
  <2>1. /\ Len(log') = Len(log) + 1 /\ \A j \in 1 .. Len(log) : log'[j] = log[j]
        /\ log'[Len(log) + 1].exp = req[h].exp
        /\ m1' = m1 /\ missed' = missed \cup {req[h].exp}
    BY <1>4, LogGrows DEF publish, Receiving
  <2>2. PICK i \in m1.pos + 1 .. Len(log) + 1 : log'[i].exp = e
    BY <2>1 DEF Queued
  <2>3. CASE i = Len(log) + 1
    BY <2>1, <2>2, <2>3
  <2>4. CASE i # Len(log) + 1
    <3>1. i \in m1.pos + 1 .. Len(log) /\ i \in 1 .. Len(log)
      BY <1>0, <2>2, <2>4
    <3> QED  BY <2>1, <2>2, <3>1 DEF ClosedIsMissed, Queued, Receiving
  <2> QED  BY <2>3, <2>4
<1>5. CASE stream_config_updates
  <2>1. m1.stream = "closed" /\ m1'.pos = m1.pos /\ UNCHANGED log /\ missed' = missed
    BY <1>5, Loads, StreamFrame DEF Streaming
  <2> QED  BY <2>1 DEF ClosedIsMissed, Queued, Receiving
<1>6. ASSUME subscribe \/ ListActive \/ EndBackfill \/ Deliver \/ \E f \in Experiments : SendRow(f)
      PROVE  FALSE
  <2>1. ASSUME Deliver PROVE FALSE
    <3>1. m1.stream = "live"
      BY <2>1 DEF Deliver
    <3> QED  BY <2>1, <3>1, Delivered, Applied
  <2> QED  BY <1>6, <2>1, Subscribes, Listed, BackfillEnds, RowSent
<1> QED  BY <1>1, <1>2, <1>3, <1>4, <1>5, <1>6, ClientSteps DEF Publishes, Streaming

LEMMA NextRows ==
    TypeInv /\ Orderly /\ RowsAreCurrent /\ [Next]_vars => RowsAreCurrent'
<1> SUFFICES ASSUME TypeInv, Orderly, RowsAreCurrent, [Next]_vars, m1'.stream = "backfill",
                    NEW e \in Experiments \ raced', m1'.rows[e] # Absent, ~Pending(e)', ~Queued(e)'
             PROVE  m1'.rows[e] = Visible(db'[e].state)
  BY DEF RowsAreCurrent
<1>0. /\ e \in Experiments \ raced
      /\ m1.pos \in Nat /\ Len(log) \in Nat /\ m1.pos <= Len(log)
  BY RacedGrows DEF TypeInv, Clients
<1>1. CASE ListActive
  <2>1. m1'.rows[e] = Visible(db[e].state) /\ UNCHANGED db
    BY <1>1, Listed, StreamFrame DEF Streaming
  <2> QED  BY <2>1
<1>2. ASSUME stream_config_updates \/ subscribe \/ EndBackfill \/ Deliver \/ Disconnect \/ Restart
      PROVE  FALSE
  <2>1. ASSUME Deliver PROVE FALSE
    <3>1. m1.stream = "live"
      BY <2>1 DEF Deliver
    <3> QED  BY <2>1, <3>1, Delivered, Applied
  <2> QED  BY <1>2, <2>1, Loads, Subscribes, BackfillEnds, Disconnected, Restarted
<1>3. CASE Announced(e)
  <2>1. PICK h \in Handlers, d \in BOOLEAN :
          req[h].pc = "publish" /\ req[h].exp = e /\ publish(h, d)
    BY <1>3 DEF Announced
  <2>2. Len(log') = Len(log) + 1 /\ log'[Len(log) + 1].exp = e /\ m1' = m1
    BY <2>1, LogGrows DEF publish
  <2>3. Len(log) + 1 \in m1'.pos + 1 .. Len(log')
    BY <1>0, <2>2
  <2> QED  BY <2>2, <2>3 DEF Queued
<1>4. CASE Quiet(e)
  <2>1. ~Pending(e) /\ Visible(db'[e].state) = Visible(db[e].state)
    BY <1>4 DEF Quiet
  <2>2. ASSUME ~Queued(e), m1.stream = "backfill", m1'.rows[e] = m1.rows[e]
        PROVE  m1'.rows[e] = Visible(db'[e].state)
    BY <1>0, <2>1, <2>2 DEF RowsAreCurrent
  <2>3. ASSUME NEW f \in Experiments, SendRow(f) PROVE m1'.rows[e] = Visible(db'[e].state)
    <3>1. /\ UNCHANGED log /\ m1'.pos = m1.pos /\ m1.stream = "backfill"
          /\ m1'.rows[e] = m1.rows[e]
      BY <2>3, RowSent DEF SendRow
    <3>2. ~Queued(e)
      BY <3>1 DEF Queued
    <3> QED  BY <2>2, <3>1, <3>2
  <2>4. CASE UNCHANGED <<m1, log, missed>>
    BY <2>2, <2>4 DEF Queued
  <2>5. ASSUME NEW h \in Handlers, NEW d \in BOOLEAN, req[h].pc = "publish", publish(h, d)
        PROVE  m1'.rows[e] = Visible(db'[e].state)
    <3>1. /\ Len(log') = Len(log) + 1 /\ \A j \in 1 .. Len(log) : log'[j] = log[j]
          /\ m1' = m1
      BY <2>5, LogGrows DEF publish
    <3>2. ~Queued(e)
      BY <1>0, <3>1 DEF Queued
    <3> QED  BY <2>2, <3>1, <3>2
  <2> QED  BY <1>1, <1>2, <2>3, <2>4, <2>5, ClientSteps DEF Publishes, Streaming
<1> QED  BY <1>3, <1>4, NextQuiet

LEMMA InitView == Init => ViewInv
<1> SUFFICES ASSUME Init PROVE ViewInv
  OBVIOUS
<1>1. Orderly
  BY IdleFields, PortAssumption DEF Init, Orderly
<1>2. Len(log) = 0 /\ m1.pos = 0
  BY DEF Init
<1>3. \A e \in Experiments : m1.view[e] = Visible(db[e].state)
  BY DEF Init, Visible, Active
<1>4. m1.stream = "closed"
  BY DEF Init
<1> QED  BY <1>1, <1>2, <1>3, <1>4 DEF ViewInv, LastIsCurrent, ViewIsCurrent, ClosedIsMissed, RowsAreCurrent, Queued

\* M1 serves what M5 decided: for any interleaving of requests, failures,
\* alerts, restarts and broken streams, a drained view is exact but for the
\* experiments whose requests overlapped or were cut off and those the stream
\* lost sight of, and nothing is served that was not started.
THEOREM ServedTrue == Spec => []ServedIsTrue
<1>1. TypeInv /\ ViewInv /\ [Next]_vars => ViewInv'
  BY NextOrderly, NextLast, NextView, NextClosed, NextRows DEF ViewInv
<1>2. TypeInv /\ StartedInv /\ ViewInv => ServedIsTrue
  <2> SUFFICES ASSUME TypeInv, StartedInv, ViewInv PROVE ServedIsTrue
    OBVIOUS
  <2>1. ServedWasStarted
    BY DEF StartedInv, ServedWasStarted, HasStarted, Started, IsValid
  <2>2. ViewIsExact
    <3> SUFFICES ASSUME m1.stream = "live", m1.pos = Len(log),
                        NEW e \in Experiments \ (raced \cup missed), ~Busy(e)
                 PROVE  m1.view[e] = Visible(db[e].state)
      BY DEF ViewIsExact
    <3>1. ~Pending(e) /\ ~Queued(e)
      BY DEF Pending, Queued, Busy, TypeInv, Clients
    <3> QED  BY <3>1 DEF ViewInv, ViewIsCurrent
  <2> QED  BY <2>1, <2>2 DEF ServedIsTrue
<1> QED  BY <1>1, <1>2, InitType, NextType, InitStarted, NextStarted, InitView, PTL DEF Spec
=============================================================================
