------------------------ MODULE EventPipelineProofs ------------------------
(***************************************************************************)
(* M2 for any set of events, any number of concurrent requests, any buffer *)
(* size and any number of faults: types, no silent loss, and what          *)
(* deduplication promises.                                                 *)
(***************************************************************************)
EXTENDS EventPipeline, TLAPS, SequenceTheorems, WellFoundedInduction

\* With the types: a request that is served has an event at hand, and no
\* request is served while the buffer is replayed.
TypeInv ==
    /\ TypeOK
    /\ \A s \in Slots : pc[s] # "idle" => todo[s] # <<>>
    /\ mode = "replay" => \A s \in Slots : pc[s] = "idle"
    /\ faults = 0 => hazards = {}

\* A step of a request, or its client goes away.
Moves(s) == Step(s) \/ Cancel(s)

\* A file without a torn record.
Whole(f) == \A i \in 1 .. Len(f) : f[i] # Torn

\* As long as no record is torn, the file is what was appended to it, and a
\* replay that has not failed accounts for all of it.
LossInv ==
    "torn" \notin hazards =>
        /\ Whole(file)
        /\ \A e \in acked : topic[e] > 0 \/ e \in Records(file) \/ e \in dropped
        /\ mode = "replay" /\ ~failed => \A e \in Records(file) : topic[e] > 0 \/ e \in Records(replay)

\* The premise of PublishedOnce.
Steady == hazards \cap {"crash", "torn", "timeout"} = {} /\ (faults < 2 \/ "rotate" \notin hazards)

\* The filters hold the key of every event that is published or on its way,
\* and no two events on their way share one.
OnceInv ==
    Steady =>
        /\ mode = "serve"
        /\ "rotate" \notin hazards => previous = {}
        /\ \A e \in Events : topic[e] <= 1 /\ (topic[e] > 0 => Seen(e.key))
        /\ \A s \in Slots : pc[s] = "publish" =>
             Seen(Head(todo[s]).key) /\ topic[Head(todo[s])] = 0
        /\ \A s, t \in Slots : pc[s] = "publish" /\ pc[t] = "publish" /\ s # t =>
             Head(todo[s]).key # Head(todo[t]).key

\* Events that were accepted, are on their way, were refused or given up.
Known == acked \cup InFlight \cup refused \cup abandoned

\* The filters hold no key but those of known events.
SeenInv ==
    hazards \cap {"crash", "torn", "false_positive"} = {} =>
        /\ \A k \in current \cup previous : \E d \in Known : d.key = k
        /\ \A e \in asDup : \E d \in Known : d.key = e.key

\* The premise of RetriesAreDuplicates, and what it rests on: the filters
\* hold the key of every event that came as far as the producer.
Remembering == hazards \cap {"crash", "torn"} = {} /\ (faults < 2 \/ "rotate" \notin hazards)

RetryInv ==
    Remembering =>
        /\ "rotate" \notin hazards => previous = {}
        /\ \A s \in Slots : pc[s] = "publish" => Seen(Head(todo[s]).key)
        /\ \A e \in refused \cup abandoned : Seen(e.key)

-----------------------------------------------------------------------------
(* The buffer file.                                                        *)

Lines == Seq(Events \cup {Torn})

\* A set of positions that is not empty has a first one.
LEMMA FirstPosition ==
    ASSUME NEW B, B \subseteq Nat, B # {}
    PROVE  \E i \in B : \A j \in B : i <= j
<1>1. PICK i \in B : \A j \in B : <<j, i>> \notin OpToRel(<, Nat)
  BY NatLessThanWellFounded, WFMin
<1>2. \A j \in B : ~(j < i)
  BY <1>1 DEF OpToRel
<1> QED  BY <1>2

\* read_all: what it returns was in the file, and all of it when no record
\* is torn.
LEMMA ReadableType ==
    ASSUME NEW f \in Lines
    PROVE  /\ Readable(f) \in Seq(Events)
           /\ Len(Readable(f)) <= Len(f)
           /\ \A i \in 1 .. Len(Readable(f)) : Readable(f)[i] = f[i]
           /\ (\A i \in 1 .. Len(f) : f[i] # Torn) => Readable(f) = f
<1> DEFINE bad == {i \in 1 .. Len(f) : f[i] = Torn}
<1>0. Len(f) \in Nat /\ \A i \in 1 .. Len(f) : f[i] \in Events \cup {Torn}
  BY DEF Lines
<1>1. CASE bad = {}
  <2>1. Readable(f) = f
    BY <1>1 DEF Readable
  <2>2. \A i \in 1 .. Len(f) : f[i] \in Events
    BY <1>0, <1>1
  <2>3. f = SubSeq(f, 1, Len(f))
    BY SubSeqFull DEF Lines
  <2>4. f \in Seq(Events)
    <3>1. SubSeq(f, 1, Len(f)) \in Seq(Events)
      BY <1>0, <2>2, SubSeqProperties
    <3> QED  BY <2>3, <3>1
  <2> QED  BY <1>0, <2>1, <2>4
<1>2. CASE bad # {}
  <2> DEFINE m == CHOOSE i \in bad : \A j \in bad : i <= j
  <2>0. bad \subseteq Nat
    BY <1>0
  <2>1. \E i \in bad : \A j \in bad : i <= j
    <3> HIDE DEF bad
    <3> QED  BY <1>2, <2>0, FirstPosition
  <2>2. m \in bad /\ \A j \in bad : m <= j
    BY <2>1
  <2>3. Readable(f) = SubSeq(f, 1, m - 1) /\ m \in 1 .. Len(f)
    BY <1>2, <2>2 DEF Readable
  <2> HIDE DEF m
  <2>4. \A i \in 1 .. m - 1 : f[i] \in Events
    BY <1>0, <2>2, <2>3
  <2>5. /\ Readable(f) \in Seq(Events)
        /\ Len(Readable(f)) = IF 1 <= m - 1 THEN m - 1 ELSE 0
        /\ \A i \in 1 .. m - 1 : Readable(f)[i] = f[i]
    <3>1. /\ SubSeq(f, 1, m - 1) \in Seq(Events)
          /\ Len(SubSeq(f, 1, m - 1)) = IF 1 <= m - 1 THEN m - 1 - 1 + 1 ELSE 0
          /\ \A i \in 1 .. m - 1 - 1 + 1 : SubSeq(f, 1, m - 1)[i] = f[1 + i - 1]
      BY <1>0, <2>3, <2>4, SubSeqProperties
    <3> QED  BY <1>0, <2>3, <3>1
  <2> QED  BY <1>0, <1>2, <2>3, <2>5
<1> QED  BY <1>1, <1>2

LEMMA RecordsOf ==
    ASSUME NEW f \in Lines
    PROVE  /\ Records(f) \subseteq Events
           /\ \A e : e \in Records(f) <=> e # Torn /\ \E i \in 1 .. Len(f) : f[i] = e
<1>1. \A i \in 1 .. Len(f) : f[i] \in Events \cup {Torn}
  BY DEF Lines
<1> QED  BY <1>1 DEF Records

\* append makes room with readable records only.
LEMMA MakeRoomType ==
    ASSUME NEW f \in Lines
    PROVE  /\ MakeRoom(f) \in Lines
           /\ (\A i \in 1 .. Len(f) : f[i] # Torn) => \A i \in 1 .. Len(MakeRoom(f)) : MakeRoom(f)[i] # Torn
<1>1. CASE MakeRoom(f) = f
  BY <1>1
<1>2. CASE MakeRoom(f) = Compact(f)
  <2> DEFINE r == Readable(f)
             n == IF Len(r) < MaxRecords THEN Len(r) ELSE MaxRecords - 1
  <2>1. r \in Seq(Events) /\ Len(r) \in Nat /\ \A i \in 1 .. Len(r) : r[i] \in Events
    BY ReadableType
  <2>2. n \in 0 .. Len(r)
    BY <2>1, PipelineAssumption
  <2> HIDE DEF n, r
  <2>3. \A i \in Len(r) - n + 1 .. Len(r) : r[i] \in Events
    BY <2>1, <2>2
  <2>4. SubSeq(r, Len(r) - n + 1, Len(r)) \in Seq(Events)
    BY <2>1, <2>2, <2>3, SubSeqProperties
  <2>5. Compact(f) \in Seq(Events)
    BY <2>4 DEF Compact, n, r
  <2>6. Compact(f) \in Lines /\ \A i \in 1 .. Len(Compact(f)) : Compact(f)[i] # Torn
    BY <2>5, SeqMonotonic, ElementOfSeq, PipelineAssumption DEF Lines
  <2> QED  BY <1>2, <2>6
<1> QED  BY <1>1, <1>2 DEF MakeRoom

\* A record joins the file.
LEMMA AppendRecord ==
    ASSUME NEW f \in Lines, NEW x \in Events \cup {Torn}
    PROVE  /\ Append(f, x) \in Lines
           /\ \A e : e \in Records(Append(f, x)) <=> e \in Records(f) \/ (e = x /\ e # Torn)
           /\ (x # Torn /\ \A i \in 1 .. Len(f) : f[i] # Torn) =>
                \A i \in 1 .. Len(Append(f, x)) : Append(f, x)[i] # Torn
<1>1. /\ Append(f, x) \in Lines /\ Len(Append(f, x)) = Len(f) + 1 /\ Len(f) \in Nat
      /\ \A i \in 1 .. Len(f) : Append(f, x)[i] = f[i]
      /\ Append(f, x)[Len(f) + 1] = x
  BY DEF Lines
<1>2. ASSUME NEW e
      PROVE  e \in Records(Append(f, x)) <=> e \in Records(f) \/ (e = x /\ e # Torn)
  <2>1. ASSUME NEW i \in 1 .. Len(f) + 1, Append(f, x)[i] = e
        PROVE  e = x \/ \E j \in 1 .. Len(f) : f[j] = e
    BY <1>1, <2>1
  <2>2. ASSUME NEW j \in 1 .. Len(f), f[j] = e
        PROVE  \E i \in 1 .. Len(f) + 1 : Append(f, x)[i] = e
    BY <1>1, <2>2
  <2>3. e = x => \E i \in 1 .. Len(f) + 1 : Append(f, x)[i] = e
    BY <1>1
  <2> QED  BY <1>1, <2>1, <2>2, <2>3, RecordsOf
<1>3. ASSUME x # Torn, \A i \in 1 .. Len(f) : f[i] # Torn, NEW i \in 1 .. Len(f) + 1
      PROVE  Append(f, x)[i] # Torn
  BY <1>1, <1>3
<1> QED  BY <1>1, <1>2, <1>3

-----------------------------------------------------------------------------
(* Types.                                                                  *)

HazardKinds == {"crash", "torn", "rotate", "false_positive", "timeout", "cancel"}

\* What TypeInv says of the requests.
SlotTypes ==
    /\ todo \in [Slots -> Seq(Events)] /\ pc \in [Slots -> {"idle", "check", "publish"}]
    /\ \A s \in Slots : pc[s] # "idle" => todo[s] # <<>>
    /\ mode = "replay" => \A s \in Slots : pc[s] = "idle"

LEMMA Slot ==
    ASSUME TypeInv, NEW s \in Slots, pc[s] # "idle"
    PROVE  /\ SlotTypes /\ mode = "serve"
           /\ todo[s] \in Seq(Events) /\ todo[s] # <<>> /\ Head(todo[s]) \in Events
           /\ Tail(todo[s]) \in Seq(Events) /\ Len(Tail(todo[s])) = Len(todo[s]) - 1
<1>1. SlotTypes /\ mode = "serve" /\ todo[s] \in Seq(Events) /\ todo[s] # <<>>
  BY DEF TypeInv, TypeOK, SlotTypes
<1> QED  BY <1>1, HeadTailProperties

\* A request moves on to its next event, ends, or goes to the producer.
LEMMA SlotMoves ==
    ASSUME TypeInv, NEW s \in Slots, pc[s] # "idle", UNCHANGED mode,
           \/ NextEvent(s) \/ EndRequest(s) \/ (UNCHANGED todo /\ pc' = [pc EXCEPT ![s] = "publish"])
    PROVE  /\ SlotTypes'
           /\ \A t \in Slots \ {s} : pc'[t] = pc[t] /\ todo'[t] = todo[t]
           /\ NextEvent(s) \/ EndRequest(s) => pc'[s] # "publish"
<1>1. /\ SlotTypes /\ mode = "serve" /\ todo[s] \in Seq(Events) /\ todo[s] # <<>>
      /\ Tail(todo[s]) \in Seq(Events) /\ Len(Tail(todo[s])) = Len(todo[s]) - 1
  BY Slot
<1>2. CASE NextEvent(s)
  <2>1. /\ todo' = [todo EXCEPT ![s] = Tail(todo[s])]
        /\ pc' = [pc EXCEPT ![s] = IF Len(todo[s]) = 1 THEN "idle" ELSE "check"]
    BY <1>2 DEF NextEvent
  <2>2. Len(todo[s]) # 1 => Tail(todo[s]) # <<>>
    <3>1. Len(todo[s]) \in Nat \ {0} /\ Len(<<>>) = 0
      BY <1>1, EmptySeq
    <3>2. Len(todo[s]) # 1 => Len(Tail(todo[s])) # 0
      BY <1>1, <3>1
    <3> QED  BY <3>1, <3>2, Zenon
  <2>3. /\ todo' \in [Slots -> Seq(Events)] /\ todo'[s] = Tail(todo[s])
        /\ \A t \in Slots \ {s} : todo'[t] = todo[t]
    BY <1>1, <2>1 DEF SlotTypes
  <2>4. /\ pc' \in [Slots -> {"idle", "check", "publish"}]
        /\ pc'[s] = IF Len(todo[s]) = 1 THEN "idle" ELSE "check"
        /\ \A t \in Slots \ {s} : pc'[t] = pc[t]
    BY <1>1, <2>1 DEF SlotTypes
  <2> QED  BY <1>1, <2>2, <2>3, <2>4 DEF SlotTypes
<1>3. CASE EndRequest(s)
  <2>1. /\ todo' \in [Slots -> Seq(Events)]
        /\ \A t \in Slots \ {s} : todo'[t] = todo[t]
    BY <1>1, <1>3, EmptySeq DEF SlotTypes, EndRequest
  <2>2. /\ pc' \in [Slots -> {"idle", "check", "publish"}] /\ pc'[s] = "idle"
        /\ \A t \in Slots \ {s} : pc'[t] = pc[t]
    BY <1>1, <1>3 DEF SlotTypes, EndRequest
  <2> QED  BY <1>1, <2>1, <2>2 DEF SlotTypes
<1>4. CASE UNCHANGED todo /\ pc' = [pc EXCEPT ![s] = "publish"]
  <2>1. /\ pc' \in [Slots -> {"idle", "check", "publish"}] /\ pc'[s] = "publish"
        /\ \A t \in Slots \ {s} : pc'[t] = pc[t]
    BY <1>1, <1>4 DEF SlotTypes
  <2>2. ~EndRequest(s)
    BY <1>1, <1>4, <2>1 DEF EndRequest, SlotTypes
  <2>3. ~NextEvent(s)
    BY <1>1, <1>4, <2>1 DEF NextEvent, SlotTypes
  <2> QED  BY <1>1, <1>4, <2>1, <2>2, <2>3 DEF SlotTypes
<1> QED  BY <1>2, <1>3, <1>4

LEMMA FaultTypes ==
    ASSUME TypeInv, NEW h \in HazardKinds, Fault(h) \/ NoFault
    PROVE  /\ faults' \in 0 .. MaxFaults /\ hazards' \subseteq HazardKinds
           /\ faults' = 0 => hazards' = {}
           /\ hazards \subseteq hazards' /\ faults <= faults'
<1>1. /\ faults \in 0 .. MaxFaults /\ MaxFaults \in Nat /\ hazards \subseteq HazardKinds
      /\ faults = 0 => hazards = {}
  BY PipelineAssumption DEF TypeInv, TypeOK, HazardKinds
<1> HIDE DEF HazardKinds
<1>2. CASE Fault(h)
  <2>1. faults < MaxFaults /\ faults' = faults + 1 /\ hazards' = hazards \cup {h}
    BY <1>2 DEF Fault
  <2>2. faults' \in 0 .. MaxFaults /\ faults' # 0 /\ faults <= faults'
    BY <1>1, <2>1
  <2> QED  BY <1>1, <2>1, <2>2
<1>3. CASE NoFault
  BY <1>1, <1>3 DEF NoFault
<1> QED  BY <1>2, <1>3

\* What an append leaves in the file.
LEMMA BufferTypes ==
    ASSUME TypeInv, NEW e \in Events, BufferEvent(e)
    PROVE  /\ file' \in Lines /\ dropped' \subseteq Events
           /\ Fault("torn") \/ NoFault
<1>1. file \in Lines /\ dropped \subseteq Events
  BY DEF TypeInv, TypeOK, Lines
<1>2. MakeRoom(file) \in Lines
  BY <1>1, MakeRoomType
<1>3. Append(MakeRoom(file), e) \in Lines /\ Append(MakeRoom(file), Torn) \in Lines
  BY <1>2, AppendRecord
<1>4. Records(Readable(file)) \subseteq Events
  <2>1. Readable(file) \in Lines
    BY <1>1, ReadableType, SeqMonotonic DEF Lines
  <2> QED  BY <2>1, RecordsOf
<1> QED  BY <1>1, <1>3, <1>4 DEF BufferEvent

LEMMA TopicType ==
    ASSUME TypeInv, NEW e \in Events, topic' = [topic EXCEPT ![e] = @ + 1]
    PROVE  /\ topic' \in [Events -> Nat] /\ topic'[e] = topic[e] + 1
           /\ \A d \in Events : d # e => topic'[d] = topic[d]
  BY DEF TypeInv, TypeOK

\* The rest of the state, when a request takes a step.
LEMMA StepType ==
    ASSUME TypeInv, NEW s \in Slots, Moves(s)
    PROVE  TypeInv'
<1>0. pc[s] # "idle"
  BY DEF Moves, Step, Cancel, ValidateFails, RejectDuplicate, AcceptNew, PublishSucceeds, PublishQueueFull,
         PublishUnreachable, PublishTimesOut, Publishing
<1> DEFINE e == Head(todo[s])
<1>1. e \in Events /\ e.key \in Keys
  BY <1>0, Slot DEF Keys
<1>2. SlotTypes'
  <2>1. UNCHANGED mode
    BY DEF Moves, Step, Cancel, ValidateFails, RejectDuplicate, AcceptNew, PublishSucceeds, PublishQueueFull,
           PublishUnreachable, PublishTimesOut, startup
  <2>2. \/ NextEvent(s) \/ EndRequest(s) \/ (UNCHANGED todo /\ pc' = [pc EXCEPT ![s] = "publish"])
    BY DEF Moves, Step, Cancel, ValidateFails, RejectDuplicate, AcceptNew, PublishSucceeds, PublishQueueFull,
           PublishUnreachable, PublishTimesOut
  <2> QED  BY <1>0, <2>1, <2>2, SlotMoves
<1> HIDE DEF e
<1>3. CASE ValidateFails(s)
  BY <1>2, <1>3 DEF TypeInv, TypeOK, SlotTypes, ValidateFails, ValidateFirst, dedup, startup, disk, answers
<1>4. CASE RejectDuplicate(s)
  <2>1. /\ faults' \in 0 .. MaxFaults /\ hazards' \subseteq HazardKinds
        /\ faults' = 0 => hazards' = {}
    BY <1>4, FaultTypes DEF RejectDuplicate, HazardKinds
  <2>2. current' = current \cup {e.key} /\ previous' = previous /\ asDup' = asDup \cup {e}
    BY <1>4 DEF RejectDuplicate, Insert, e
  <2> QED  BY <1>1, <1>2, <1>4, <2>1, <2>2 DEF TypeInv, TypeOK, SlotTypes, RejectDuplicate, startup, disk, HazardKinds
<1>5. CASE AcceptNew(s)
  <2>1. current' = current \cup {e.key} /\ previous' = previous
    BY <1>5 DEF AcceptNew, Insert, e
  <2> QED  BY <1>1, <1>2, <1>5, <2>1 DEF TypeInv, TypeOK, SlotTypes, AcceptNew, startup, disk, answers
<1>6. CASE PublishSucceeds(s)
  <2>1. topic' \in [Events -> Nat] /\ acked' = acked \cup {e}
    BY <1>1, <1>6, TopicType DEF PublishSucceeds, e
  <2> QED  BY <1>1, <1>2, <1>6, <2>1 DEF TypeInv, TypeOK, SlotTypes, PublishSucceeds, startup, dedup, disk
<1>7. CASE PublishQueueFull(s)
  <2>1. refused' = refused \cup {e}
    BY <1>7 DEF PublishQueueFull, e
  <2> QED  BY <1>1, <1>2, <1>7, <2>1 DEF TypeInv, TypeOK, SlotTypes, PublishQueueFull, startup, dedup, disk
<1>8. CASE PublishUnreachable(s)
  <2>1. BufferEvent(e) /\ acked' = acked \cup {e}
    BY <1>8 DEF PublishUnreachable, e
  <2>2. file' \in Lines /\ dropped' \subseteq Events /\ (Fault("torn") \/ NoFault)
    BY <1>1, <2>1, BufferTypes
  <2>3. /\ faults' \in 0 .. MaxFaults /\ hazards' \subseteq HazardKinds
        /\ faults' = 0 => hazards' = {}
    BY <2>2, FaultTypes DEF HazardKinds
  <2> QED  BY <1>1, <1>2, <1>8, <2>1, <2>2, <2>3
           DEF TypeInv, TypeOK, SlotTypes, PublishUnreachable, startup, dedup, HazardKinds, Lines
<1>9. CASE PublishTimesOut(s)
  <2>1. topic' \in [Events -> Nat] /\ acked' = acked \cup {e}
    BY <1>1, <1>9, TopicType DEF PublishTimesOut, e
  <2>2. /\ faults' \in 0 .. MaxFaults /\ hazards' \subseteq HazardKinds
        /\ faults' = 0 => hazards' = {}
    BY <1>9, FaultTypes DEF HazardKinds, PublishTimesOut
  <2>3. file \in Lines
    BY DEF TypeInv, TypeOK, Lines
  <2>4. file' \in Lines
    BY <1>1, <1>9, <2>3, MakeRoomType, AppendRecord DEF PublishTimesOut, e
  <2>5. dropped' \subseteq Events
    <3>1. Readable(file) \in Lines
      BY <2>3, ReadableType, SeqMonotonic DEF Lines
    <3>2. Records(Readable(file)) \subseteq Events /\ dropped \subseteq Events
      BY <3>1, RecordsOf DEF TypeInv, TypeOK
    <3> QED  BY <1>9, <3>2 DEF PublishTimesOut
  <2>6. UNCHANGED <<mode, replay, failed, current, previous, requests, asDup, refused, abandoned>>
    BY <1>9 DEF PublishTimesOut, startup, dedup
  <2> QED  BY <1>1, <1>2, <2>1, <2>2, <2>4, <2>5, <2>6
           DEF TypeInv, TypeOK, SlotTypes, HazardKinds, Lines
<1>10. CASE Cancel(s)
  <2>1. topic' \in [Events -> Nat] /\ abandoned' = abandoned \cup {e}
    <3>1. CASE UNCHANGED topic
      BY <1>10, <3>1 DEF Cancel, TypeInv, TypeOK, e
    <3> QED  BY <1>1, <1>10, <3>1, TopicType DEF Cancel, e
  <2>2. /\ faults' \in 0 .. MaxFaults /\ hazards' \subseteq HazardKinds
        /\ faults' = 0 => hazards' = {}
    BY <1>10, FaultTypes DEF HazardKinds, Cancel
  <2> QED  BY <1>1, <1>2, <1>10, <2>1, <2>2
           DEF TypeInv, TypeOK, SlotTypes, Cancel, startup, dedup, disk, HazardKinds
<1> QED  BY <1>3, <1>4, <1>5, <1>6, <1>7, <1>8, <1>9, <1>10 DEF Moves, Step

LEMMA SendType ==
    ASSUME TypeInv, NEW s \in Slots, Ingest(s)
    PROVE  /\ TypeInv' /\ mode = "serve"
           /\ pc'[s] = "check" /\ \A t \in Slots \ {s} : pc'[t] = pc[t] /\ todo'[t] = todo[t]
           /\ pc[s] = "idle"
           /\ UNCHANGED <<startup, dedup, disk, topic, faults, answers, hazards>>
<1>1. PICK b \in Seq(Events) : b # <<>> /\ Send(s, b)
  <2>1. ASSUME NEW kind, One(s, kind) PROVE \E b \in Seq(Events) : b # <<>> /\ Send(s, b)
    <3>1. PICK e \in Events : Send(s, <<e>>)
      BY <2>1 DEF One
    <3>2. <<e>> \in Seq(Events) /\ <<e>> # <<>>
      OBVIOUS
    <3> QED  BY <3>1, <3>2
  <2>2. ASSUME NEW kind, Many(s, kind) PROVE \E b \in Seq(Events) : b # <<>> /\ Send(s, b)
    BY <2>2, PipelineAssumption DEF Many
  <2> QED  BY <2>1, <2>2 DEF Ingest, ingest_exposure, ingest_exposure_batch, ingest_metric_event,
             ingest_metric_event_batch, ingest_reward_event, ingest_qo_e_event, ingest_qo_e_event_batch,
             ingest_model_retraining_event
<1>2. /\ mode = "serve" /\ pc[s] = "idle" /\ requests < MaxRequests /\ requests' = requests + 1
      /\ todo' = [todo EXCEPT ![s] = b] /\ pc' = [pc EXCEPT ![s] = "check"]
      /\ UNCHANGED <<startup, dedup, disk, topic, faults, answers, hazards>>
  BY <1>1 DEF Send
<1>3. /\ todo' \in [Slots -> Seq(Events)] /\ todo'[s] = b
      /\ \A t \in Slots \ {s} : todo'[t] = todo[t]
  BY <1>2 DEF TypeInv, TypeOK
<1>4. /\ pc' \in [Slots -> {"idle", "check", "publish"}] /\ pc'[s] = "check"
      /\ \A t \in Slots \ {s} : pc'[t] = pc[t]
  BY <1>2 DEF TypeInv, TypeOK
<1>5. requests' \in 0 .. MaxRequests
  BY <1>2, PipelineAssumption DEF TypeInv, TypeOK
<1>6. \A t \in Slots : pc'[t] # "idle" => todo'[t] # <<>>
  BY <1>1, <1>3, <1>4 DEF TypeInv
<1> QED  BY <1>2, <1>3, <1>4, <1>5, <1>6 DEF TypeInv, TypeOK, startup, dedup, disk, answers

\* A restart, whatever it finds on disk.
LEMMA RestartType ==
    ASSUME TypeInv, NEW h \in HazardKinds, NEW f \in Lines, Restart(h, f)
    PROVE  TypeInv' /\ h \in hazards'
<1>1. /\ faults' \in 0 .. MaxFaults /\ hazards' \subseteq HazardKinds
      /\ faults' = 0 => hazards' = {}
  BY FaultTypes DEF Restart
<1>2. mode' \in {"replay", "serve"} /\ replay' \in Seq(Events) /\ failed' \in BOOLEAN
  BY ReadableType, EmptySeq DEF Restart
<1>3. /\ todo' \in [Slots -> Seq(Events)] /\ pc' \in [Slots -> {"idle", "check", "publish"}]
      /\ \A s \in Slots : pc'[s] = "idle"
  BY EmptySeq DEF Restart
<1>4. current' = {} /\ previous' = {} /\ file' = f /\ h \in hazards'
  BY DEF Restart, Fault
<1>5. UNCHANGED <<topic, requests, acked, asDup, refused, abandoned, dropped>>
  BY DEF Restart, answers
<1> QED  BY <1>1, <1>2, <1>3, <1>4, <1>5 DEF TypeInv, TypeOK, HazardKinds, Lines

LEMMA CrashTypes ==
    ASSUME TypeInv, Crash \/ CrashInAppend
    PROVE  TypeInv' /\ ("crash" \in hazards' \/ "torn" \in hazards')
<1>1. file \in Lines /\ Append(MakeRoom(file), Torn) \in Lines
  BY MakeRoomType, AppendRecord DEF TypeInv, TypeOK, Lines
<1>2. "crash" \in HazardKinds /\ "torn" \in HazardKinds
  BY DEF HazardKinds
<1> QED  BY <1>1, <1>2, RestartType DEF Crash, CrashInAppend

LEMMA ReplayTypes ==
    ASSUME TypeInv, Replay
    PROVE  TypeInv'
<1>0. UNCHANGED <<todo, pc, current, previous, dropped, requests, faults, acked, asDup, refused, abandoned, hazards>>
  BY DEF Replay, ReplaySucceeds, ReplayRefused, ReplayAborted, ReplayEnds, dedup, disk, answers
<1>1. CASE ReplaySucceeds \/ ReplayRefused
  <2>1. Head(replay) \in Events /\ replay' \in Seq(Events)
    <3>1. replay \in Seq(Events) /\ replay # <<>> /\ replay' = Tail(replay)
      BY <1>1 DEF ReplaySucceeds, ReplayRefused, TypeInv, TypeOK
    <3> QED  BY <3>1, HeadTailProperties
  <2>2. topic' \in [Events -> Nat]
    <3>1. CASE ReplaySucceeds
      BY <2>1, <3>1, TopicType DEF ReplaySucceeds
    <3>2. CASE ReplayRefused
      BY <3>2 DEF ReplayRefused, TypeInv, TypeOK
    <3> QED  BY <1>1, <3>1, <3>2
  <2>3. failed' \in BOOLEAN /\ UNCHANGED <<mode, file>>
    BY <1>1 DEF ReplaySucceeds, ReplayRefused, TypeInv, TypeOK, disk
  <2> QED  BY <1>0, <2>1, <2>2, <2>3 DEF TypeInv, TypeOK
<1>2. CASE ReplayAborted \/ ReplayEnds
  <2>1. mode' = "serve" /\ replay' \in Seq(Events) /\ UNCHANGED <<topic, failed>>
    BY <1>2, EmptySeq DEF ReplayAborted, ReplayEnds, TypeInv, TypeOK
  <2>2. file' \in Lines
    BY <1>2, EmptySeq DEF ReplayAborted, ReplayEnds, TypeInv, TypeOK, Lines, disk
  <2> QED  BY <1>0, <2>1, <2>2 DEF TypeInv, TypeOK, Lines
<1> QED  BY <1>1, <1>2 DEF Replay

LEMMA RotateType ==
    ASSUME TypeInv, Rotate
    PROVE  TypeInv'
<1>1. /\ faults' \in 0 .. MaxFaults /\ hazards' \subseteq HazardKinds
      /\ faults' = 0 => hazards' = {}
  BY FaultTypes DEF Rotate, HazardKinds
<1> QED  BY <1>1 DEF Rotate, TypeInv, TypeOK, HazardKinds, startup, disk, answers

LEMMA InitType == Init => TypeInv
<1> SUFFICES ASSUME Init PROVE TypeInv
  OBVIOUS
<1>1. todo \in [Slots -> Seq(Events)] /\ file \in Lines /\ replay \in Seq(Events)
  BY EmptySeq DEF Init, Lines
<1>2. requests \in 0 .. MaxRequests /\ faults \in 0 .. MaxFaults
  BY PipelineAssumption DEF Init
<1> QED  BY <1>1, <1>2 DEF Init, TypeInv, TypeOK, Lines

LEMMA NextType == TypeInv /\ [Next]_vars => TypeInv'
<1> SUFFICES ASSUME TypeInv, [Next]_vars PROVE TypeInv'
  OBVIOUS
<1>1. ASSUME NEW s \in Slots, Ingest(s) PROVE TypeInv'
  BY <1>1, SendType
<1>2. ASSUME NEW s \in Slots, Moves(s) PROVE TypeInv'
  BY <1>2, StepType
<1>3. CASE UNCHANGED vars
  BY <1>3 DEF TypeInv, TypeOK, vars
<1> QED  BY <1>1, <1>2, <1>3, RotateType, CrashTypes, ReplayTypes DEF Next, Moves

\* What the service holds in memory, on disk and in Kafka keeps its type, for
\* any events, any number of requests and any faults.
THEOREM TypeCorrect == Spec => []TypeOK
<1>1. TypeInv => TypeOK
  BY DEF TypeInv
<1> QED  BY <1>1, InitType, NextType, PTL DEF Spec

-----------------------------------------------------------------------------
(* No silent loss.                                                         *)

\* Faults are only added.
LEMMA StepFaults ==
    ASSUME TypeInv, NEW s \in Slots, Moves(s)
    PROVE  hazards \subseteq hazards' /\ faults <= faults'
<1>0. pc[s] # "idle"
  BY DEF Moves, Step, Cancel, ValidateFails, RejectDuplicate, AcceptNew, PublishSucceeds, PublishQueueFull,
         PublishUnreachable, PublishTimesOut, Publishing
<1>1. Head(todo[s]) \in Events
  BY <1>0, Slot
<1>2. PublishUnreachable(s) => Fault("torn") \/ NoFault
  BY <1>1, BufferTypes DEF PublishUnreachable
<1>3. NoFault \/ Fault("false_positive") \/ Fault("torn") \/ Fault("timeout") \/ Fault("cancel")
  BY <1>2 DEF Moves, Step, Cancel, ValidateFails, RejectDuplicate, AcceptNew, PublishSucceeds, PublishQueueFull,
         PublishTimesOut, NoFault
<1> QED  BY <1>3, FaultTypes DEF HazardKinds

\* Appending to a whole file loses nothing but what the log names.
LEMMA AppendKeeps ==
    ASSUME TypeInv, Whole(file), NEW e \in Events, file' = Append(MakeRoom(file), e),
           dropped' = dropped \cup (Records(Readable(file)) \ Records(MakeRoom(file)))
    PROVE  /\ Whole(file)' /\ e \in Records(file)'
           /\ \A d \in Records(file) \cup dropped : d \in Records(file)' \cup dropped'
<1>1. file \in Lines /\ Torn \notin Events
  BY PipelineAssumption DEF TypeInv, TypeOK, Lines
<1>2. MakeRoom(file) \in Lines /\ Whole(MakeRoom(file))
  BY <1>1, MakeRoomType DEF Whole
<1>3. Readable(file) = file
  BY <1>1, ReadableType DEF Whole
<1>4. /\ Whole(file') /\ e \in Records(file')
      /\ \A d \in Records(MakeRoom(file)) : d \in Records(file')
  BY <1>1, <1>2, AppendRecord DEF Whole
<1> QED  BY <1>3, <1>4 DEF Whole, Records

\* What LossInv says between two starts.
LEMMA StepLoss ==
    ASSUME TypeInv, LossInv, NEW s \in Slots, Moves(s)
    PROVE  LossInv'
<1> SUFFICES ASSUME "torn" \notin hazards'
             PROVE  /\ Whole(file)'
                    /\ \A d \in acked' : topic'[d] > 0 \/ d \in Records(file)' \/ d \in dropped'
                    /\ mode' # "replay"
  BY DEF LossInv
<1>0. pc[s] # "idle"
  BY DEF Moves, Step, Cancel, ValidateFails, RejectDuplicate, AcceptNew, PublishSucceeds, PublishQueueFull,
         PublishUnreachable, PublishTimesOut, Publishing
<1> DEFINE e == Head(todo[s])
<1>1. e \in Events /\ mode = "serve"
  BY <1>0, Slot
<1>2. "torn" \notin hazards
  BY StepFaults
<1>3. /\ Whole(file)
      /\ \A d \in acked : topic[d] > 0 \/ d \in Records(file) \/ d \in dropped
  BY <1>2 DEF LossInv
<1>4. mode' # "replay"
  <2>1. UNCHANGED mode
    BY DEF Moves, Step, Cancel, ValidateFails, RejectDuplicate, AcceptNew, PublishSucceeds, PublishQueueFull,
           PublishUnreachable, PublishTimesOut, startup
  <2> QED  BY <1>1, <2>1
<1>5. acked \subseteq Events /\ topic \in [Events -> Nat]
  BY DEF TypeInv, TypeOK
<1> HIDE DEF e
<1>6. CASE ValidateFails(s) \/ RejectDuplicate(s) \/ AcceptNew(s) \/ PublishQueueFull(s)
  <2>1. UNCHANGED <<acked, topic, file, dropped>>
    BY <1>6 DEF ValidateFails, RejectDuplicate, AcceptNew, PublishQueueFull, answers, disk
  <2> QED  BY <1>3, <1>4, <2>1 DEF Whole, Records
<1>7. CASE PublishSucceeds(s)
  <2>1. topic' = [topic EXCEPT ![e] = @ + 1] /\ acked' = acked \cup {e} /\ UNCHANGED <<file, dropped>>
    BY <1>7 DEF PublishSucceeds, disk, e
  <2>2. topic'[e] = topic[e] + 1 /\ \A d \in Events : d # e => topic'[d] = topic[d]
    BY <1>1, <2>1, TopicType
  <2>3. topic'[e] > 0
    BY <1>1, <1>5, <2>2
  <2>4. ASSUME NEW d \in acked' PROVE topic'[d] > 0 \/ d \in Records(file) \/ d \in dropped
    BY <1>3, <1>5, <2>1, <2>2, <2>3, <2>4
  <2> QED  BY <1>3, <1>4, <2>1, <2>4 DEF Whole, Records
<1>8. CASE PublishUnreachable(s)
  <2>1. BufferEvent(e) /\ acked' = acked \cup {e} /\ UNCHANGED topic
    BY <1>8 DEF PublishUnreachable, e
  <2>2. CASE dropped' = dropped \cup {e} /\ UNCHANGED file
    BY <1>3, <1>4, <2>1, <2>2 DEF Whole, Records
  <2>3. CASE /\ file' = Append(MakeRoom(file), e)
             /\ dropped' = dropped \cup (Records(Readable(file)) \ Records(MakeRoom(file)))
    <3>1. /\ Whole(file)' /\ e \in Records(file)'
          /\ \A d \in Records(file) \cup dropped : d \in Records(file)' \cup dropped'
      BY <1>1, <1>3, <2>3, AppendKeeps
    <3> QED  BY <1>3, <1>4, <2>1, <3>1
  <2>4. ~Fault("torn")
    BY DEF Fault
  <2> QED  BY <2>1, <2>2, <2>3, <2>4 DEF BufferEvent
<1>9. CASE PublishTimesOut(s)
  <2>1. /\ topic' = [topic EXCEPT ![e] = @ + 1] /\ acked' = acked \cup {e}
        /\ file' = Append(MakeRoom(file), e)
        /\ dropped' = dropped \cup (Records(Readable(file)) \ Records(MakeRoom(file)))
    BY <1>9 DEF PublishTimesOut, e
  <2>2. topic'[e] = topic[e] + 1 /\ \A d \in Events : d # e => topic'[d] = topic[d]
    BY <1>1, <2>1, TopicType
  <2>3. /\ Whole(file)' /\ e \in Records(file)'
        /\ \A d \in Records(file) \cup dropped : d \in Records(file)' \cup dropped'
    BY <1>1, <1>3, <2>1, AppendKeeps
  <2>4. ASSUME NEW d \in acked' PROVE topic'[d] > 0 \/ d \in Records(file)' \/ d \in dropped'
    <3>1. CASE d = e
      BY <2>3, <3>1
    <3>2. CASE d # e
      <4>1. d \in acked /\ topic'[d] = topic[d]
        BY <1>5, <2>1, <2>2, <2>4, <3>2
      <4> QED  BY <1>3, <2>3, <4>1
    <3> QED  BY <3>1, <3>2
  <2> QED  BY <1>4, <2>3, <2>4
<1>10. CASE Cancel(s)
  <2>1. topic' = [topic EXCEPT ![e] = @ + 1] \/ topic' = topic
    BY <1>10 DEF Cancel, e
  <2>2. UNCHANGED <<acked, file, dropped>>
    BY <1>10 DEF Cancel, disk
  <2>3. \A d \in Events : topic[d] > 0 => topic'[d] > 0
    BY <1>1, <1>5, <2>1, TopicType
  <2> QED  BY <1>3, <1>4, <1>5, <2>2, <2>3 DEF Whole, Records
<1> QED  BY <1>6, <1>7, <1>8, <1>9, <1>10 DEF Moves, Step

\* A restart reads all of a whole file.
LEMMA CrashLoss ==
    ASSUME TypeInv, LossInv, Crash \/ CrashInAppend
    PROVE  LossInv'
<1> SUFFICES ASSUME "torn" \notin hazards'
             PROVE  /\ Whole(file)'
                    /\ \A d \in acked' : topic'[d] > 0 \/ d \in Records(file)' \/ d \in dropped'
                    /\ mode' = "replay" /\ ~failed' =>
                         \A d \in Records(file)' : topic'[d] > 0 \/ d \in Records(replay)'
  BY DEF LossInv
<1>1. Restart("crash", file)
  BY DEF Crash, CrashInAppend, Restart, Fault
<1>2. "torn" \notin hazards
  BY <1>1 DEF Restart, Fault
<1>3. /\ Whole(file)
      /\ \A d \in acked : topic[d] > 0 \/ d \in Records(file) \/ d \in dropped
  BY <1>2 DEF LossInv
<1>4. UNCHANGED <<file, acked, topic, dropped>>
  BY <1>1 DEF Restart, answers
<1>5. Readable(file) = file
  BY <1>3, ReadableType DEF TypeInv, TypeOK, Lines, Whole
<1>6. mode' = "replay" => replay' = file
  BY <1>1, <1>5 DEF Restart
<1> QED  BY <1>3, <1>4, <1>6 DEF Whole, Records

\* The replay: the file goes only when all of it was published.
LEMMA ReplayLoss ==
    ASSUME TypeInv, LossInv, Replay
    PROVE  LossInv'
<1> SUFFICES ASSUME "torn" \notin hazards'
             PROVE  /\ Whole(file)'
                    /\ \A d \in acked' : topic'[d] > 0 \/ d \in Records(file)' \/ d \in dropped'
                    /\ mode' = "replay" /\ ~failed' =>
                         \A d \in Records(file)' : topic'[d] > 0 \/ d \in Records(replay)'
  BY DEF LossInv
<1>1. UNCHANGED <<hazards, acked, dropped>> /\ mode = "replay"
  BY DEF Replay, ReplaySucceeds, ReplayRefused, ReplayAborted, ReplayEnds, disk, answers
<1>2. /\ Whole(file)
      /\ \A d \in acked : topic[d] > 0 \/ d \in Records(file) \/ d \in dropped
      /\ ~failed => \A d \in Records(file) : topic[d] > 0 \/ d \in Records(replay)
  BY <1>1 DEF LossInv
<1>3. acked \subseteq Events /\ topic \in [Events -> Nat] /\ replay \in Seq(Events)
  BY DEF TypeInv, TypeOK
<1>4. Records(file) \subseteq Events
  BY RecordsOf DEF TypeInv, TypeOK, Lines
<1>5. CASE ReplaySucceeds
  <2>1. replay # <<>> /\ topic' = [topic EXCEPT ![Head(replay)] = @ + 1] /\ replay' = Tail(replay)
    BY <1>5 DEF ReplaySucceeds
  <2>2. UNCHANGED <<file, failed>>
    BY <1>5 DEF ReplaySucceeds, disk
  <2>3. /\ Head(replay) \in Events /\ Head(replay) = replay[1] /\ Len(replay) \in Nat
        /\ Len(Tail(replay)) = Len(replay) - 1 /\ \A i \in 1 .. Len(Tail(replay)) : Tail(replay)[i] = replay[i + 1]
    BY <1>3, <2>1, HeadTailProperties
  <2>4. \A d \in Records(replay) : d = Head(replay) \/ d \in Records(replay')
    <3>1. ASSUME NEW i \in 1 .. Len(replay), i # 1
          PROVE  i - 1 \in 1 .. Len(Tail(replay)) /\ Tail(replay)[i - 1] = replay[i]
      BY <2>3, <3>1
    <3> QED  BY <2>1, <2>3, <3>1 DEF Records
  <2>5. topic'[Head(replay)] = topic[Head(replay)] + 1 /\ \A d \in Events : d # Head(replay) => topic'[d] = topic[d]
    BY <2>1, <2>3, TopicType
  <2>6. topic'[Head(replay)] > 0 /\ \A d \in Events : topic[d] > 0 => topic'[d] > 0
    BY <1>3, <2>3, <2>5
  <2>7. Records(file)' = Records(file) /\ Records(replay)' = Records(replay') /\ Whole(file)'
    BY <1>2, <2>2 DEF Records, Whole
  <2>8. \A d \in acked' : topic'[d] > 0 \/ d \in Records(file)' \/ d \in dropped'
    BY <1>1, <1>2, <1>3, <2>6, <2>7
  <2>9. ~failed' => \A d \in Records(file)' : topic'[d] > 0 \/ d \in Records(replay)'
    BY <1>2, <1>4, <2>2, <2>4, <2>6, <2>7
  <2> QED  BY <2>7, <2>8, <2>9
<1>6. CASE ReplayRefused \/ ReplayAborted
  <2>1. UNCHANGED <<topic, file>> /\ (failed' \/ mode' = "serve")
    BY <1>6 DEF ReplayRefused, ReplayAborted, disk
  <2> QED  BY <1>1, <1>2, <2>1 DEF Whole, Records
<1>7. CASE ReplayEnds
  <2>1. UNCHANGED topic /\ mode' = "serve" /\ replay = <<>> /\ file' = IF failed THEN file ELSE <<>>
    BY <1>7 DEF ReplayEnds, ClearsFile, TypeInv, TypeOK
  <2>2. CASE failed
    BY <1>1, <1>2, <2>1, <2>2 DEF Whole, Records
  <2>3. CASE ~failed
    <3>1. file' = <<>> /\ Records(replay) = {}
      BY <2>1, <2>3 DEF Records
    <3>2. \A d \in Records(file) : topic[d] > 0
      BY <1>2, <2>3, <3>1
    <3>3. Whole(file)'
      BY <3>1 DEF Whole
    <3> QED  BY <1>1, <1>2, <2>1, <3>2, <3>3
  <2> QED  BY <2>2, <2>3
<1> QED  BY <1>5, <1>6, <1>7 DEF Replay

LEMMA NextLoss == TypeInv /\ LossInv /\ [Next]_vars => LossInv'
<1> SUFFICES ASSUME TypeInv, LossInv, [Next]_vars PROVE LossInv'
  OBVIOUS
<1>1. ASSUME NEW s \in Slots, Ingest(s) PROVE LossInv'
  <2>1. UNCHANGED <<mode, replay, failed, file, dropped, topic, acked, hazards>>
    BY <1>1, SendType DEF startup, disk, answers
  <2> QED  BY <2>1 DEF LossInv, Whole, Records
<1>2. ASSUME NEW s \in Slots, Moves(s) PROVE LossInv'
  BY <1>2, StepLoss
<1>3. CASE Rotate
  <2>1. UNCHANGED <<mode, replay, failed, file, dropped, topic, acked>> /\ hazards \subseteq hazards'
    BY <1>3 DEF Rotate, Fault, startup, disk, answers
  <2> QED  BY <2>1 DEF LossInv, Whole, Records
<1>4. CASE UNCHANGED vars
  BY <1>4 DEF LossInv, vars, Whole, Records
<1> QED  BY <1>1, <1>2, <1>3, <1>4, CrashLoss, ReplayLoss DEF Next, Moves

\* No silent loss, for any events, any number of requests, any buffer size and
\* any faults short of a torn record: what a client was told is accepted is in
\* Kafka or in the file, or the log says that it was dropped.
THEOREM NothingLost == Spec => []NoSilentLoss
<1>1. Init => LossInv
  BY DEF Init, LossInv, Whole, Records
<1>2. LossInv => NoSilentLoss
  BY DEF LossInv, NoSilentLoss
<1> QED  BY <1>1, <1>2, InitType, NextType, NextLoss, PTL DEF Spec

-----------------------------------------------------------------------------
(* Deduplication.                                                          *)

\* A step of one request leaves the others where they are, and makes the
\* filters forget nothing.
LEMMA StepFrame ==
    ASSUME TypeInv, NEW s \in Slots, Moves(s)
    PROVE  /\ pc[s] # "idle" /\ mode = "serve" /\ mode' = "serve" /\ Head(todo[s]) \in Events
           /\ \A t \in Slots \ {s} : pc'[t] = pc[t] /\ todo'[t] = todo[t]
           /\ AcceptNew(s) => todo' = todo
           /\ ~AcceptNew(s) => pc'[s] # "publish"
           /\ current \subseteq current' /\ previous' = previous
<1>0. pc[s] # "idle"
  BY DEF Moves, Step, Cancel, ValidateFails, RejectDuplicate, AcceptNew, PublishSucceeds, PublishQueueFull,
         PublishUnreachable, PublishTimesOut, Publishing
<1>1. UNCHANGED mode
  BY DEF Moves, Step, Cancel, ValidateFails, RejectDuplicate, AcceptNew, PublishSucceeds, PublishQueueFull,
         PublishUnreachable, PublishTimesOut, startup
<1>2. AcceptNew(s) => UNCHANGED todo /\ pc' = [pc EXCEPT ![s] = "publish"]
  BY DEF AcceptNew
<1>3. ~AcceptNew(s) => NextEvent(s) \/ EndRequest(s)
  BY DEF Moves, Step, Cancel, ValidateFails, RejectDuplicate, PublishSucceeds, PublishQueueFull,
         PublishUnreachable, PublishTimesOut
<1>4. /\ \A t \in Slots \ {s} : pc'[t] = pc[t] /\ todo'[t] = todo[t]
      /\ NextEvent(s) \/ EndRequest(s) => pc'[s] # "publish"
  BY <1>0, <1>1, <1>2, <1>3, SlotMoves
<1>5. current \subseteq current' /\ previous' = previous
  BY DEF Moves, Step, Cancel, ValidateFails, RejectDuplicate, AcceptNew, PublishSucceeds, PublishQueueFull,
         PublishUnreachable, PublishTimesOut, ValidateFirst, dedup, Insert
<1> QED  BY <1>0, <1>1, <1>2, <1>3, <1>4, <1>5, Slot

\* No fault is forgotten, so that a steady run was steady all along.
LEMMA SteadyBefore ==
    ASSUME TypeInv, TypeInv', hazards \subseteq hazards', faults <= faults', Steady'
    PROVE  Steady
<1>1. faults \in Nat /\ faults' \in Nat
  BY PipelineAssumption DEF TypeInv, TypeOK
<1>2. faults' < 2 => faults < 2
  BY <1>1
<1>3. hazards' \cap {"crash", "torn", "timeout"} = {} /\ (faults' < 2 \/ "rotate" \notin hazards')
  BY DEF Steady
<1> QED  BY <1>2, <1>3 DEF Steady

LEMMA StepOnce ==
    ASSUME TypeInv, OnceInv, NEW s \in Slots, Moves(s)
    PROVE  OnceInv'
<1> SUFFICES ASSUME Steady'
             PROVE  /\ mode' = "serve"
                    /\ "rotate" \notin hazards' => previous' = {}
                    /\ \A d \in Events : topic'[d] <= 1 /\ (topic'[d] > 0 => d.key \in current' \cup previous')
                    /\ \A t \in Slots : pc'[t] = "publish" =>
                         Head(todo'[t]).key \in current' \cup previous' /\ topic'[Head(todo'[t])] = 0
                    /\ \A t, u \in Slots : pc'[t] = "publish" /\ pc'[u] = "publish" /\ t # u =>
                         Head(todo'[t]).key # Head(todo'[u]).key
  BY DEF OnceInv, Seen
<1> DEFINE e == Head(todo[s])
<1>1. hazards \subseteq hazards' /\ faults <= faults' /\ TypeInv'
  BY StepFaults, StepType
<1>2. Steady
  BY <1>1, SteadyBefore
<1>3. /\ "rotate" \notin hazards => previous = {}
      /\ \A d \in Events : topic[d] <= 1 /\ (topic[d] > 0 => d.key \in current \cup previous)
      /\ \A t \in Slots : pc[t] = "publish" =>
           Head(todo[t]).key \in current \cup previous /\ topic[Head(todo[t])] = 0
      /\ \A t, u \in Slots : pc[t] = "publish" /\ pc[u] = "publish" /\ t # u =>
           Head(todo[t]).key # Head(todo[u]).key
  BY <1>2 DEF OnceInv, Seen
<1>4. /\ mode' = "serve" /\ e \in Events
      /\ \A t \in Slots \ {s} : pc'[t] = pc[t] /\ todo'[t] = todo[t]
      /\ AcceptNew(s) => todo' = todo
      /\ ~AcceptNew(s) => pc'[s] # "publish"
      /\ current \subseteq current' /\ previous' = previous
  BY StepFrame
<1>5. "rotate" \notin hazards' => previous' = {}
  BY <1>1, <1>3, <1>4
<1>6. topic \in [Events -> Nat]
  BY DEF TypeInv, TypeOK
<1> HIDE DEF e
<1>7. CASE AcceptNew(s)
  <2>1. UNCHANGED topic /\ e.key \notin current \cup previous /\ e.key \in current'
    BY <1>7 DEF AcceptNew, Seen, Insert, e
  <2>2. topic[e] = 0
    BY <1>3, <1>4, <1>6, <2>1
  <2>3. \A t \in Slots \ {s} : pc'[t] = "publish" => Head(todo'[t]).key # e.key
    BY <1>3, <1>4, <2>1
  <2>4. Head(todo'[s]) = e
    BY <1>4, <1>7 DEF e
  <2>5. ASSUME NEW t \in Slots, pc'[t] = "publish"
        PROVE  Head(todo'[t]).key \in current' \cup previous' /\ topic'[Head(todo'[t])] = 0
    BY <1>3, <1>4, <2>1, <2>2, <2>4, <2>5
  <2>6. ASSUME NEW t \in Slots, NEW u \in Slots, pc'[t] = "publish", pc'[u] = "publish", t # u
        PROVE  Head(todo'[t]).key # Head(todo'[u]).key
    <3>1. CASE t # s /\ u # s
      BY <1>3, <1>4, <2>6, <3>1
    <3>2. CASE t = s \/ u = s
      BY <2>3, <2>4, <2>6, <3>2
    <3> QED  BY <3>1, <3>2
  <2> QED  BY <1>3, <1>4, <1>5, <2>1, <2>5, <2>6
<1>8. CASE ~AcceptNew(s) /\ UNCHANGED topic
  <2>1. \A t \in Slots : pc'[t] = "publish" => pc[t] = "publish" /\ todo'[t] = todo[t]
    BY <1>4, <1>8
  <2> QED  BY <1>3, <1>4, <1>5, <1>8, <2>1
<1>9. CASE /\ topic' = [topic EXCEPT ![e] = @ + 1] /\ pc[s] = "publish"
           /\ ~AcceptNew(s)
  <2>1. topic' = [topic EXCEPT ![e] = @ + 1] /\ pc[s] = "publish"
    BY <1>9
  <2>2. topic'[e] = topic[e] + 1 /\ \A d \in Events : d # e => topic'[d] = topic[d]
    BY <1>4, <2>1, TopicType
  <2>3. e.key \in current \cup previous /\ topic[e] = 0
    BY <1>3, <2>1 DEF e
  <2>4. \A t \in Slots : pc'[t] = "publish" => t # s /\ pc[t] = "publish" /\ todo'[t] = todo[t]
    BY <1>4, <1>9
  <2>5. \A t \in Slots : pc'[t] = "publish" => Head(todo'[t]) # e /\ Head(todo'[t]) \in Events
    <3>1. ASSUME NEW t \in Slots, pc'[t] = "publish"
          PROVE  Head(todo'[t]) # e /\ Head(todo'[t]) \in Events
      <4>1. t # s /\ pc[t] = "publish" /\ todo'[t] = todo[t]
        BY <2>4, <3>1
      <4>2. Head(todo[t]).key # e.key
        BY <1>3, <2>1, <4>1 DEF e
      <4>3. Head(todo[t]) \in Events
        BY <4>1, Slot
      <4> QED  BY <4>1, <4>2, <4>3
    <3> QED  BY <3>1
  <2>6. \A d \in Events : topic'[d] <= 1 /\ (topic'[d] > 0 => d.key \in current' \cup previous')
    <3>1. topic'[e] <= 1
      BY <2>2, <2>3
    <3> QED  BY <1>3, <1>4, <2>2, <2>3, <3>1
  <2> QED  BY <1>3, <1>4, <1>5, <2>2, <2>4, <2>5, <2>6
<1>10. ~PublishTimesOut(s)
  BY DEF PublishTimesOut, Fault, Steady
<1>11. UNCHANGED topic \/ (topic' = [topic EXCEPT ![e] = @ + 1] /\ pc[s] = "publish")
  BY <1>10 DEF Moves, Step, Cancel, ValidateFails, RejectDuplicate, AcceptNew, PublishSucceeds,
         PublishQueueFull, PublishUnreachable, Publishing, e
<1> QED  BY <1>7, <1>8, <1>9, <1>11

\* One rotation alone forgets nothing: the other filter was empty.
LEMMA RotateOnce ==
    ASSUME TypeInv, OnceInv, Rotate
    PROVE  OnceInv'
<1> SUFFICES ASSUME Steady' PROVE OnceInv'
  BY DEF OnceInv
<1>1. /\ hazards' = hazards \cup {"rotate"} /\ faults' = faults + 1
      /\ previous' = current /\ current' = {}
      /\ UNCHANGED <<mode, todo, pc, topic>>
  BY DEF Rotate, Fault, startup
<1>2. faults \in Nat /\ (faults = 0 => hazards = {})
  BY PipelineAssumption DEF TypeInv, TypeOK
<1>3. faults' < 2
  BY <1>1 DEF Steady
<1>4. faults = 0
  BY <1>1, <1>2, <1>3
<1>5. Steady /\ previous = {}
  BY <1>2, <1>4 DEF Steady, OnceInv
<1>6. current' \cup previous' = current \cup previous
  BY <1>1, <1>5
<1> QED  BY <1>1, <1>5, <1>6 DEF OnceInv, Seen

LEMMA NextOnce == TypeInv /\ OnceInv /\ [Next]_vars => OnceInv'
<1> SUFFICES ASSUME TypeInv, OnceInv, [Next]_vars PROVE OnceInv'
  OBVIOUS
<1>1. ASSUME NEW s \in Slots, Ingest(s) PROVE OnceInv'
  <2>1. /\ UNCHANGED <<mode, current, previous, topic, faults, hazards>>
        /\ pc'[s] = "check" /\ \A t \in Slots \ {s} : pc'[t] = pc[t] /\ todo'[t] = todo[t]
    BY <1>1, SendType DEF startup, dedup
  <2>2. \A t \in Slots : pc'[t] = "publish" => pc[t] = "publish" /\ todo'[t] = todo[t]
    BY <2>1
  <2>3. Steady' => Steady
    BY <2>1 DEF Steady
  <2> QED  BY <2>1, <2>2, <2>3 DEF OnceInv, Seen
<1>2. ASSUME NEW s \in Slots, Moves(s) PROVE OnceInv'
  BY <1>2, StepOnce
<1>3. CASE Crash \/ CrashInAppend
  BY <1>3, CrashTypes DEF OnceInv, Steady
<1>4. CASE Replay
  <2>1. mode = "replay" /\ UNCHANGED <<faults, hazards>>
    BY <1>4 DEF Replay, ReplaySucceeds, ReplayRefused, ReplayAborted, ReplayEnds
  <2> QED  BY <2>1 DEF OnceInv, Steady
<1>5. CASE UNCHANGED vars
  BY <1>5 DEF OnceInv, Steady, Seen, vars
<1> QED  BY <1>1, <1>2, <1>3, <1>4, <1>5, RotateOnce DEF Next, Moves

\* What is on its way stays so, or its answer goes out.
LEMMA StepKnown ==
    ASSUME TypeInv, NEW s \in Slots, Moves(s)
    PROVE  Known \subseteq Known'
<1> DEFINE e == Head(todo[s])
<1>1. /\ \A t \in Slots \ {s} : pc'[t] = pc[t] /\ todo'[t] = todo[t]
  BY StepFrame
<1>2. acked \subseteq acked' /\ refused \subseteq refused' /\ abandoned \subseteq abandoned'
  BY DEF Moves, Step, Cancel, ValidateFails, RejectDuplicate, AcceptNew, PublishSucceeds, PublishQueueFull,
         PublishUnreachable, PublishTimesOut, answers
<1>3. pc[s] = "publish" => e \in acked' \cup refused' \cup abandoned'
  BY DEF Moves, Step, Cancel, ValidateFails, RejectDuplicate, AcceptNew, PublishSucceeds, PublishQueueFull,
         PublishUnreachable, PublishTimesOut
<1>4. ASSUME NEW d \in InFlight PROVE d \in Known'
  <2>1. PICK t \in Slots : pc[t] = "publish" /\ Head(todo[t]) = d /\ d \in Events
    BY <1>4 DEF InFlight
  <2>2. CASE t = s
    BY <1>3, <2>1, <2>2 DEF Known
  <2>3. CASE t # s
    BY <1>1, <2>1, <2>3 DEF Known, InFlight
  <2> QED  BY <2>2, <2>3
<1> QED  BY <1>2, <1>4 DEF Known

LEMMA StepSeen ==
    ASSUME TypeInv, SeenInv, NEW s \in Slots, Moves(s)
    PROVE  SeenInv'
<1> SUFFICES ASSUME hazards' \cap {"crash", "torn", "false_positive"} = {}
             PROVE  /\ \A k \in current' \cup previous' : \E d \in Known' : d.key = k
                    /\ \A a \in asDup' : \E d \in Known' : d.key = a.key
  BY DEF SeenInv
<1> DEFINE e == Head(todo[s])
<1>1. hazards \subseteq hazards' /\ Known \subseteq Known' /\ previous' = previous /\ e \in Events
  BY StepFaults, StepKnown, StepFrame
<1>2. /\ \A k \in current \cup previous : \E d \in Known : d.key = k
      /\ \A a \in asDup : \E d \in Known : d.key = a.key
  BY <1>1 DEF SeenInv
<1> HIDE DEF e
<1>3. CASE RejectDuplicate(s)
  <2>1. ~Fault("false_positive")
    BY DEF Fault
  <2>2. e.key \in current \cup previous /\ current' = current \cup {e.key} /\ asDup' = asDup \cup {e}
    BY <1>3, <2>1 DEF RejectDuplicate, Seen, Insert, e
  <2> QED  BY <1>1, <1>2, <2>2
<1>4. CASE AcceptNew(s)
  <2>1. /\ current' = current \cup {e.key} /\ UNCHANGED <<todo, asDup>>
        /\ pc' = [pc EXCEPT ![s] = "publish"]
    BY <1>4 DEF AcceptNew, Insert, answers, e
  <2>2. pc'[s] = "publish"
    BY <2>1 DEF TypeInv, TypeOK
  <2>3. e \in Known'
    BY <1>1, <2>1, <2>2 DEF Known, InFlight, e
  <2> QED  BY <1>1, <1>2, <2>1, <2>3
<1>5. CASE UNCHANGED <<current, asDup>>
  BY <1>1, <1>2, <1>5
<1>6. \/ RejectDuplicate(s) \/ AcceptNew(s) \/ UNCHANGED <<current, asDup>>
  BY DEF Moves, Step, Cancel, ValidateFails, ValidateFirst, PublishSucceeds, PublishQueueFull,
         PublishUnreachable, PublishTimesOut, dedup, answers
<1> QED  BY <1>3, <1>4, <1>5, <1>6

LEMMA NextSeen == TypeInv /\ SeenInv /\ [Next]_vars => SeenInv'
<1> SUFFICES ASSUME TypeInv, SeenInv, [Next]_vars PROVE SeenInv'
  OBVIOUS
<1>1. ASSUME NEW s \in Slots, Ingest(s) PROVE SeenInv'
  <2>1. /\ UNCHANGED <<current, previous, acked, asDup, refused, abandoned, hazards>> /\ pc[s] = "idle"
        /\ \A t \in Slots \ {s} : pc'[t] = pc[t] /\ todo'[t] = todo[t]
    BY <1>1, SendType DEF answers, dedup
  <2>2. Known \subseteq Known'
    BY <2>1 DEF Known, InFlight
  <2> QED  BY <2>1, <2>2 DEF SeenInv
<1>2. ASSUME NEW s \in Slots, Moves(s) PROVE SeenInv'
  BY <1>2, StepSeen
<1>3. CASE Rotate
  <2>1. /\ UNCHANGED <<todo, pc, acked, asDup, refused, abandoned>> /\ hazards \subseteq hazards'
        /\ previous' = current /\ current' = {}
    BY <1>3 DEF Rotate, Fault, answers
  <2>2. Known' = Known
    BY <2>1 DEF Known, InFlight
  <2> QED  BY <2>1, <2>2 DEF SeenInv
<1>4. CASE Crash \/ CrashInAppend
  BY <1>4, CrashTypes DEF SeenInv
<1>5. CASE Replay \/ UNCHANGED vars
  <2>1. UNCHANGED <<todo, pc, current, previous, acked, asDup, refused, abandoned, hazards>>
    BY <1>5 DEF Replay, ReplaySucceeds, ReplayRefused, ReplayAborted, ReplayEnds, dedup, answers, vars
  <2>2. Known' = Known
    BY <2>1 DEF Known, InFlight
  <2> QED  BY <2>1, <2>2 DEF SeenInv
<1> QED  BY <1>1, <1>2, <1>3, <1>4, <1>5 DEF Next, Moves

\* A request takes a step: what came as far as the producer is in the filters.
LEMMA StepRetry ==
    ASSUME TypeInv, RetryInv, NEW s \in Slots, Moves(s)
    PROVE  RetryInv'
<1> SUFFICES ASSUME Remembering'
             PROVE  /\ "rotate" \notin hazards' => previous' = {}
                    /\ \A t \in Slots : pc'[t] = "publish" =>
                         Head(todo'[t]).key \in current' \cup previous'
                    /\ \A d \in refused' \cup abandoned' : d.key \in current' \cup previous'
  BY DEF RetryInv, Seen
<1> DEFINE e == Head(todo[s])
<1>1. hazards \subseteq hazards' /\ faults <= faults' /\ TypeInv'
  BY StepFaults, StepType
<1>2. Remembering
  <2>1. faults' < 2 => faults < 2
    BY <1>1, PipelineAssumption DEF TypeInv, TypeOK
  <2> QED  BY <1>1, <2>1 DEF Remembering
<1>3. /\ "rotate" \notin hazards => previous = {}
      /\ \A t \in Slots : pc[t] = "publish" => Head(todo[t]).key \in current \cup previous
      /\ \A d \in refused \cup abandoned : d.key \in current \cup previous
  BY <1>2 DEF RetryInv, Seen
<1>4. /\ \A t \in Slots \ {s} : pc'[t] = pc[t] /\ todo'[t] = todo[t]
      /\ AcceptNew(s) => todo' = todo
      /\ ~AcceptNew(s) => pc'[s] # "publish"
      /\ current \subseteq current' /\ previous' = previous
  BY StepFrame
<1>5. AcceptNew(s) => e.key \in current'
  BY DEF AcceptNew, Insert
<1>6. ASSUME NEW t \in Slots, pc'[t] = "publish"
      PROVE  Head(todo'[t]).key \in current' \cup previous'
  <2>1. CASE t = s
    BY <1>4, <1>5, <1>6, <2>1
  <2>2. CASE t # s
    BY <1>3, <1>4, <1>6, <2>2
  <2> QED  BY <2>1, <2>2
<1>7. \A d \in refused' \cup abandoned' : d \in refused \cup abandoned \/ (pc[s] = "publish" /\ d = e)
  BY DEF Moves, Step, Cancel, ValidateFails, RejectDuplicate, AcceptNew, PublishSucceeds, PublishQueueFull,
         PublishUnreachable, PublishTimesOut, Publishing, answers
<1> QED  BY <1>1, <1>3, <1>4, <1>6, <1>7

LEMMA NextRetry == TypeInv /\ RetryInv /\ [Next]_vars => RetryInv'
<1> SUFFICES ASSUME TypeInv, RetryInv, [Next]_vars PROVE RetryInv'
  OBVIOUS
<1>1. ASSUME NEW s \in Slots, Ingest(s) PROVE RetryInv'
  <2>1. /\ UNCHANGED <<current, previous, refused, abandoned, faults, hazards>>
        /\ pc'[s] = "check" /\ \A t \in Slots \ {s} : pc'[t] = pc[t] /\ todo'[t] = todo[t]
    BY <1>1, SendType DEF answers, dedup
  <2>2. \A t \in Slots : pc'[t] = "publish" => pc[t] = "publish" /\ todo'[t] = todo[t]
    BY <2>1
  <2> QED  BY <2>1, <2>2 DEF RetryInv, Remembering, Seen
<1>2. ASSUME NEW s \in Slots, Moves(s) PROVE RetryInv'
  BY <1>2, StepRetry
<1>3. CASE Rotate
  <2> SUFFICES ASSUME Remembering' PROVE RetryInv'
    BY DEF RetryInv
  <2>1. /\ hazards' = hazards \cup {"rotate"} /\ faults' = faults + 1
        /\ previous' = current /\ current' = {}
        /\ UNCHANGED <<todo, pc, refused, abandoned>>
    BY <1>3 DEF Rotate, Fault, startup, answers
  <2>2. faults \in Nat /\ (faults = 0 => hazards = {})
    BY PipelineAssumption DEF TypeInv, TypeOK
  <2>3. faults' < 2
    BY <2>1 DEF Remembering
  <2>4. faults = 0
    BY <2>1, <2>2, <2>3
  <2>5. Remembering /\ previous = {}
    BY <2>2, <2>4 DEF Remembering, RetryInv
  <2>6. current' \cup previous' = current \cup previous
    BY <2>1, <2>5
  <2> QED  BY <2>1, <2>5, <2>6 DEF RetryInv, Seen
<1>4. CASE Crash \/ CrashInAppend
  BY <1>4, CrashTypes DEF RetryInv, Remembering
<1>5. CASE Replay \/ UNCHANGED vars
  <2>1. UNCHANGED <<todo, pc, current, previous, refused, abandoned, faults, hazards>>
    BY <1>5 DEF Replay, ReplaySucceeds, ReplayRefused, ReplayAborted, ReplayEnds, dedup, answers, vars
  <2> QED  BY <2>1 DEF RetryInv, Remembering, Seen
<1> QED  BY <1>1, <1>2, <1>3, <1>4, <1>5 DEF Next, Moves

\* Deduplication, for any events, any number of concurrent requests and any
\* faults: without a restart, a lost answer or a second rotation an event is
\* in Kafka at most once; without a restart or a false positive an event is
\* answered as a duplicate only when one with its key was tried before; and
\* the retry of a refused or abandoned event is one, published or not.
THEOREM DeduplicationExact == Spec => []DeduplicationIsExact
<1>1. Init => OnceInv
  BY DEF Init, OnceInv
<1>2. Init => SeenInv
  BY DEF Init, SeenInv
<1>3. OnceInv => PublishedOnce
  BY DEF OnceInv, Steady, PublishedOnce
<1>4. SeenInv => DuplicateWasSeen
  BY DEF SeenInv, Known, DuplicateWasSeen
<1>5. Init => RetryInv
  BY DEF Init, RetryInv
<1>6. RetryInv => RetriesAreDuplicates
  BY DEF RetryInv, Remembering, RetriesAreDuplicates
<1>7. OnceInv /\ SeenInv /\ RetryInv => DeduplicationIsExact
  BY <1>3, <1>4, <1>6 DEF DeduplicationIsExact
<1> QED  BY <1>1, <1>2, <1>5, <1>7, InitType, NextType, NextOnce, NextSeen, NextRetry, PTL DEF Spec
=============================================================================
