----------------------------- MODULE TSEMProofs -----------------------------
(***************************************************************************)
(* Proofs about the modeling agent of module TSEM, about the file that     *)
(* carries its model from one session to the next (module ModelFile), and  *)
(* about the stream its events come from (TSEMevent) and the object one is *)
(* parsed into (SecurityEvent), as MCEvents composes them, for every set   *)
(* of points, events, descriptions, model lines and aggregates, every      *)
(* length of the stream, and whatever the bounds.                          *)
(***************************************************************************)
EXTENDS MCEvents, FiniteSetTheorems, WellFoundedInduction, SequenceTheorems, TLAPS

USE DEF Takes, have_aggregate

\* The first hit of a point changes nothing of the list but a count
\* (SecurityPoint.increment).
LEMMA CountHitKeepsPoints ==
  ASSUME TypeOK, NEW p \in Points, CountHit(p)
  PROVE  /\ points' \in Seq(SecurityPoints)
         /\ DOMAIN points' = DOMAIN points
         /\ \A i \in DOMAIN points : /\ points'[i].id = points[i].id
                                     /\ points'[i].valid = points[i].valid
<1> DEFINE k == CHOOSE i \in Mapped(p) : \A j \in Mapped(p) : i <= j
<1>1. points' = [points EXCEPT ![k].count = @ + 1]
  BY DEF CountHit
<1> HIDE DEF k
<1>2. points \in Seq(SecurityPoints)
  BY DEF TypeOK
<1>3. CASE k \in DOMAIN points
  <2>1. points[k] \in SecurityPoints
    BY <1>2, <1>3
  <2>2. points'[k] \in SecurityPoints /\ points'[k].id = points[k].id /\ points'[k].valid = points[k].valid
    BY SMTT(30), <1>1, <1>2, <1>3, <2>1 DEF SecurityPoints
  <2> QED
    BY <1>1, <1>2, <1>3, <2>2
<1>4. CASE k \notin DOMAIN points
  <2>1. points \in [1..Len(points) -> SecurityPoints] /\ Len(points) \in Nat
    BY <1>2
  <2>2. points' = [i \in 1..Len(points) |-> points[i]]
    BY <1>1, <1>4, <2>1
  <2> QED
    BY <2>1, <2>2
<1> QED
  BY <1>3, <1>4

\* What appending one point to the list of points does.
LEMMA AppendPoint ==
  ASSUME TypeOK, NEW p \in Points, NEW c \in Nat, NEW v \in BOOLEAN,
         points' = Append(points, [id |-> p, count |-> c, valid |-> v])
  PROVE  /\ points' \in Seq(SecurityPoints)
         /\ DOMAIN points = 1..Len(points)
         /\ DOMAIN points' = 1..(Len(points) + 1)
         /\ Len(points) \in Nat
         /\ \A i \in DOMAIN points : points'[i] = points[i]
         /\ points'[Len(points) + 1] = [id |-> p, count |-> c, valid |-> v]
BY DEF TypeOK, SecurityPoints

\* Both extensions of the measurement are sequences of extensions.
LEMMA ExtendType ==
  ASSUME TypeOK, NEW chain \in Seq(Extensions),
         NEW u \in Points \cup Aggregates \cup {DefaultAggregate}
  PROVE  Extend(chain, u) \in Seq(Extensions)
BY DEF TypeOK, Extend, Extensions

LEMMA AggregatedType ==
  ASSUME TypeOK PROVE AggregatedMeasurement \in Seq(Extensions)
BY ExtendType DEF AggregatedMeasurement, TypeOK

LEMMA EvaluateType ==
  ASSUME NEW ev \in Events
  PROVE  Evaluate(ev) \in Points /\ LogEntry(ev) \in LogEntries /\ ev.pid \in Pids
BY EventsAssumption DEF Evaluate, LogEntry, LogEntries, EventRecords

\* A line that carries what its command can carry.
Typed(entry) == entry.cmd \in Commands /\ entry.arg \in Arguments(entry.cmd)

LEMMA EntriesTyped == \A entry \in Entries : Typed(entry)
BY EntriesAssumption DEF Typed

LEMMA EntryType ==
  ASSUME NEW entry, Typed(entry), entry.arg # Malformed
  PROVE  /\ entry.cmd = "base" => entry.arg \in Bases
         /\ entry.cmd = "aggregate" => entry.arg \in Aggregates
         /\ entry.cmd = "state" => entry.arg \in Points
         /\ entry.cmd = "pseudonym" => entry.arg \in Pseudonyms
BY DEF Typed, Arguments

LEMMA AdoptType ==
  ASSUME TypeOK, NEW a \in Aggregates, AdoptAggregate(a)
  PROVE  aggregate' \in Seq(Extensions) /\ measurement' \in Seq(Extensions)
<1>1. <<>> \in Seq(Extensions)
  OBVIOUS
<1>2. Extend(<<>>, a) \in Seq(Extensions)
  BY <1>1, ExtendType
<1> QED
  BY <1>2 DEF AdoptAggregate, TypeOK

-----------------------------------------------------------------------------

\* So does every line of a model file.
LEMMA LoadType ==
  ASSUME TypeOK, NEW entry, Typed(entry), Load(entry)
  PROVE  TypeOK'
<1>1. CASE LoadComment(entry) \/ LoadKey(entry) \/ LoadSeal(entry)
           \/ LoadSignature(entry) \/ LoadEnd(entry)
  BY <1>1 DEF LoadComment, LoadKey, LoadSeal, LoadSignature, LoadEnd, TypeOK, eventVars
<1>2. CASE LoadBase(entry) \/ LoadPseudonym(entry)
  BY <1>2, EntryType DEF LoadBase, LoadPseudonym, TypeOK, eventVars
<1>3. CASE LoadAggregate(entry)
  BY <1>3, EntryType, AdoptType DEF LoadAggregate, TypeOK, eventVars
<1>4. CASE LoadState(entry)
  <2>1. entry.arg \in Points
    BY <1>4, EntryType DEF LoadState
  <2>2. points' \in Seq(SecurityPoints)
    BY <1>4, <2>1, AppendPoint, CountHitKeepsPoints DEF LoadState
  <2>3. measurement' \in Seq(Extensions)
    BY <1>4, <2>1, ExtendType DEF LoadState, TypeOK
  <2> QED
    BY <1>4, <2>2, <2>3 DEF LoadState, TypeOK, eventVars
<1>5. CASE LoadFails(entry)
  <2>1. measurement' \in Seq(Extensions)
    BY <1>5, EntryType, ExtendType DEF LoadFails, TypeOK
  <2> QED
    BY <1>5, <2>1 DEF LoadFails, TypeOK, eventVars
<1> QED
  BY <1>1, <1>2, <1>3, <1>4, <1>5 DEF Load

\* Every call keeps the object in its types.
LEMMA TypeStep == TypeOK /\ [Next]_vars => TypeOK'
<1> SUFFICES ASSUME TypeOK, [Next]_vars PROVE TypeOK'
  OBVIOUS
<1>1. ASSUME NEW ev \in Events, UpdateMapped(ev) PROVE TypeOK'
  <2> DEFINE p == Evaluate(ev)
  <2>1. p \in Points /\ ev.pid \in Pids
    BY EvaluateType
  <2>2. points' \in Seq(SecurityPoints)
    BY <1>1, <2>1, CountHitKeepsPoints DEF UpdateMapped
  <2>3. aggregate' \in Seq(Extensions) /\ measurement' \in Seq(Extensions)
    BY <1>1, AggregatedType DEF UpdateMapped, UseDefaultAggregate, TypeOK
  <2>4. verdict' \in Verdicts
    BY <1>1, <2>1 DEF UpdateMapped, Disciplined, Verdicts, TypeOK
  <2> QED
    BY <1>1, <2>1, <2>2, <2>3, <2>4 DEF UpdateMapped, TypeOK
<1>2. ASSUME NEW ev \in Events, UpdateNew(ev) PROVE TypeOK'
  <2> DEFINE p == Evaluate(ev)
  <2>1. p \in Points /\ LogEntry(ev) \in LogEntries /\ ev.pid \in Pids
    BY EvaluateType
  <2>2. points' \in Seq(SecurityPoints)
    BY <1>2, <2>1, AppendPoint DEF UpdateNew, AddPoint, TypeOK
  <2>3. aggregate' \in Seq(Extensions) /\ measurement' \in Seq(Extensions)
    BY <1>2, <2>1, AggregatedType, ExtendType DEF UpdateNew, UseDefaultAggregate, TypeOK
  <2>4. verdict' \in Verdicts
    BY <1>2, <2>1 DEF UpdateNew, Verdicts, TypeOK
  <2>5. forensics' \in Seq(LogEntries) /\ trajectory' \in Seq(LogEntries)
    BY <1>2, <2>1 DEF UpdateNew, LogEvent, TypeOK
  <2> QED
    BY <1>2, <2>1, <2>2, <2>3, <2>4, <2>5 DEF UpdateNew, TypeOK
<1>3. ASSUME NEW ev \in Events, UpdateFails(ev) PROVE TypeOK'
  <2> DEFINE p == Evaluate(ev)
  <2>1. p \in Points /\ ev.pid \in Pids
    BY EvaluateType
  <2>2. points' \in Seq(SecurityPoints)
    <3>1. CASE AddPoint(p)
      BY <3>1, <2>1, AppendPoint DEF AddPoint, TypeOK
    <3>2. CASE UNCHANGED points
      BY <3>2 DEF TypeOK
    <3> QED
      BY <1>3, <3>1, <3>2 DEF UpdateFails
  <2>3. aggregate' \in Seq(Extensions) /\ measurement' \in Seq(Extensions)
    BY <1>3, <2>1, AggregatedType, ExtendType DEF UpdateFails, UseDefaultAggregate, TypeOK
  <2>4. discipline_pid' \in Pids \cup {NoPid}
    BY <1>3, <2>1 DEF UpdateFails, TypeOK
  <2> QED
    BY <1>3, <2>2, <2>3, <2>4 DEF UpdateFails, TypeOK
<1>4. ASSUME NEW a \in Aggregates, SetAggregate(a) PROVE TypeOK'
  BY <1>4, AdoptType DEF SetAggregate, TypeOK, eventVars
<1>5. CASE SetAggregateFails \/ add_TSEM_event \/ disable_logging \/ Seal
  <2>1. CASE add_TSEM_event
    BY <2>1 DEF add_TSEM_event, TypeOK
  <2>2. CASE SetAggregateFails \/ disable_logging \/ Seal
    BY <2>2 DEF SetAggregateFails, disable_logging, Seal, TypeOK, eventVars
  <2> QED
    BY <1>5, <2>1, <2>2
<1>6. ASSUME NEW entry \in Entries, Load(entry) PROVE TypeOK'
  BY <1>6, EntriesTyped, LoadType
<1>7. CASE UNCHANGED vars
  BY <1>7 DEF vars, TypeOK
<1> QED
  BY <1>1, <1>2, <1>3, <1>4, <1>5, <1>6, <1>7 DEF Next, Update

\* It begins in them.
LEMMA TypeInit == Init => TypeOK
<1>1. <<>> \in Seq(Extensions) /\ <<>> \in Seq(SecurityPoints) /\ <<>> \in Seq(LogEntries)
  OBVIOUS
<1>2. ASSUME Init
      PROVE  /\ poisoned \in BOOLEAN /\ loading \in BOOLEAN
             /\ sealed \in BOOLEAN /\ logging \in BOOLEAN
  BY <1>2 DEF Init
<1>3. ASSUME Init
      PROVE  /\ base \in Bases /\ TE_events \in Nat /\ pseudonyms \subseteq Pseudonyms
             /\ discipline_pid \in Pids \cup {NoPid} /\ verdict \in Verdicts \cup {NoVerdict}
             /\ key \in {"none", "encoded", "decoded"}
  BY <1>3, ValuesAssumption DEF Init
<1> QED
  BY <1>1, <1>2, <1>3 DEF Init, TypeOK

\* The object never leaves its types, whatever it is called with.
THEOREM TypeCorrect == Spec => []TypeOK
BY TypeInit, TypeStep, PTL DEF Spec

-----------------------------------------------------------------------------
(* What a call does to the list of points.                                 *)

\* The list holds the same points, with the same validity.
SamePoints == /\ DOMAIN points' = DOMAIN points
              /\ \A i \in DOMAIN points : /\ points'[i].id = points[i].id
                                          /\ points'[i].valid = points[i].valid

\* The list gains p, which it did not hold; p is invalid if the model is sealed.
Gains(p) == /\ Mapped(p) = {}
            /\ \E c \in Nat :
                 points' = Append(points, [id |-> p, count |-> c, valid |-> ~sealed])

LEMMA UnchangedIsSame ==
  ASSUME UNCHANGED points PROVE SamePoints
BY DEF SamePoints

LEMMA MappedPoints ==
  ASSUME TypeOK, NEW ev \in Events, UpdateMapped(ev)
  PROVE  SamePoints
BY EvaluateType, CountHitKeepsPoints DEF UpdateMapped, SamePoints

LEMMA NewPoints ==
  ASSUME TypeOK, NEW ev \in Events, UpdateNew(ev)
  PROVE  Gains(Evaluate(ev))
BY EvaluateType DEF UpdateNew, AddPoint, Gains

LEMMA FailedPoints ==
  ASSUME TypeOK, NEW ev \in Events, UpdateFails(ev)
  PROVE  UNCHANGED points \/ (~poisoned /\ Gains(Evaluate(ev)))
BY EvaluateType DEF UpdateFails, AddPoint, Gains, Updatable

LEMMA LoadedPoints ==
  ASSUME TypeOK, NEW entry, Typed(entry), Load(entry)
  PROVE  \/ SamePoints
         \/ ~poisoned /\ ~sealed /\ \E p \in Points : Gains(p)
<1>1. CASE LoadState(entry)
  <2>1. entry.arg \in Points
    BY <1>1, EntryType DEF LoadState
  <2>2. CASE Mapped(entry.arg) # {}
    BY <1>1, <2>1, <2>2, CountHitKeepsPoints DEF LoadState, SamePoints
  <2>3. CASE Mapped(entry.arg) = {}
    <3>1. points' = Append(points, [id |-> entry.arg, count |-> 0, valid |-> ~sealed])
          /\ ~poisoned /\ ~sealed
      BY <1>1, <2>3 DEF LoadState
    <3> QED
      BY <2>1, <2>3, <3>1 DEF Gains
  <2> QED
    BY <2>2, <2>3
<1>2. CASE ~LoadState(entry)
  BY <1>2, UnchangedIsSame
     DEF Load, LoadComment, LoadKey, LoadBase, LoadAggregate, LoadPseudonym,
         LoadSeal, LoadSignature, LoadEnd, LoadFails
<1> QED
  BY <1>1, <1>2

LEMMA OtherPoints ==
  ASSUME \/ \E a \in Aggregates : SetAggregate(a)
         \/ SetAggregateFails \/ add_TSEM_event \/ disable_logging \/ Seal
         \/ UNCHANGED vars
  PROVE  UNCHANGED points
BY DEF SetAggregate, SetAggregateFails, add_TSEM_event, disable_logging, Seal, vars

LEMMA PointsStep ==
  ASSUME TypeOK, [Next]_vars
  PROVE  SamePoints \/ \E p \in Points : Gains(p)
BY MappedPoints, NewPoints, FailedPoints, LoadedPoints, OtherPoints, UnchangedIsSame,
   EvaluateType, EntriesTyped DEF Next, Update

\* A list that gains a point is the list it was, with the point at its end.
LEMMA GainedPoint ==
  ASSUME TypeOK, NEW p \in Points, Gains(p)
  PROVE  /\ points' \in Seq(SecurityPoints)
         /\ Len(points) \in Nat
         /\ DOMAIN points = 1..Len(points)
         /\ DOMAIN points' = 1..(Len(points) + 1)
         /\ \A i \in DOMAIN points : points'[i] = points[i]
         /\ points'[Len(points) + 1].id = p
         /\ points'[Len(points) + 1].valid = ~sealed
<1>1. PICK c \in Nat :
        points' = Append(points, [id |-> p, count |-> c, valid |-> ~sealed])
  BY DEF Gains
<1> DEFINE v == ~sealed
<1>2. v \in BOOLEAN /\ points' = Append(points, [id |-> p, count |-> c, valid |-> v])
  BY <1>1 DEF TypeOK
<1> HIDE DEF v
<1>3. /\ points' \in Seq(SecurityPoints)
      /\ Len(points) \in Nat
      /\ DOMAIN points = 1..Len(points)
      /\ DOMAIN points' = 1..(Len(points) + 1)
      /\ \A i \in DOMAIN points : points'[i] = points[i]
      /\ points'[Len(points) + 1].id = p
      /\ points'[Len(points) + 1].valid = v
  BY <1>2, AppendPoint
<1> QED
  BY <1>3 DEF v

\* A point that the list gains is another one.
LEMMA DistinctPoints ==
  ASSUME TypeOK, PointsDistinct, SamePoints \/ \E p \in Points : Gains(p)
  PROVE  PointsDistinct'
<1>1. CASE SamePoints
  BY <1>1 DEF SamePoints, PointsDistinct
<1>2. ASSUME NEW p \in Points, Gains(p) PROVE PointsDistinct'
  <2>1. \A i \in DOMAIN points : points[i].id # p
    BY <1>2 DEF Gains, Mapped
  <2> QED
    BY <1>2, <2>1, GainedPoint DEF PointsDistinct
<1> QED
  BY <1>1, <1>2

\* The list of points is a set for ever.
LEMMA DistinctStep == TypeOK /\ PointsDistinct /\ [Next]_vars => PointsDistinct'
BY PointsStep, DistinctPoints

\* No sequence of calls registers a security point twice, so the list of
\* points of the model file and of the events is a set (_is_mapped).
THEOREM NoDuplicatePoint == Spec => []PointsDistinct
<1>1. Init => PointsDistinct
  BY DEF Init, PointsDistinct
<1>2. Spec => []TypeOK
  BY TypeCorrect
<1> QED
  BY <1>1, <1>2, DistinctStep, PTL DEF Spec

-----------------------------------------------------------------------------
(* The measurement.                                                        *)

LEMMA PrefixOfAppend ==
  ASSUME NEW S, NEW s \in Seq(S), NEW e \in S
  PROVE  /\ IsPrefix(s, s)
         /\ IsPrefix(s, Append(s, e))
         /\ \A f \in S : IsPrefix(s, Append(Append(s, e), f))
<1>1. SubSeq(s, 1, Len(s)) = s
  OBVIOUS
<1>2. SubSeq(Append(s, e), 1, Len(s)) = s /\ Len(Append(s, e)) = Len(s) + 1
  OBVIOUS
<1>3. ASSUME NEW f \in S
      PROVE  /\ SubSeq(Append(Append(s, e), f), 1, Len(s)) = s
             /\ Len(Append(Append(s, e), f)) = Len(s) + 2
  OBVIOUS
<1> QED
  BY <1>1, <1>2, <1>3 DEF IsPrefix

\* What a call may do to the measurement.
MeasurementStep ==
  \/ IsPrefix(measurement, measurement')
  \/ /\ ~sealed
     /\ aggregate' # aggregate
     /\ measurement' = aggregate'

LEMMA PrefixStep == TypeOK /\ [Next]_vars => MeasurementStep
<1> SUFFICES ASSUME TypeOK, [Next]_vars PROVE MeasurementStep
  OBVIOUS
<1> DEFINE default == [base |-> base, value |-> DefaultAggregate]
<1>1. measurement \in Seq(Extensions) /\ default \in Extensions
  BY DEF TypeOK, Extensions
<1>2. \A p \in Points : [base |-> base, value |-> p] \in Extensions
  BY DEF TypeOK, Extensions
<1>3. IsPrefix(measurement, measurement) /\ IsPrefix(measurement, AggregatedMeasurement)
  BY <1>1, PrefixOfAppend DEF AggregatedMeasurement, Extend
<1>4. ASSUME NEW p \in Points
      PROVE  IsPrefix(measurement, Extend(measurement, p))
             /\ IsPrefix(measurement, Extend(AggregatedMeasurement, p))
  BY <1>1, <1>2, <1>4, PrefixOfAppend DEF AggregatedMeasurement, Extend
<1>5. ASSUME NEW ev \in Events, Update(ev) PROVE MeasurementStep
  <2>1. \/ measurement' = AggregatedMeasurement
        \/ measurement' = Extend(AggregatedMeasurement, Evaluate(ev))
        \/ UNCHANGED measurement
    BY <1>5 DEF Update, UpdateMapped, UpdateNew, UpdateFails
  <2> QED
    BY <2>1, <1>3, <1>4, EvaluateType DEF MeasurementStep
<1>6. ASSUME NEW a \in Aggregates, AdoptAggregate(a) PROVE MeasurementStep
  BY <1>6, <1>3 DEF AdoptAggregate, MeasurementStep
<1>7. ASSUME NEW entry \in Entries, Load(entry) PROVE MeasurementStep
  <2>1. CASE LoadAggregate(entry)
    BY <2>1, <1>6, EntriesTyped, EntryType DEF LoadAggregate
  <2>2. CASE LoadState(entry) \/ LoadFails(entry)
    <3>1. \/ UNCHANGED measurement
          \/ entry.arg \in Points /\ measurement' = Extend(measurement, entry.arg)
      BY <2>2, EntriesTyped, EntryType DEF LoadState, LoadFails
    <3> QED
      BY <3>1, <1>3, <1>4 DEF MeasurementStep
  <2>3. CASE \/ LoadComment(entry) \/ LoadKey(entry) \/ LoadBase(entry)
             \/ LoadPseudonym(entry) \/ LoadSeal(entry) \/ LoadSignature(entry)
             \/ LoadEnd(entry)
    BY <2>3, <1>3 DEF LoadComment, LoadKey, LoadBase, LoadPseudonym, LoadSeal,
                      LoadSignature, LoadEnd, MeasurementStep
  <2> QED
    BY <1>7, <2>1, <2>2, <2>3 DEF Load
<1>8. CASE SetAggregateFails \/ add_TSEM_event \/ disable_logging \/ Seal \/ UNCHANGED vars
  BY <1>8, <1>3 DEF SetAggregateFails, add_TSEM_event, disable_logging, Seal, vars,
                    MeasurementStep
<1> QED
  BY <1>5, <1>6, <1>7, <1>8 DEF Next, SetAggregate

\* A measurement is only ever extended: what entered it is lost only when an
\* unsealed model is given another aggregate (set_aggregate).
THEOREM MeasurementOnlyExtended == Spec => MeasurementAppendOnly
<1>1. TypeOK /\ [Next]_vars => [MeasurementStep]_vars
  BY PrefixStep
<1>2. Spec => []TypeOK
  BY TypeCorrect
<1> QED
  BY <1>1, <1>2, PTL DEF Spec, MeasurementAppendOnly, MeasurementStep

-----------------------------------------------------------------------------
(* The object keeps the promises of a trusted modeling agent.              *)

Status == [p \in Points |-> StatusOf(p)]

LEMMA SameStatus ==
  ASSUME TypeOK, SamePoints
  PROVE  Status' = Status
<1>1. \A p \in Points : Mapped(p)' = Mapped(p)
  BY DEF Mapped, SamePoints
<1>2. \A p \in Points : StatusOf(p)' = StatusOf(p)
  BY <1>1 DEF StatusOf, SamePoints, Mapped
<1> QED
  BY <1>2 DEF Status

LEMMA GainedStatus ==
  ASSUME TypeOK, NEW p \in Points, Gains(p)
  PROVE  /\ StatusOf(p) = "unknown"
         /\ Status' = [Status EXCEPT ![p] = IF sealed THEN "invalid" ELSE "valid"]
<1> DEFINE n == Len(points) + 1
<1>1. Mapped(p) = {} /\ StatusOf(p) = "unknown"
  BY DEF Gains, StatusOf
<1>2. Mapped(p)' = {n}
  BY <1>1, GainedPoint DEF Mapped
<1>3. StatusOf(p)' = IF sealed THEN "invalid" ELSE "valid"
  BY <1>2, GainedPoint DEF StatusOf, TypeOK
<1>4. ASSUME NEW q \in Points, q # p PROVE StatusOf(q)' = StatusOf(q)
  <2>1. Mapped(q)' = Mapped(q)
    BY <1>4, GainedPoint DEF Mapped
  <2>2. \A i \in Mapped(q) : points'[i] = points[i]
    BY GainedPoint DEF Mapped
  <2> QED
    BY <2>1, <2>2 DEF StatusOf
<1> QED
  BY <1>1, <1>3, <1>4 DEF Status

\* A step of the object is a step of the agent or leaves the agent alone.
LEMMA AgentStep == TypeOK /\ [Next]_vars => [Agent!Next]_(Agent!vars)
<1> SUFFICES ASSUME TypeOK, [Next]_vars PROVE [Agent!Next]_(Agent!vars)
  OBVIOUS
<1>1. ASSUME NEW ev \in Events, UpdateMapped(ev)
      PROVE  Agent!Judge(Evaluate(ev))
  <2> DEFINE p == Evaluate(ev)
  <2>1. p \in Points /\ Mapped(p) # {} /\ ~poisoned
    BY <1>1, EvaluateType DEF UpdateMapped, Updatable
  <2>2. Status' = Status
    BY <1>1, MappedPoints, SameStatus
  <2>3. StatusOf(p) # "unknown" /\ (StatusOf(p) = "invalid" <=> \E i \in Mapped(p) : ~points[i].valid)
    BY <2>1 DEF StatusOf
  <2>4. Agent!Class(p) = StatusOf(p)
    BY <2>1, <2>3 DEF Agent!Class
  <2>5. Status' = [Status EXCEPT ![p] = Agent!Class(p)]
    BY <2>1, <2>2, <2>4 DEF Status
  <2>6. verdict' = [point |-> p, discipline |-> Agent!Class(p) = "invalid", sealed |-> sealed]
    BY <1>1, <2>3, <2>4 DEF UpdateMapped, Disciplined
  <2> QED
    BY <1>1, <2>1, <2>5, <2>6 DEF Agent!Judge, UpdateMapped, Status
<1>2. ASSUME NEW p \in Points, Gains(p)
      PROVE  /\ Agent!Class(p) = (IF sealed THEN "invalid" ELSE "valid")
             /\ Status' = [Status EXCEPT ![p] = Agent!Class(p)]
  BY <1>2, GainedStatus DEF Agent!Class, Status
<1>3. ASSUME NEW ev \in Events, UpdateNew(ev)
      PROVE  Agent!Judge(Evaluate(ev))
  <2> DEFINE p == Evaluate(ev)
  <2>1. p \in Points /\ Gains(p) /\ ~poisoned
    BY <1>3, EvaluateType, NewPoints DEF UpdateNew, Updatable
  <2>2. sealed <=> Agent!Class(p) = "invalid"
    BY <1>2, <2>1 DEF TypeOK
  <2>3. verdict' = [point |-> p, discipline |-> Agent!Class(p) = "invalid", sealed |-> sealed]
    BY <1>3, <2>2 DEF UpdateNew, TypeOK
  <2> QED
    BY <1>2, <1>3, <2>1, <2>3 DEF Agent!Judge, UpdateNew, Status
<1>4. ASSUME NEW ev \in Events, UpdateFails(ev)
      PROVE  Agent!Fail(Evaluate(ev))
  <2> DEFINE p == Evaluate(ev)
  <2>1. p \in Points
    BY EvaluateType
  <2>2. UNCHANGED Status \/ (~poisoned /\ Status' = [Status EXCEPT ![p] = Agent!Class(p)])
    BY <1>2, <1>4, <2>1, FailedPoints, UnchangedIsSame, SameStatus
  <2> QED
    BY <1>4, <2>2 DEF Agent!Fail, UpdateFails, Status
<1>5. ASSUME NEW entry \in Entries, Load(entry)
      PROVE  \/ \E p \in Points : Agent!Admit(p)
             \/ Agent!Seal \/ UNCHANGED Agent!vars
  <2>1. UNCHANGED <<poisoned, verdict>> /\ (sealed' = sealed \/ sealed' = TRUE)
    BY <1>5 DEF Load, LoadComment, LoadKey, LoadBase, LoadAggregate, LoadState,
                LoadPseudonym, LoadSeal, LoadSignature, LoadEnd, LoadFails, eventVars
  <2>2. CASE LoadSeal(entry)
    <3>1. UNCHANGED Status
      BY <2>2, UnchangedIsSame, SameStatus DEF LoadSeal
    <3> QED
      BY <2>1, <2>2, <3>1 DEF Agent!Seal, LoadSeal, Status
  <2>3. CASE ~LoadSeal(entry)
    <3>1. sealed' = sealed
      BY <1>5, <2>3
         DEF Load, LoadComment, LoadKey, LoadBase, LoadAggregate, LoadState,
             LoadPseudonym, LoadSignature, LoadEnd, LoadFails
    <3>2. CASE SamePoints
      BY <2>1, <3>1, <3>2, SameStatus DEF Agent!vars, Status
    <3>3. ASSUME ~poisoned, ~sealed, NEW p \in Points, Gains(p)
          PROVE  Agent!Admit(p)
      BY <1>2, <2>1, <3>1, <3>3 DEF Agent!Admit, Status
    <3> QED
      BY <1>5, <3>2, <3>3, EntriesTyped, LoadedPoints
  <2> QED
    BY <2>2, <2>3
<1>6. ASSUME \/ \E a \in Aggregates : SetAggregate(a)
             \/ SetAggregateFails \/ add_TSEM_event \/ disable_logging \/ Seal
             \/ UNCHANGED vars
      PROVE  Agent!Seal \/ Agent!Collapse \/ UNCHANGED Agent!vars
  <2>1. UNCHANGED Status
    BY <1>6, OtherPoints, UnchangedIsSame, SameStatus
  <2> QED
    BY <1>6, <2>1
       DEF SetAggregate, SetAggregateFails, add_TSEM_event, disable_logging, Seal,
           vars, eventVars, Agent!Seal, Agent!Collapse, Agent!vars, Status
<1> QED
  BY <1>1, <1>3, <1>4, <1>5, <1>6, EvaluateType DEF Next, Update, Agent!Next

\* The object of TSEM.c implements the trusted modeling agent: its verdict on
\* an event is the class of the event's point, classes are final, and a
\* sealed model gains no valid point.
THEOREM TSEMImplementsTMA == Spec => RefinesTMA
<1>1. Init => Agent!Init
  BY DEF Init, Agent!Init, StatusOf, Mapped
<1>2. Spec => []TypeOK
  BY TypeCorrect
<1> QED
  BY <1>1, <1>2, AgentStep, PTL DEF Spec, RefinesTMA, Agent!Spec

-----------------------------------------------------------------------------
(* What the agent promises holds of the object.                            *)

\* No class is ever changed: a violation is not forgiven because it is
\* repeated, and what was accepted is not disciplined later.
THEOREM NoClassChanges == Spec => ClassesAreFinal
<1> DEFINE Kept == \A p \in Points : Status[p] # "unknown" => Status'[p] = Status[p]
<1>1. ASSUME [Agent!Next]_(Agent!vars) PROVE [Kept]_(Agent!vars)
  <2>1. ASSUME NEW p \in Points, Status' = [Status EXCEPT ![p] = Agent!Class(p)]
        PROVE  Kept
    BY <2>1 DEF Status, Agent!Class
  <2>2. ASSUME UNCHANGED Status PROVE Kept
    BY <2>2
  <2> QED
    BY <1>1, <2>1, <2>2
       DEF Agent!Next, Agent!Judge, Agent!Admit, Agent!Fail, Agent!Seal, Agent!Collapse, Status
<1>2. TypeOK /\ [Next]_vars => [Kept]_(Agent!vars)
  BY <1>1, AgentStep
<1>3. Spec => []TypeOK
  BY TypeCorrect
<1> QED
  BY <1>2, <1>3, PTL DEF Spec, ClassesAreFinal, Agent!ClassesAreFinal, Status

\* Once sealed a model stays sealed, and no event, line of a model file or
\* failure makes another point valid.
THEOREM SealedGainsNoValidPoint == Spec => SealedIsFrozen
<1> DEFINE Frozen == sealed => /\ sealed'
                               /\ \A p \in Points : Status'[p] = "valid" => Status[p] = "valid"
<1>1. ASSUME [Agent!Next]_(Agent!vars), TypeOK PROVE [Frozen]_(Agent!vars)
  <2>1. ASSUME NEW p \in Points, Status' = [Status EXCEPT ![p] = Agent!Class(p)], sealed' = sealed
        PROVE  Frozen
    BY <2>1 DEF Status, Agent!Class
  <2>2. ASSUME UNCHANGED Status, sealed => sealed' PROVE Frozen
    BY <2>2
  <2> QED
    BY <1>1, <2>1, <2>2
       DEF Agent!Next, Agent!Judge, Agent!Admit, Agent!Fail, Agent!Seal, Agent!Collapse, Status
<1>2. TypeOK /\ [Next]_vars => [Frozen]_(Agent!vars)
  BY <1>1, AgentStep
<1>3. Spec => []TypeOK
  BY TypeCorrect
<1> QED
  BY <1>2, <1>3, PTL DEF Spec, SealedIsFrozen, Agent!SealedIsFrozen, Status

-----------------------------------------------------------------------------
(* The listings of the points.  What the loop of a listing has sent after  *)
(* n turns is a recursive function; what is said of it is proved by        *)
(* induction over the set of the n of which it is true.                    *)

\* Induction over the naturals, for a set of them: a set that lacks a number has
\* an initial segment of the naturals that is minimal among those it lacks.
LEMMA InductionOverNat ==
  ASSUME NEW S, S \subseteq Nat, 0 \in S, \A n \in S : n + 1 \in S
  PROVE  S = Nat
<1> DEFINE F == {0..n : n \in Nat \ S}
<1>1. ASSUME F # {} PROVE FALSE
  <2>1. F \subseteq FiniteSubsetsOf(Nat)
    <3>1. ASSUME NEW n \in Nat PROVE 0..n \in FiniteSubsetsOf(Nat)
      BY FS_Interval DEF FiniteSubsetsOf
    <3>2. QED
      BY <3>1
  <2>2. PICK x \in F : \A y \in F : <<y, x>> \notin StrictSubsetOrdering(Nat)
    BY <1>1, <2>1, FS_StrictSubsetOrderingWellFounded, WFMin
  <2>3. PICK n \in Nat \ S : x = 0..n
    OBVIOUS
  <2>4. n # 0 /\ n - 1 \in Nat /\ n - 1 + 1 = n
    BY <2>3
  <2>5. n - 1 \notin S
    BY <2>4
  <2>6. 0..(n - 1) \in F
    BY <2>4, <2>5
  <2>7. <<0..(n - 1), 0..n>> \in StrictSubsetOrdering(Nat)
    BY <2>4 DEF StrictSubsetOrdering
  <2>8. QED
    BY <2>2, <2>3, <2>6, <2>7
<1>2. QED
  BY <1>1

\* The loop of a listing over the first n points of a list.
Sent(f, s, kind, n) ==
  f = [i \in 0..n |-> IF i = 0 THEN <<>>
                      ELSE IF s[i].valid = kind THEN Append(f[i - 1], s[i]) ELSE f[i - 1]]

\* The same, of the points' names.
Named(g, s, kind, n) ==
  g = [i \in 0..n |-> IF i = 0 THEN <<>>
                      ELSE IF s[i].valid = kind THEN Append(g[i - 1], s[i].id) ELSE g[i - 1]]

\* The loop is a function of the list, however long that is.
LEMMA SentExists ==
  ASSUME NEW s, NEW kind
  PROVE  \A n \in Nat : \E f : Sent(f, s, kind, n)
<1> DEFINE S == {n \in Nat : \E f : Sent(f, s, kind, n)}
<1>1. 0 \in S
  <2> DEFINE f == [i \in 0..0 |-> <<>>]
  <2>1. Sent(f, s, kind, 0)
    BY DEF Sent
  <2>2. QED
    BY <2>1
<1>2. ASSUME NEW n \in S PROVE n + 1 \in S
  <2>1. PICK f : Sent(f, s, kind, n)
    BY <1>2
  <2> DEFINE next == IF s[n + 1].valid = kind THEN Append(f[n], s[n + 1]) ELSE f[n]
             g == [i \in 0..(n + 1) |-> IF i = n + 1 THEN next ELSE f[i]]
  <2>2. n \in Nat
    OBVIOUS
  <2>3. ASSUME NEW i \in 0..(n + 1)
        PROVE  g[i] = IF i = 0 THEN <<>>
                      ELSE IF s[i].valid = kind THEN Append(g[i - 1], s[i]) ELSE g[i - 1]
    <3>1. CASE i = n + 1
      <4>1. g[i] = next /\ g[i - 1] = f[n] /\ i # 0
        BY <2>2, <3>1
      <4>2. QED
        BY <3>1, <4>1
    <3>2. CASE i # n + 1
      <4>1. i \in 0..n
        BY <2>2, <3>2
      <4>2. g[i] = f[i] /\ (i # 0 => g[i - 1] = f[i - 1])
        BY <2>2, <4>1
      <4>3. f[i] = IF i = 0 THEN <<>>
                   ELSE IF s[i].valid = kind THEN Append(f[i - 1], s[i]) ELSE f[i - 1]
        BY <2>1, <4>1 DEF Sent
      <4>4. QED
        BY <4>2, <4>3
    <3>3. QED
      BY <3>1, <3>2
  <2>4. Sent(g, s, kind, n + 1)
    <3>1. g = [i \in 0..(n + 1) |-> g[i]]
      OBVIOUS
    <3> HIDE DEF g
    <3>2. QED
      BY <2>3, <3>1 DEF Sent
  <2>5. QED
    BY <2>2, <2>4
<1>3. S = Nat
  <2> HIDE DEF S
  <2>1. S \subseteq Nat
    BY DEF S
  <2>2. QED
    BY <1>1, <1>2, <2>1, InductionOverNat
<1>4. QED
  BY <1>3

\* What the loop has sent at the end of a list.
SentFrom(s, kind) ==
  LET sent[n \in 0..Len(s)] ==
        IF n = 0 THEN <<>>
        ELSE IF s[n].valid = kind THEN Append(sent[n - 1], s[n]) ELSE sent[n - 1]
  IN  sent[Len(s)]

\* What is sent is what the loop has when it ends.
LEMMA SentFromIs ==
  ASSUME NEW s \in Seq(SecurityPoints), NEW kind
  PROVE  \E f : Sent(f, s, kind, Len(s)) /\ SentFrom(s, kind) = f[Len(s)]
<1>1. Len(s) \in Nat
  BY LenProperties
<1>2. \E f : Sent(f, s, kind, Len(s))
  BY <1>1, SentExists
<1>3. QED
  BY <1>2 DEF SentFrom, Sent

\* The names of a list that grows.
LEMMA NamesOfAppend ==
  ASSUME NEW x \in Seq(SecurityPoints), NEW e \in SecurityPoints
  PROVE  PointIds(x) \in Seq(Points) /\ PointIds(Append(x, e)) = Append(PointIds(x), e.id)
<1>1. /\ Len(x) \in Nat /\ DOMAIN x = 1..Len(x) /\ e.id \in Points
      /\ \A i \in 1..Len(x) : x[i].id \in Points
  <2>1. \A i \in 1..Len(x) : x[i] \in SecurityPoints
    BY LenProperties
  <2>2. \A q \in SecurityPoints : q.id \in Points
    BY DEF SecurityPoints
  <2>3. QED
    BY <2>1, <2>2, LenProperties
<1>2. PointIds(x) = [i \in 1..Len(x) |-> x[i].id]
  BY <1>1 DEF PointIds
<1>3. PointIds(x) \in Seq(Points) /\ Len(PointIds(x)) = Len(x)
  BY <1>1, <1>2, IsASeq, LenProperties
<1> DEFINE y == Append(x, e)  u == PointIds(y)  v == Append(PointIds(x), e.id)
<1>4. /\ Len(y) = Len(x) + 1 /\ DOMAIN y = 1..(Len(x) + 1) /\ y[Len(x) + 1] = e
      /\ \A i \in 1..Len(x) : y[i] = x[i]
  BY <1>1, AppendProperties
<1>5. /\ v \in Seq(Points) /\ Len(v) = Len(x) + 1 /\ v[Len(x) + 1] = e.id
      /\ \A i \in 1..Len(x) : v[i] = PointIds(x)[i]
  BY <1>1, <1>3, AppendProperties
<1>6. v = [i \in 1..(Len(x) + 1) |-> v[i]]
  BY <1>5
<1>7. u = [i \in 1..(Len(x) + 1) |-> y[i].id]
  <2> HIDE DEF y
  <2>1. QED
    BY <1>4 DEF PointIds
<1> HIDE DEF u, v, y
<1>8. ASSUME NEW i \in 1..(Len(x) + 1) PROVE v[i] = y[i].id
  <2>1. CASE i \in 1..Len(x)
    BY <1>2, <1>4, <1>5, <2>1
  <2>2. CASE i = Len(x) + 1
    BY <1>4, <1>5, <2>2
  <2>3. QED
    BY <1>1, <2>1, <2>2
<1>9. u = v
  BY <1>6, <1>7, <1>8
<1>10. QED
  BY <1>3, <1>9 DEF u, v, y

\* The names of what is sent: the loop over the names gives them.
LEMMA NamesAre ==
  ASSUME NEW s \in Seq(SecurityPoints), NEW kind
  PROVE  \E g : /\ Named(g, s, kind, Len(s))
                /\ PointIds(SentFrom(s, kind)) = g[Len(s)]
                /\ \A i \in 0..Len(s) : g[i] \in Seq(Points)
<1> DEFINE n == Len(s)
<1>1. n \in Nat /\ \A i \in 1..n : s[i] \in SecurityPoints
  BY LenProperties
<1>2. PICK f : Sent(f, s, kind, n) /\ SentFrom(s, kind) = f[n]
  BY SentFromIs
<1> HIDE DEF n
<1>3. f[0] = <<>>
  BY <1>1, <1>2 DEF Sent
<1>4. \A i \in 1..n : f[i] = IF s[i].valid = kind THEN Append(f[i - 1], s[i]) ELSE f[i - 1]
  <2> TAKE i \in 1..n
  <2>1. i \in 0..n /\ i # 0
    BY <1>1
  <2>2. QED
    BY <1>2, <2>1 DEF Sent
<1> DEFINE S == {i \in Nat : i <= n => f[i] \in Seq(SecurityPoints)}
<1>5. 0 \in S
  BY <1>3, EmptySeq
<1>6. ASSUME NEW i \in S PROVE i + 1 \in S
  <2>1. CASE i + 1 <= n
    <3>1. i \in Nat /\ i <= n /\ i + 1 \in 1..n /\ i + 1 - 1 = i
      BY <1>1, <2>1
    <3>2. f[i] \in Seq(SecurityPoints) /\ s[i + 1] \in SecurityPoints
      BY <1>1, <1>6, <3>1
    <3>3. f[i + 1] = IF s[i + 1].valid = kind THEN Append(f[i], s[i + 1]) ELSE f[i]
      BY <1>4, <3>1
    <3>4. f[i + 1] \in Seq(SecurityPoints)
      BY <3>2, <3>3, AppendProperties
    <3>5. QED
      BY <3>1, <3>4
  <2>2. CASE ~(i + 1 <= n)
    BY <2>2
  <2>3. QED
    BY <2>1, <2>2
<1>7. S = Nat
  <2> HIDE DEF S
  <2>1. S \subseteq Nat
    BY DEF S
  <2>2. QED
    BY <1>5, <1>6, <2>1, InductionOverNat
<1>8. \A i \in 0..n : f[i] \in Seq(SecurityPoints)
  BY <1>1, <1>7
<1> DEFINE g == [i \in 0..n |-> PointIds(f[i])]
<1>9. ASSUME NEW i \in 0..n
      PROVE  /\ g[i] \in Seq(Points)
             /\ g[i] = IF i = 0 THEN <<>>
                       ELSE IF s[i].valid = kind THEN Append(g[i - 1], s[i].id) ELSE g[i - 1]
  <2>1. g[i] \in Seq(Points)
    <3>1. f[i] \in Seq(SecurityPoints)
      BY <1>8
    <3>2. PointIds(f[i]) = [j \in DOMAIN f[i] |-> f[i][j].id]
      BY DEF PointIds
    <3>3. DOMAIN f[i] = 1..Len(f[i]) /\ Len(f[i]) \in Nat /\ \A j \in 1..Len(f[i]) : f[i][j].id \in Points
      <4>1. \A q \in SecurityPoints : q.id \in Points
        BY DEF SecurityPoints
      <4>2. \A j \in 1..Len(f[i]) : f[i][j] \in SecurityPoints
        BY <3>1, LenProperties
      <4>3. QED
        BY <3>1, <4>1, <4>2, LenProperties
    <3>4. PointIds(f[i]) \in Seq(Points)
      BY <3>2, <3>3, IsASeq
    <3>5. QED
      BY <3>4
  <2>2. CASE i = 0
    <3>1. PointIds(<<>>) = <<>>
      BY DEF PointIds
    <3>2. QED
      BY <1>3, <2>1, <2>2, <3>1
  <2>3. CASE i # 0
    <3>1. i \in 1..n /\ i - 1 \in 0..n
      BY <1>1, <2>3
    <3>2. f[i - 1] \in Seq(SecurityPoints) /\ s[i] \in SecurityPoints
      BY <1>1, <1>8, <3>1
    <3>3. PointIds(Append(f[i - 1], s[i])) = Append(PointIds(f[i - 1]), s[i].id)
      BY <3>2, NamesOfAppend
    <3>4. f[i] = IF s[i].valid = kind THEN Append(f[i - 1], s[i]) ELSE f[i - 1]
      BY <1>4, <3>1
    <3>5. g[i] = PointIds(f[i]) /\ g[i - 1] = PointIds(f[i - 1])
      BY <3>1
    <3> HIDE DEF g
    <3>6. QED
      BY <2>1, <2>3, <3>3, <3>4, <3>5
  <2>4. QED
    BY <2>2, <2>3
<1>10. Named(g, s, kind, n)
  <2>1. g = [i \in 0..n |-> g[i]]
    OBVIOUS
  <2> HIDE DEF g
  <2>2. QED
    BY <1>9, <2>1 DEF Named
<1>11. g[n] = PointIds(SentFrom(s, kind))
  BY <1>1, <1>2
<1>12. QED
  <2> HIDE DEF g
  <2>1. QED
    BY <1>9, <1>10, <1>11 DEF n

\* One turn of the loop.
LEMMA NamedSteps ==
  ASSUME NEW g, NEW s, NEW kind, NEW n \in Nat, Named(g, s, kind, n)
  PROVE  /\ g[0] = <<>>
         /\ \A i \in 1..n : g[i] = IF s[i].valid = kind THEN Append(g[i - 1], s[i].id) ELSE g[i - 1]
<1>1. g[0] = <<>>
  BY DEF Named
<1>2. ASSUME NEW i \in 1..n
      PROVE  g[i] = IF s[i].valid = kind THEN Append(g[i - 1], s[i].id) ELSE g[i - 1]
  <2>1. i \in 0..n /\ i # 0
    OBVIOUS
  <2>2. QED
    BY <2>1 DEF Named
<1>3. QED
  BY <1>1, <1>2

\* Two lists that agree send the same.
LEMMA NamesAgree ==
  ASSUME NEW g, NEW h, NEW s, NEW t, NEW kind, NEW m \in Nat, NEW n \in Nat,
         Named(g, s, kind, m), Named(h, t, kind, n), NEW k \in Nat, k <= m, k <= n,
         \A i \in 1..k : s[i].id = t[i].id /\ s[i].valid = t[i].valid
  PROVE  g[k] = h[k]
<1> DEFINE S == {i \in Nat : i <= k => g[i] = h[i]}
<1>0. /\ g[0] = <<>> /\ h[0] = <<>>
      /\ \A i \in 1..m : g[i] = IF s[i].valid = kind THEN Append(g[i - 1], s[i].id) ELSE g[i - 1]
      /\ \A i \in 1..n : h[i] = IF t[i].valid = kind THEN Append(h[i - 1], t[i].id) ELSE h[i - 1]
  BY NamedSteps
<1>1. 0 \in S
  <2>1. g[0] = <<>> /\ h[0] = <<>>
    BY <1>0
  <2>2. QED
    BY <2>1
<1>2. ASSUME NEW i \in S PROVE i + 1 \in S
  <2>1. CASE i + 1 <= k
    <3>1. i \in Nat /\ i <= k /\ i + 1 \in 1..k /\ i + 1 \in 1..m /\ i + 1 \in 1..n
          /\ i + 1 - 1 = i
      BY <2>1
    <3>2. g[i] = h[i]
      BY <1>2, <3>1
    <3>3. g[i + 1] = IF s[i + 1].valid = kind THEN Append(g[i], s[i + 1].id) ELSE g[i]
      BY <1>0, <3>1
    <3>4. h[i + 1] = IF t[i + 1].valid = kind THEN Append(h[i], t[i + 1].id) ELSE h[i]
      BY <1>0, <3>1
    <3>5. g[i + 1] = h[i + 1]
      BY <3>1, <3>2, <3>3, <3>4
    <3>6. QED
      BY <3>1, <3>5
  <2>2. CASE ~(i + 1 <= k)
    BY <2>2
  <2>3. QED
    BY <2>1, <2>2
<1>3. S = Nat
  <2> HIDE DEF S
  <2>1. S \subseteq Nat
    BY DEF S
  <2>2. QED
    BY <1>1, <1>2, <2>1, InductionOverNat
<1>4. QED
  BY <1>3

\* What a listing names after a call that changes no validity, ...
Listing(kind) == PointIds(CoefficientsSent(kind))

\* A listing is the loop over the list as it is, or as it will be.
LEMMA ListingIs ==
  /\ \A kind : Listing(kind) = PointIds(SentFrom(points, kind))
  /\ \A kind : Listing(kind)' = PointIds(SentFrom(points', kind))
BY DEF Listing, CoefficientsSent, SentFrom

LEMMA SameListing ==
  ASSUME TypeOK, TypeOK', SamePoints, NEW kind
  PROVE  Listing(kind)' = Listing(kind)
<1>0. points \in Seq(SecurityPoints) /\ points' \in Seq(SecurityPoints)
  BY DEF TypeOK
<1>1. PICK g : Named(g, points, kind, Len(points)) /\ Listing(kind) = g[Len(points)]
  BY <1>0, NamesAre, ListingIs
<1>2. PICK h : Named(h, points', kind, Len(points')) /\ Listing(kind)' = h[Len(points')]
  BY <1>0, NamesAre, ListingIs
<1>3. Len(points') = Len(points) /\ Len(points) \in Nat
  BY <1>0, LenProperties DEF SamePoints
<1>4. \A i \in 1..Len(points) : points'[i].id = points[i].id /\ points'[i].valid = points[i].valid
  BY <1>0, LenProperties DEF SamePoints
<1>5. h[Len(points)] = g[Len(points)]
  <2> DEFINE n == Len(points)
  <2>1. Named(g, points, kind, n) /\ Named(h, points', kind, n) /\ n \in Nat /\ n <= n
    BY <1>1, <1>2, <1>3
  <2>2. \A i \in 1..n : points[i].id = points'[i].id /\ points[i].valid = points'[i].valid
    BY <1>4
  <2> HIDE DEF n
  <2>3. g[n] = h[n]
    BY <2>1, <2>2, NamesAgree
  <2>4. QED
    BY <2>3 DEF n
<1>6. QED
  BY <1>1, <1>2, <1>3, <1>5

\* ... and after one that adds a point.
LEMMA GainedListing ==
  ASSUME TypeOK, NEW p \in Points, Gains(p), NEW kind
  PROVE  /\ Listing(kind) \in Seq(Points)
         /\ Listing(kind)' = IF kind = ~sealed THEN Append(Listing(kind), p) ELSE Listing(kind)
<1> DEFINE n == Len(points)
<1>0. /\ points \in Seq(SecurityPoints) /\ points' \in Seq(SecurityPoints)
      /\ n \in Nat /\ Len(points') = n + 1
      /\ \A i \in 1..n : points'[i].id = points[i].id /\ points'[i].valid = points[i].valid
      /\ points'[n + 1].id = p /\ points'[n + 1].valid = ~sealed
  BY GainedPoint, LenProperties DEF TypeOK
<1>1. PICK g : Named(g, points, kind, n) /\ Listing(kind) = g[n] /\ \A i \in 0..n : g[i] \in Seq(Points)
  BY <1>0, NamesAre, ListingIs
<1>2. PICK h : Named(h, points', kind, n + 1) /\ Listing(kind)' = h[n + 1]
  BY <1>0, NamesAre, ListingIs
<1> HIDE DEF n
<1>3. n + 1 \in Nat /\ n <= n + 1 /\ n <= n /\ n + 1 \in 1..(n + 1) /\ n + 1 - 1 = n /\ n \in 0..n
  BY <1>0
<1>4. g[n] = h[n]
  <2>1. n \in Nat /\ n + 1 \in Nat /\ n <= n + 1 /\ n <= n
    BY <1>0, <1>3
  <2>2. \A i \in 1..n : points[i].id = points'[i].id /\ points[i].valid = points'[i].valid
    BY <1>0
  <2>3. Named(g, points, kind, n) /\ Named(h, points', kind, n + 1)
    BY <1>1, <1>2
  <2>4. QED
    BY <2>1, <2>2, <2>3, NamesAgree
<1>5. h[n + 1] = IF points'[n + 1].valid = kind THEN Append(h[n], points'[n + 1].id) ELSE h[n]
  BY <1>2, <1>3, NamedSteps
<1>6. QED
  BY <1>0, <1>1, <1>2, <1>3, <1>4, <1>5

-----------------------------------------------------------------------------
(* The lists of events.                                                    *)

\* The points a list names.
Names(s) == {s[i].id : i \in DOMAIN s}

\* Forensics that are the invalid points, and a trajectory that is injective
\* and of valid points, all of them mapped.
Paired(fpoints, tpoints, valid, invalid, mapped) ==
  /\ fpoints = invalid
  /\ ToSet(tpoints) \subseteq ToSet(valid)
  /\ ToSet(tpoints) \subseteq mapped
  /\ IsInjective(tpoints)

LogsInv ==
  logging /\ ~poisoned =>
    Paired(LoggedPoints(forensics), LoggedPoints(trajectory), Listing(TRUE), Listing(FALSE), Names(points))

\* The points of a list of events that grows.
LEMMA LoggedAppend ==
  ASSUME NEW log \in Seq(LogEntries), NEW e \in LogEntries
  PROVE  /\ LoggedPoints(log) \in Seq(Points) /\ Len(LoggedPoints(log)) = Len(log)
         /\ LoggedPoints(Append(log, e)) = Append(LoggedPoints(log), e.point)
<1>1. /\ Len(log) \in Nat /\ DOMAIN log = 1..Len(log) /\ e.point \in Points
      /\ \A i \in 1..Len(log) : log[i].point \in Points
  <2>1. \A i \in 1..Len(log) : log[i] \in LogEntries
    BY LenProperties
  <2>2. \A q \in LogEntries : q.point \in Points
    BY DEF LogEntries
  <2>3. QED
    BY <2>1, <2>2, LenProperties
<1>2. LoggedPoints(log) = [i \in 1..Len(log) |-> log[i].point]
  BY <1>1 DEF LoggedPoints
<1>3. LoggedPoints(log) \in Seq(Points) /\ Len(LoggedPoints(log)) = Len(log)
  BY <1>1, <1>2, IsASeq, LenProperties
<1> DEFINE y == Append(log, e)  v == Append(LoggedPoints(log), e.point)
<1>4. /\ DOMAIN y = 1..(Len(log) + 1) /\ y[Len(log) + 1] = e
      /\ \A i \in 1..Len(log) : y[i] = log[i]
  BY <1>1, AppendProperties
<1>5. /\ v \in Seq(Points) /\ Len(v) = Len(log) + 1 /\ v[Len(log) + 1] = e.point
      /\ \A i \in 1..Len(log) : v[i] = log[i].point
  BY <1>1, <1>2, <1>3, AppendProperties
<1>6. v = [i \in 1..(Len(log) + 1) |-> v[i]]
  BY <1>5
<1>7. LoggedPoints(y) = [i \in 1..(Len(log) + 1) |-> y[i].point]
  <2> HIDE DEF y
  <2>1. QED
    BY <1>4 DEF LoggedPoints
<1> HIDE DEF v, y
<1>8. \A i \in 1..(Len(log) + 1) : i \in 1..Len(log) \/ i = Len(log) + 1
  BY <1>1
<1>9. LoggedPoints(y) = v
  BY <1>4, <1>5, <1>6, <1>7, <1>8
<1>10. QED
  BY <1>3, <1>9 DEF v, y

\* What is in a list that grows.
LEMMA InAppend ==
  ASSUME NEW S, NEW s \in Seq(S), NEW e \in S
  PROVE  ToSet(Append(s, e)) = ToSet(s) \cup {e}
<1>1. /\ Len(s) \in Nat /\ DOMAIN s = 1..Len(s) /\ DOMAIN Append(s, e) = 1..(Len(s) + 1)
      /\ Append(s, e)[Len(s) + 1] = e /\ \A i \in 1..Len(s) : Append(s, e)[i] = s[i]
  BY AppendProperties, LenProperties
<1>2. \A i \in 1..(Len(s) + 1) : i \in 1..Len(s) \/ i = Len(s) + 1
  BY <1>1
<1>3. \A i \in 1..Len(s) : i \in 1..(Len(s) + 1)
  BY <1>1
<1>4. Len(s) + 1 \in 1..(Len(s) + 1)
  BY <1>1
<1>5. ASSUME NEW x \in ToSet(Append(s, e)) PROVE x \in ToSet(s) \cup {e}
  BY <1>1, <1>2 DEF ToSet
<1>6. ASSUME NEW x \in ToSet(s) \cup {e} PROVE x \in ToSet(Append(s, e))
  BY <1>1, <1>3, <1>4 DEF ToSet
<1>7. QED
  BY <1>5, <1>6

\* A list of events lists points.
LEMMA LoggedType == \A log \in Seq(LogEntries) : LoggedPoints(log) \in Seq(Points)
<1> SUFFICES ASSUME NEW log \in Seq(LogEntries) PROVE LoggedPoints(log) \in Seq(Points)
  OBVIOUS
<1>1. Len(log) \in Nat /\ DOMAIN log = 1..Len(log) /\ \A i \in 1..Len(log) : log[i] \in LogEntries
  BY LenProperties
<1>2. \A q \in LogEntries : q.point \in Points
  BY DEF LogEntries
<1>3. LoggedPoints(log) = [i \in 1..Len(log) |-> log[i].point]
  BY <1>1 DEF LoggedPoints
<1>4. QED
  BY <1>1, <1>2, <1>3, IsASeq

\* The three ways to gain a point: a line of the model file, a violation of a
\* sealed model, a point of a model that is not.
LEMMA PairedSteps ==
  ASSUME NEW f, NEW t \in Seq(Points), NEW v \in Seq(Points), NEW w, NEW mapped, NEW now,
         NEW p \in Points, Paired(f, t, v, w, mapped), mapped \subseteq now, p \in now
  PROVE  /\ Paired(f, t, Append(v, p), w, now)
         /\ Paired(Append(f, p), t, v, Append(w, p), now)
         /\ p \notin mapped => Paired(f, Append(t, p), Append(v, p), w, now)
<1>1. ToSet(Append(v, p)) = ToSet(v) \cup {p}
  BY InAppend
<1>2. ToSet(Append(t, p)) = ToSet(t) \cup {p}
  BY InAppend
<1>3. /\ f = w /\ IsInjective(t)
      /\ ToSet(t) \subseteq ToSet(v) /\ ToSet(t) \subseteq mapped
  BY DEF Paired
<1>4. ASSUME p \notin mapped PROVE IsInjective(Append(t, p))
  <2> DEFINE n == Len(t)  u == Append(t, p)
  <2>1. /\ n \in Nat /\ DOMAIN t = 1..n /\ DOMAIN u = 1..(n + 1) /\ u[n + 1] = p
        /\ \A i \in 1..n : u[i] = t[i]
    BY AppendProperties, LenProperties
  <2>2. \A i \in 1..n : t[i] # p
    BY <1>3, <1>4, <2>1 DEF ToSet
  <2>3. \A i, j \in 1..n : t[i] = t[j] => i = j
    BY <1>3, <2>1 DEF IsInjective
  <2> HIDE DEF n, u
  <2>4. \A i \in 1..(n + 1) : i \in 1..n \/ i = n + 1
    BY <2>1
  <2>5. \A i, j \in 1..(n + 1) : u[i] = u[j] => i = j
    BY <2>1, <2>2, <2>3, <2>4
  <2>6. IsInjective(u)
    BY <2>1, <2>5 DEF IsInjective
  <2>7. QED
    BY <2>6 DEF u
<1>5. Paired(f, t, Append(v, p), w, now)
  BY <1>1, <1>3 DEF Paired
<1>6. Paired(Append(f, p), t, v, Append(w, p), now)
  BY <1>3 DEF Paired
<1>7. ASSUME p \notin mapped PROVE Paired(f, Append(t, p), Append(v, p), w, now)
  BY <1>1, <1>2, <1>3, <1>4, <1>7 DEF Paired
<1>8. QED
  BY <1>5, <1>6, <1>7

\* Points that stay keep their names, one that is gained adds its own.
LEMMA NamesOfPoints ==
  ASSUME TypeOK, TypeOK'
  PROVE  /\ SamePoints => Names(points') = Names(points)
         /\ \A p \in Points : Gains(p) => Names(points) \subseteq Names(points') /\ p \in Names(points')
         /\ \A p : Mapped(p) = {} => p \notin Names(points)
<1>0. DOMAIN points = 1..Len(points) /\ DOMAIN points' = 1..Len(points') /\ Len(points) \in Nat
  BY LenProperties DEF TypeOK
<1>1. ASSUME SamePoints PROVE Names(points') = Names(points)
  <2>1. DOMAIN points' = DOMAIN points /\ \A i \in DOMAIN points : points'[i].id = points[i].id
    BY <1>1 DEF SamePoints
  <2>2. QED
    BY <2>1 DEF Names
<1>2. ASSUME NEW p \in Points, Gains(p) PROVE Names(points) \subseteq Names(points') /\ p \in Names(points')
  <2> DEFINE n == Len(points)
  <2>1. /\ points'[n + 1].id = p /\ points' \in Seq(SecurityPoints)
        /\ DOMAIN points' = 1..(n + 1)
        /\ \A i \in 1..n : points'[i] = points[i]
    BY ZenonT(60), <1>0, <1>2, GainedPoint DEF TypeOK
  <2>2. n \in Nat /\ DOMAIN points = 1..n /\ DOMAIN points' = 1..(n + 1)
    BY <1>0, <2>1
  <2> HIDE DEF n
  <2>3. n + 1 \in 1..(n + 1) /\ \A i \in 1..n : i \in 1..(n + 1)
    BY <2>2
  <2>4. QED
    BY SMTT(30), <2>1, <2>2, <2>3 DEF Names
<1>3. ASSUME NEW p, Mapped(p) = {} PROVE p \notin Names(points)
  BY <1>3 DEF Mapped, Names
<1>4. QED
  BY <1>1, <1>2, <1>3

\* The calls that log nothing.
LEMMA LogsKept ==
  ASSUME TypeOK, TypeOK', LogsInv, UNCHANGED <<trajectory, forensics>>,
         logging' /\ ~poisoned' => logging /\ ~poisoned,
         SamePoints \/ (~sealed /\ \E p \in Points : Gains(p))
  PROVE  LogsInv'
<1> DEFINE f == LoggedPoints(forensics)  t == LoggedPoints(trajectory)
           v == Listing(TRUE)  w == Listing(FALSE)  m == Names(points)
<1>0. LoggedPoints(forensics') = f /\ LoggedPoints(trajectory') = t
  BY DEF LoggedPoints
<1>1. t \in Seq(Points)
  BY LoggedType DEF TypeOK
<1>2. CASE SamePoints
  <2>1. Listing(TRUE)' = v /\ Listing(FALSE)' = w /\ Names(points') = m
    BY <1>2, SameListing, NamesOfPoints
  <2> HIDE DEF f, t, v, w, m
  <2>2. logging /\ ~poisoned => Paired(f, t, v, w, m)
    BY DEF LogsInv, f, t, v, w, m
  <2>3. logging' /\ ~poisoned' => Paired(LoggedPoints(forensics'), LoggedPoints(trajectory'),
                                         Listing(TRUE)', Listing(FALSE)', Names(points'))
    BY <1>0, <2>1, <2>2
  <2>4. QED
    BY <2>3 DEF LogsInv
<1>3. ASSUME ~sealed, NEW p \in Points, Gains(p) PROVE LogsInv'
  <2>1. Listing(FALSE)' = w /\ Listing(TRUE)' = Append(v, p) /\ v \in Seq(Points)
    BY <1>3, GainedListing
  <2>2. m \subseteq Names(points') /\ p \in Names(points')
    BY <1>3, NamesOfPoints
  <2> HIDE DEF f, t, v, w, m
  <2>3. logging /\ ~poisoned => Paired(f, t, v, w, m)
    BY DEF LogsInv, f, t, v, w, m
  <2>4. logging /\ ~poisoned => Paired(f, t, Append(v, p), w, Names(points'))
    BY <1>1, <2>1, <2>2, <2>3, PairedSteps
  <2>5. logging' /\ ~poisoned' => Paired(LoggedPoints(forensics'), LoggedPoints(trajectory'),
                                         Listing(TRUE)', Listing(FALSE)', Names(points'))
    BY <1>0, <2>1, <2>4
  <2>6. QED
    BY <2>5 DEF LogsInv
<1>4. QED
  BY <1>2, <1>3

\* The call that logs an event.
LEMMA EventLogged ==
  ASSUME TypeOK, TypeOK', LogsInv, NEW ev \in Events, UpdateNew(ev)
  PROVE  LogsInv'
<1> DEFINE p == Evaluate(ev)  e == LogEntry(ev)
           f == LoggedPoints(forensics)  t == LoggedPoints(trajectory)
           v == Listing(TRUE)  w == Listing(FALSE)  m == Names(points)
<1>1. p \in Points /\ e \in LogEntries /\ e.point = p /\ Gains(p)
  BY EvaluateType, NewPoints DEF LogEntry
<1>2. /\ UNCHANGED <<logging, poisoned>> /\ Mapped(p) = {}
      /\ forensics' = IF logging /\ sealed THEN Append(forensics, e) ELSE forensics
      /\ trajectory' = IF logging /\ ~sealed THEN Append(trajectory, e) ELSE trajectory
  BY DEF UpdateNew, LogEvent
<1>3. /\ LoggedPoints(Append(forensics, e)) = Append(f, p)
      /\ LoggedPoints(Append(trajectory, e)) = Append(t, p)
      /\ t \in Seq(Points)
  <2> HIDE DEF p, e
  <2>1. forensics \in Seq(LogEntries) /\ trajectory \in Seq(LogEntries)
    BY DEF TypeOK
  <2>2. QED
    BY <1>1, <2>1, LoggedAppend
<1> HIDE DEF p, e
<1>4. /\ Listing(FALSE)' = IF sealed THEN Append(w, p) ELSE w
      /\ Listing(TRUE)' = IF sealed THEN v ELSE Append(v, p)
      /\ v \in Seq(Points)
  BY <1>1, GainedListing DEF TypeOK
<1>5. m \subseteq Names(points') /\ p \in Names(points') /\ p \notin m
  BY <1>1, <1>2, NamesOfPoints
<1>6. logging /\ ~poisoned => Paired(f, t, v, w, m)
  BY DEF LogsInv
<1>7. ASSUME logging' /\ ~poisoned'
      PROVE  Paired(LoggedPoints(forensics'), LoggedPoints(trajectory'),
                    Listing(TRUE)', Listing(FALSE)', Names(points'))
  <2> HIDE DEF f, t, v, w, m
  <2>1. logging /\ Paired(f, t, v, w, m)
    BY <1>2, <1>6, <1>7
  <2>2. /\ Paired(Append(f, p), t, v, Append(w, p), Names(points'))
        /\ Paired(f, Append(t, p), Append(v, p), w, Names(points'))
    BY <1>1, <1>3, <1>4, <1>5, <2>1, PairedSteps
  <2>3. CASE sealed
    <3>1. forensics' = Append(forensics, e) /\ trajectory' = trajectory
      BY <1>2, <2>1, <2>3
    <3>2. LoggedPoints(forensics') = Append(f, p) /\ LoggedPoints(trajectory') = t
      BY <1>3, <3>1 DEF t
    <3>3. QED
      BY <1>4, <2>2, <2>3, <3>2
  <2>4. CASE ~sealed
    <3>1. trajectory' = Append(trajectory, e) /\ forensics' = forensics
      BY <1>2, <2>1, <2>4
    <3>2. LoggedPoints(trajectory') = Append(t, p) /\ LoggedPoints(forensics') = f
      BY <1>3, <3>1 DEF f
    <3>3. QED
      BY <1>4, <2>2, <2>4, <3>2
  <2>5. QED
    BY <2>3, <2>4
<1>8. QED
  BY <1>7 DEF LogsInv

\* Every step keeps the lists paired with the listings.
LEMMA LogsStep == TypeOK /\ LogsInv /\ [Next]_vars => LogsInv'
<1> SUFFICES ASSUME TypeOK, LogsInv, [Next]_vars PROVE LogsInv'
  OBVIOUS
<1>0. TypeOK'
  BY TypeStep
<1>1. ASSUME NEW ev \in Events, UpdateMapped(ev) PROVE LogsInv'
  <2>1. SamePoints /\ UNCHANGED <<trajectory, forensics, logging, poisoned>>
    BY <1>1, MappedPoints DEF UpdateMapped
  <2>2. QED
    BY <1>0, <2>1, LogsKept
<1>2. ASSUME NEW ev \in Events, UpdateNew(ev) PROVE LogsInv'
  BY <1>0, <1>2, EventLogged
<1>3. ASSUME NEW ev \in Events, UpdateFails(ev) PROVE LogsInv'
  BY <1>3 DEF UpdateFails, LogsInv
<1>4. ASSUME NEW entry \in Entries, Load(entry) PROVE LogsInv'
  <2>1. UNCHANGED <<trajectory, forensics, logging, poisoned>>
    BY <1>4 DEF Load, LoadComment, LoadKey, LoadBase, LoadAggregate, LoadState, LoadPseudonym,
                LoadSeal, LoadSignature, LoadEnd, LoadFails, eventVars
  <2>2. SamePoints \/ (~sealed /\ \E p \in Points : Gains(p))
    BY <1>4, EntriesTyped, LoadedPoints
  <2>3. QED
    BY <1>0, <2>1, <2>2, LogsKept
<1>5. ASSUME \/ \E a \in Aggregates : SetAggregate(a)
             \/ SetAggregateFails \/ add_TSEM_event \/ disable_logging \/ Seal
             \/ UNCHANGED vars
      PROVE  LogsInv'
  <2>1. SamePoints
    BY <1>5, OtherPoints, UnchangedIsSame
  <2>2. UNCHANGED <<trajectory, forensics>> /\ (logging' /\ ~poisoned' => logging /\ ~poisoned)
    BY <1>5 DEF SetAggregate, SetAggregateFails, add_TSEM_event, disable_logging, Seal, vars, eventVars
  <2>3. QED
    BY <1>0, <2>1, <2>2, LogsKept
<1>6. QED
  BY <1>1, <1>2, <1>3, <1>4, <1>5 DEF Next, Update

\* However many points and events there are, and in whatever order the model
\* file, the events and a seal come: the forensics pair up, one by one and in
\* order, with the invalid points of the listings, and the trajectory names
\* valid points, none of them twice (update, _update_map, send_points).
THEOREM ForensicsPairUp == Spec => []LogsPairUp
<1>1. Init => LogsInv
  <2> SUFFICES ASSUME Init PROVE LogsInv
    OBVIOUS
  <2>1. points = <<>> /\ trajectory = <<>> /\ forensics = <<>>
    BY DEF Init
  <2>2. points \in Seq(SecurityPoints) /\ Len(points) = 0
    BY <2>1, EmptySeq
  <2>3. \A kind : Listing(kind) = <<>>
    <3> TAKE kind
    <3>1. PICK g : Named(g, points, kind, 0) /\ Listing(kind) = g[0]
      BY <2>2, NamesAre, ListingIs
    <3>2. QED
      BY <3>1 DEF Named
  <2>4. LoggedPoints(<<>>) = <<>> /\ ToSet(<<>>) = {} /\ IsInjective(<<>>)
    BY DEF LoggedPoints, ToSet, IsInjective
  <2>5. Paired(<<>>, <<>>, Listing(TRUE), Listing(FALSE), Names(points))
    BY <2>3, <2>4 DEF Paired
  <2>6. QED
    BY <2>1, <2>4, <2>5 DEF LogsInv
<1>2. LogsInv => LogsPairUp
  BY DEF LogsInv, Paired, LogsPairUp, Listing
<1>3. Spec => []TypeOK
  BY TypeCorrect
<1>4. QED
  BY <1>1, <1>2, <1>3, LogsStep, PTL DEF Spec

-----------------------------------------------------------------------------
(* The file of one session and the session that loads it.                  *)

\* What a listing has sent: the points of its type, and those only.
LEMMA SentIs ==
  ASSUME NEW s \in Seq(SecurityPoints), NEW kind
  PROVE  /\ SentFrom(s, kind) \in Seq(SecurityPoints)
         /\ ToSet(SentFrom(s, kind)) = {s[k] : k \in {j \in 1..Len(s) : s[j].valid = kind}}
<1> DEFINE n == Len(s)
           Of(i) == {s[k] : k \in {j \in 1..i : s[j].valid = kind}}
<1>1. n \in Nat /\ \A i \in 1..n : s[i] \in SecurityPoints
  BY LenProperties
<1>2. PICK f : Sent(f, s, kind, n) /\ SentFrom(s, kind) = f[n]
  BY SentFromIs
<1> DEFINE S == {i \in Nat : i <= n => f[i] \in Seq(SecurityPoints) /\ ToSet(f[i]) = Of(i)}
<1> HIDE DEF n
<1>3. 0 \in S
  <2>1. f[0] = <<>>
    BY <1>1, <1>2 DEF Sent
  <2>2. Of(0) = {} /\ ToSet(<<>>) = {}
    BY DEF ToSet
  <2>3. QED
    BY <2>1, <2>2, EmptySeq
<1>4. ASSUME NEW i \in S PROVE i + 1 \in S
  <2>1. CASE i + 1 <= n
    <3>1. i \in Nat /\ i <= n /\ i + 1 \in 1..n /\ i + 1 \in 0..n /\ i + 1 # 0 /\ i + 1 - 1 = i
      BY <1>1, <2>1
    <3>2. f[i] \in Seq(SecurityPoints) /\ ToSet(f[i]) = Of(i) /\ s[i + 1] \in SecurityPoints
      BY <1>1, <1>4, <3>1
    <3>3. f[i + 1] = IF s[i + 1].valid = kind THEN Append(f[i], s[i + 1]) ELSE f[i]
      <4>1. \A j \in 0..n : f[j] = IF j = 0 THEN <<>>
                              ELSE IF s[j].valid = kind THEN Append(f[j - 1], s[j]) ELSE f[j - 1]
        BY <1>2 DEF Sent
      <4>2. QED
        BY <3>1, <4>1
    <3>4. f[i + 1] \in Seq(SecurityPoints)
      BY <3>2, <3>3, AppendProperties
    <3>5. \A k \in 1..(i + 1) : k \in 1..i \/ k = i + 1
      BY <3>1
    <3>6. \A k \in 1..i : k \in 1..(i + 1)
      BY <3>1
    <3>7. i + 1 \in 1..(i + 1)
      BY <3>1
    <3>8. Of(i + 1) = IF s[i + 1].valid = kind THEN Of(i) \cup {s[i + 1]} ELSE Of(i)
      BY <3>5, <3>6, <3>7
    <3>9. ToSet(Append(f[i], s[i + 1])) = ToSet(f[i]) \cup {s[i + 1]}
      BY <3>2, InAppend
    <3> HIDE DEF Of
    <3>10. ToSet(f[i + 1]) = Of(i + 1)
      BY <3>2, <3>3, <3>8, <3>9
    <3>11. QED
      BY <3>1, <3>4, <3>10
  <2>2. CASE ~(i + 1 <= n)
    BY <2>2
  <2>3. QED
    BY <2>1, <2>2
<1>5. S = Nat
  <2> HIDE DEF S
  <2>1. S \subseteq Nat
    BY DEF S
  <2>2. QED
    BY <1>3, <1>4, <2>1, InductionOverNat
<1>6. f[n] \in Seq(SecurityPoints) /\ ToSet(f[n]) = Of(n)
  <2>1. n <= n
    BY <1>1
  <2> HIDE DEF Of
  <2>2. QED
    BY <1>1, <1>5, <2>1
<1>7. QED
  BY <1>2, <1>6 DEF n

StateLine(p) == [cmd |-> "state", arg |-> p]
SealLine == [cmd |-> "seal", arg |-> Malformed]
EndLine == [cmd |-> "end", arg |-> Malformed]
AggregateLine == [cmd |-> "aggregate", arg |-> Aggregate]

\* The lines of a file, one by one.
LEMMA FileLines ==
  ASSUME NEW cps \in Seq(SecurityPoints)
  PROVE  /\ DOMAIN File(cps) = 1..(Len(cps) + 3) /\ Len(File(cps)) = Len(cps) + 3 /\ Len(cps) \in Nat
         /\ File(cps)[1] = AggregateLine
         /\ \A i \in 1..Len(cps) : File(cps)[i + 1] = StateLine(cps[i].id)
         /\ File(cps)[Len(cps) + 2] = SealLine
         /\ File(cps)[Len(cps) + 3] = EndLine
<1> DEFINE n == Len(cps)
           Line == {AggregateLine, SealLine, EndLine} \cup {StateLine(p) : p \in Points}
           head == <<AggregateLine>>  tail == <<SealLine, EndLine>>
<1>1. n \in Nat /\ DOMAIN cps = 1..n /\ \A i \in 1..n : cps[i].id \in Points
  <2>1. \A i \in 1..n : cps[i] \in SecurityPoints
    BY LenProperties
  <2>2. \A q \in SecurityPoints : q.id \in Points
    BY DEF SecurityPoints
  <2>3. QED
    BY <2>1, <2>2, LenProperties
<1>2. /\ head \in Seq(Line) /\ Len(head) = 1 /\ head[1] = AggregateLine
      /\ tail \in Seq(Line) /\ Len(tail) = 2 /\ tail[1] = SealLine /\ tail[2] = EndLine
  <2> HIDE DEF AggregateLine, SealLine, EndLine
  <2>1. AggregateLine \in Line /\ SealLine \in Line /\ EndLine \in Line
    OBVIOUS
  <2> HIDE DEF Line
  <2>2. QED
    BY <2>1
<1>3. StateLines(cps) = [i \in 1..n |-> StateLine(cps[i].id)]
  BY <1>1 DEF StateLines, StateLine
<1>4. \A i \in 1..n : StateLine(cps[i].id) \in Line
  BY <1>1
<1> HIDE DEF Line, head, tail, n
<1>5. /\ StateLines(cps) \in Seq(Line) /\ Len(StateLines(cps)) = n
      /\ \A i \in 1..n : StateLines(cps)[i] = StateLine(cps[i].id)
  <2>1. StateLines(cps) \in Seq(Line)
    BY <1>1, <1>3, <1>4
  <2>2. DOMAIN StateLines(cps) = 1..n
    BY <1>3
  <2>3. Len(StateLines(cps)) = n
    BY <1>1, <2>1, <2>2, LenProperties
  <2>4. QED
    BY <1>3, <2>1, <2>3
<1> DEFINE front == head \o StateLines(cps)  entire == front \o tail
<1>6. /\ front \in Seq(Line) /\ Len(front) = n + 1
      /\ \A i \in 1..(n + 1) : front[i] = IF i <= 1 THEN head[i] ELSE StateLines(cps)[i - 1]
  <2> DEFINE t == StateLines(cps)
  <2>1. head \in Seq(Line) /\ t \in Seq(Line) /\ Len(head) = 1 /\ Len(t) = n
    BY <1>2, <1>5
  <2> HIDE DEF t
  <2>2. /\ head \o t \in Seq(Line) /\ Len(head \o t) = Len(head) + Len(t)
        /\ \A i \in 1..(Len(head) + Len(t)) :
             (head \o t)[i] = IF i <= Len(head) THEN head[i] ELSE t[i - Len(head)]
    BY <2>1, ConcatProperties
  <2>3. Len(head) + Len(t) = n + 1
    BY <1>1, <2>1
  <2>4. QED
    BY <2>1, <2>2, <2>3 DEF t
<1> HIDE DEF front
<1>7. /\ entire \in Seq(Line) /\ Len(entire) = n + 3
      /\ \A i \in 1..(n + 3) : entire[i] = IF i <= n + 1 THEN front[i] ELSE tail[i - (n + 1)]
  <2>1. /\ front \o tail \in Seq(Line) /\ Len(front \o tail) = Len(front) + Len(tail)
        /\ \A i \in 1..(Len(front) + Len(tail)) :
             (front \o tail)[i] = IF i <= Len(front) THEN front[i] ELSE tail[i - Len(front)]
    BY <1>2, <1>6, ConcatProperties
  <2>2. Len(front) + Len(tail) = n + 3
    BY <1>1, <1>2, <1>6
  <2>3. QED
    BY <1>6, <2>1, <2>2
<1>8. File(cps) = entire
  BY DEF File, AggregateLine, SealLine, EndLine, head, tail, front
<1>9. DOMAIN entire = 1..(n + 3)
  BY <1>7, LenProperties
<1> HIDE DEF entire
<1>10. entire[1] = AggregateLine
  <2>1. 1 \in 1..(n + 3) /\ 1 <= n + 1 /\ 1 \in 1..(n + 1) /\ 1 <= 1
    BY <1>1
  <2>2. QED
    BY <1>2, <1>6, <1>7, <2>1
<1>11. ASSUME NEW i \in 1..n PROVE entire[i + 1] = StateLine(cps[i].id)
  <2>1. i + 1 \in 1..(n + 3) /\ i + 1 <= n + 1 /\ i + 1 \in 1..(n + 1) /\ ~(i + 1 <= 1) /\ i + 1 - 1 = i
    BY <1>1
  <2>2. entire[i + 1] = front[i + 1]
    BY <1>7, <2>1
  <2>3. front[i + 1] = StateLines(cps)[i]
    BY <1>6, <2>1
  <2>4. QED
    BY <1>5, <2>2, <2>3
<1>12. entire[n + 2] = SealLine /\ entire[n + 3] = EndLine
  <2> DEFINE a == n + 2  b == n + 3
  <2>1. a \in 1..(n + 3) /\ ~(a <= n + 1) /\ a - (n + 1) = 1
    BY <1>1
  <2>2. b \in 1..(n + 3) /\ ~(b <= n + 1) /\ b - (n + 1) = 2
    BY <1>1
  <2> HIDE DEF a, b
  <2>3. entire[a] = tail[a - (n + 1)]
    BY <1>7, <2>1
  <2>4. entire[b] = tail[b - (n + 1)]
    BY <1>7, <2>2
  <2>5. entire[a] = SealLine /\ entire[b] = EndLine
    BY <1>2, <2>1, <2>2, <2>3, <2>4
  <2>6. QED
    BY <2>5 DEF a, b
<1>13. QED
  BY <1>1, <1>7, <1>8, <1>9, <1>10, <1>11, <1>12 DEF n

-----------------------------------------------------------------------------
(* What a step of the two sessions is to the agent.                        *)

LEMMA LinesTyped == \A e \in ModelLines : Typed(e)
<1> SUFFICES ASSUME NEW e \in ModelLines PROVE Typed(e)
  OBVIOUS
<1>1. PICK c \in Commands : e \in [cmd : {c}, arg : Arguments(c)]
  BY DEF ModelLines
<1>2. e.cmd = c /\ e.arg \in Arguments(c)
  <2> HIDE DEF Arguments
  <2>1. QED
    BY <1>1
<1>3. QED
  BY <1>2 DEF Typed

\* A line that is taken is one call of the agent.
LEMMA LoadLineIsLoad ==
  ASSUME NEW e, LoadLine(e)
  PROVE  Load(e) /\ UNCHANGED <<poisoned, logging, forensics, verdict>>
BY DEF LoadLine, Load, LoadBase, LoadAggregate, LoadState, LoadPseudonym, LoadSeal, LoadEnd, eventVars

\* The four kinds of steps: the agent's calls in either process, a line of the
\* file, the end of the file or the monitor's fork, and a new process.
AgentCall ==
  /\ [Next]_vars
  /\ phase \in {"load", "run", "rerun"}
  /\ UNCHANGED <<phase, file, from_map, before>>
  /\ logging' = logging

LineLoaded(e) ==
  /\ phase = "reload"
  /\ file # <<>> /\ e = Head(file)
  /\ LoadLine(e)
  /\ file' = Tail(file)
  /\ UNCHANGED <<phase, Aggregate, fresh, from_map, before>>

PhaseEnds ==
  /\ (phase = "load" /\ phase' = "run") \/ (phase = "reload" /\ file = <<>> /\ phase' = "rerun")
  /\ UNCHANGED <<vars, Aggregate, fresh, file, from_map, before>>

Restarted ==
  \/ Restart(OutputLines, FALSE)
  \/ Restart(File(CoefficientsSent(TRUE)), TRUE)

\* What is announced being sent, the console takes it all.
LEMMA WholeMap ==
  ASSUME SessionTypeOK, send_map
  PROVE  Restart(File(CoefficientsSent(TRUE)), TRUE)
<1> DEFINE s == CoefficientsSent(TRUE)
<1>1. s = SentFrom(points, TRUE)
  BY DEF CoefficientsSent, SentFrom
<1>2. s \in Seq(SecurityPoints)
  BY ZenonT(60), <1>1, SentIs DEF SessionTypeOK, TypeOK
<1>3. CoefficientsAnnounced(TRUE) = Len(s) /\ Restart(MapLines, TRUE)
  BY DEF send_map
<1> HIDE DEF s
<1>4. SubSeq(s, 1, Len(s)) = s
  BY <1>2
<1>5. MapLines = File(s)
  BY <1>3, <1>4 DEF MapLines, s
<1>6. QED
  BY <1>3, <1>5 DEF s

LEMMA SessionSteps ==
  ASSUME SessionTypeOK, [SessionNext]_allVars
  PROVE  \/ AgentCall \/ (\E e \in ModelLines : LineLoaded(e)) \/ PhaseEnds \/ Restarted
         \/ UNCHANGED allVars
<1>1. ASSUME NEW entry \in Entries, LoadFirst(entry) PROVE AgentCall
  BY <1>1, LoadLineIsLoad DEF LoadFirst, AgentCall, Next
<1>2. ASSUME Fire PROVE PhaseEnds
  BY <1>2 DEF Fire, PhaseEnds
<1>3. ASSUME NEW a \in Aggregates, add_aggregate(a) PROVE AgentCall
  <2>1. Aggregate' \in Aggregates
    BY <1>3 DEF add_aggregate, SessionTypeOK
  <2>2. SetAggregate(Aggregate') /\ phase \in {"load", "run", "rerun"} /\ UNCHANGED <<phase, file, from_map, before>>
    BY <1>3 DEF add_aggregate, Running
  <2>3. PICK b \in Aggregates : SetAggregate(b)
    <3>1. \A b : b = Aggregate' => SetAggregate(b)
      BY <2>2
    <3>2. QED
      BY <2>1, <3>1
  <2>4. [Next]_vars /\ logging' = logging
    BY <2>3 DEF Next, SetAggregate, eventVars
  <2>5. QED
    BY <2>2, <2>4 DEF AgentCall
<1>4. ASSUME NEW ev \in Events, add_event(ev) PROVE AgentCall
  <2>1. [Next]_vars
    BY <1>4 DEF add_event, Next
  <2>2. logging' = logging
    BY <1>4 DEF add_event, Update, UpdateMapped, UpdateNew, UpdateFails
  <2>3. QED
    BY <1>4, <2>1, <2>2 DEF add_event, AgentCall, Running, sessionVars
<1>5. ASSUME CommandSeal PROVE AgentCall
  BY <1>5 DEF CommandSeal, Seal, Next, AgentCall, Running, eventVars
<1>6. ASSUME output_model PROVE Restarted
  BY <1>6 DEF output_model, Restarted
<1>7. ASSUME send_map PROVE Restarted
  BY <1>7, WholeMap DEF Restarted
<1>8. ASSUME load_model PROVE (\E e \in ModelLines : LineLoaded(e)) \/ PhaseEnds
  <2>1. CASE file # <<>>
    <3>1. PICK e : e = Head(file)
      OBVIOUS
    <3>2. e \in ModelLines
      BY <2>1, <3>1 DEF SessionTypeOK
    <3>3. LineLoaded(e)
      BY <1>8, <2>1, <3>1 DEF load_model, LineLoaded
    <3>4. QED
      BY <3>2, <3>3
  <2>2. CASE file = <<>>
    BY <1>8, <2>2 DEF load_model, PhaseEnds
  <2>3. QED
    BY <2>1, <2>2
<1>9. QED
  BY <1>1, <1>2, <1>3, <1>4, <1>5, <1>6, <1>7, <1>8 DEF SessionNext

-----------------------------------------------------------------------------
(* The types of the sessions.                                              *)

\* An agent that is made again is as one that was never used.
LEMMA NewAgent ==
  ASSUME NEW lines, NEW map, Restart(lines, map)
  PROVE  TypeOK'
<1>1. <<>> \in Seq(Extensions) /\ <<>> \in Seq(SecurityPoints) /\ <<>> \in Seq(LogEntries)
  OBVIOUS
<1>2. ZeroBase \in Bases
  BY ValuesAssumption
<1>3. /\ poisoned' \in BOOLEAN /\ loading' \in BOOLEAN
      /\ sealed' \in BOOLEAN /\ logging' \in BOOLEAN
  BY DEF Restart
<1>4. /\ base' \in Bases /\ TE_events' \in Nat /\ pseudonyms' \subseteq Pseudonyms
      /\ discipline_pid' \in Pids \cup {NoPid} /\ verdict' \in Verdicts \cup {NoVerdict}
      /\ key' \in {"none", "encoded", "decoded"}
  BY <1>2 DEF Restart
<1>5. QED
  BY <1>1, <1>3, <1>4 DEF Restart, TypeOK

LEMMA ClassesType == Classes \in [Points -> {"unknown", "valid", "invalid"}]
BY DEF Classes, StatusOf

\* The lines of a file are lines of a model.
LEMMA FileType ==
  ASSUME NEW cps \in Seq(SecurityPoints), Aggregate \in Aggregates
  PROVE  File(cps) \in Seq(ModelLines)
<1> DEFINE n == Len(cps)  f == File(cps)
<1>1. /\ DOMAIN f = 1..(n + 3) /\ n \in Nat
      /\ f[1] = AggregateLine /\ f[n + 2] = SealLine /\ f[n + 3] = EndLine
      /\ \A i \in 1..n : f[i + 1] = StateLine(cps[i].id)
  BY FileLines
<1>2. \A i \in 1..n : cps[i].id \in Points
  <2>1. \A i \in 1..n : cps[i] \in SecurityPoints
    BY LenProperties
  <2>2. \A q \in SecurityPoints : q.id \in Points
    BY DEF SecurityPoints
  <2>3. QED
    BY <2>1, <2>2
<1>3. /\ Arguments("aggregate") = Aggregates \cup {Malformed}
      /\ Arguments("state") = Points \cup {Malformed}
      /\ Arguments("seal") = {Malformed} /\ Arguments("end") = {Malformed}
  BY DEF Arguments
<1>4. {"aggregate", "state", "seal", "end"} \subseteq Commands
  BY DEF Commands
<1>5. \A c \in Commands : \A a \in Arguments(c) : [cmd |-> c, arg |-> a] \in ModelLines
  <2> HIDE DEF Arguments
  <2> SUFFICES ASSUME NEW c \in Commands, NEW a \in Arguments(c)
               PROVE  [cmd |-> c, arg |-> a] \in ModelLines
    OBVIOUS
  <2>1. [cmd |-> c, arg |-> a] \in [cmd : {c}, arg : Arguments(c)]
    OBVIOUS
  <2>2. QED
    BY <2>1 DEF ModelLines
<1>6. AggregateLine \in ModelLines
  BY <1>3, <1>4, <1>5 DEF AggregateLine
<1>7. \A p \in Points : StateLine(p) \in ModelLines
  BY <1>3, <1>4, <1>5 DEF StateLine
<1>8. SealLine \in ModelLines /\ EndLine \in ModelLines
  BY <1>3, <1>4, <1>5 DEF SealLine, EndLine
<1> HIDE DEF n
<1>9. ASSUME NEW i \in 1..(n + 3) PROVE f[i] \in ModelLines
  <2>1. i = 1 \/ i = n + 2 \/ i = n + 3 \/ (i - 1 \in 1..n /\ i = i - 1 + 1)
    BY <1>1
  <2> HIDE DEF f
  <2>2. QED
    BY <1>1, <1>2, <1>6, <1>7, <1>8, <2>1
<1>10. f = [i \in 1..(n + 3) |-> f[i]]
  <2>1. f = [i \in DOMAIN f |-> f[i]]
    BY DEF File
  <2>2. QED
    BY <1>1, <2>1
<1>11. n + 3 \in Nat
  BY <1>1
<1> HIDE DEF f
<1>12. f \in Seq(ModelLines)
  BY <1>9, <1>10, <1>11
<1>13. QED
  BY <1>12 DEF f

\* The list that is written is one of points of the agent.
LEMMA RestartedWith ==
  ASSUME SessionTypeOK, Restarted
  PROVE  \E cps \in Seq(SecurityPoints), map \in BOOLEAN :
           /\ Restart(File(cps), map)
           /\ ToSet(cps) \subseteq ToSet(points)
           /\ \A i \in DOMAIN points : points[i].valid => points[i] \in ToSet(cps)
           /\ map => \A i \in DOMAIN cps : cps[i].valid
           /\ ~map => cps = points
<1>1. points \in Seq(SecurityPoints)
  BY DEF SessionTypeOK, TypeOK
<1>2. DOMAIN points = 1..Len(points)
  BY <1>1
<1>3. CASE Restart(OutputLines, FALSE)
  BY <1>1, <1>3 DEF OutputLines, ToSet
<1>4. CASE Restart(File(CoefficientsSent(TRUE)), TRUE)
  <2> DEFINE s == CoefficientsSent(TRUE)
  <2>1. s = SentFrom(points, TRUE)
    BY DEF CoefficientsSent, SentFrom
  <2>2. s \in Seq(SecurityPoints)
        /\ ToSet(s) = {points[k] : k \in {j \in 1..Len(points) : points[j].valid = TRUE}}
    BY <1>1, <2>1, SentIs
  <2> HIDE DEF s
  <2>3. ToSet(s) \subseteq ToSet(points)
    BY <1>2, <2>2 DEF ToSet
  <2>4. \A i \in DOMAIN points : points[i].valid => points[i] \in ToSet(s)
    <3>1. \A i \in 1..Len(points) : points[i].valid \in BOOLEAN
      <4>1. \A q \in SecurityPoints : q.valid \in BOOLEAN
        BY DEF SecurityPoints
      <4>2. \A i \in 1..Len(points) : points[i] \in SecurityPoints
        BY <1>1
      <4>3. QED
        BY <4>1, <4>2
    <3>2. ASSUME NEW i \in DOMAIN points, points[i].valid PROVE points[i] \in ToSet(s)
      <4>1. points[i].valid = TRUE /\ i \in 1..Len(points)
        BY <1>2, <3>1, <3>2
      <4>2. QED
        BY <2>2, <4>1
    <3>3. QED
      BY <3>2
  <2>5. \A i \in DOMAIN s : s[i].valid
    <3>1. \A i \in DOMAIN s : s[i] \in ToSet(s)
      BY DEF ToSet
    <3>2. QED
      BY <2>2, <3>1
  <2>6. Restart(File(s), TRUE)
    BY <1>4 DEF s
  <2>7. QED
    BY <2>2, <2>3, <2>4, <2>5, <2>6
<1>5. QED
  BY <1>3, <1>4 DEF Restarted

LEMMA SessionTypeStep == SessionTypeOK /\ [SessionNext]_allVars => SessionTypeOK'
<1> SUFFICES ASSUME SessionTypeOK, [SessionNext]_allVars PROVE SessionTypeOK'
  OBVIOUS
<1>1. Aggregate' \in Aggregates \cup {NoAggregate} /\ fresh' \in BOOLEAN
  <2>1. ASSUME NEW a \in Aggregates, add_aggregate(a)
        PROVE  Aggregate' \in Aggregates \cup {NoAggregate} /\ fresh' \in BOOLEAN
    BY <2>1 DEF add_aggregate, SessionTypeOK
  <2>2. ASSUME CommandSeal
        PROVE  Aggregate' \in Aggregates \cup {NoAggregate} /\ fresh' \in BOOLEAN
    BY <2>2 DEF CommandSeal, SessionTypeOK
  <2>3. QED
    BY <2>1, <2>2
       DEF SessionNext, LoadFirst, Fire, add_event, output_model, send_map, Restart, load_model,
           allVars, sessionVars, SessionTypeOK
<1>2. CASE AgentCall
  <2>1. TypeOK'
    BY <1>2, TypeStep DEF AgentCall, SessionTypeOK
  <2>2. QED
    BY <1>1, <1>2, <2>1 DEF AgentCall, SessionTypeOK
<1>3. ASSUME NEW e \in ModelLines, LineLoaded(e) PROVE SessionTypeOK'
  <2>1. TypeOK'
    BY <1>3, LinesTyped, LoadLineIsLoad, LoadType DEF LineLoaded, SessionTypeOK
  <2>2. file' \in Seq(ModelLines)
    BY <1>3, HeadTailProperties DEF LineLoaded, SessionTypeOK
  <2>3. QED
    BY <1>1, <1>3, <2>1, <2>2 DEF LineLoaded, SessionTypeOK
<1>4. CASE PhaseEnds
  <2>1. TypeOK'
    BY <1>4, TypeStep DEF PhaseEnds, SessionTypeOK
  <2>2. phase' \in Phases
    BY <1>4 DEF PhaseEnds, Phases
  <2>3. QED
    BY <1>1, <1>4, <2>1, <2>2 DEF PhaseEnds, SessionTypeOK
<1>5. CASE Restarted
  <2>1. PICK cps \in Seq(SecurityPoints), map \in BOOLEAN : Restart(File(cps), map)
    BY <1>5, RestartedWith
  <2>2. TypeOK'
    BY <2>1, NewAgent
  <2>3. Aggregate \in Aggregates
    BY <2>1 DEF Restart, SessionTypeOK
  <2>4. file' \in Seq(ModelLines) /\ from_map' \in BOOLEAN /\ phase' \in Phases
    BY <2>1, <2>3, FileType DEF Restart, Phases
  <2>5. before' \in [measurement : Seq(Extensions), status : [Points -> {"unknown", "valid", "invalid"}]]
    BY <2>1, ClassesType DEF Restart, SessionTypeOK, TypeOK
  <2>6. QED
    BY <1>1, <2>2, <2>4, <2>5 DEF SessionTypeOK
<1>6. CASE UNCHANGED allVars
  <2>1. TypeOK'
    BY <1>6, TypeStep DEF allVars, SessionTypeOK
  <2>2. QED
    BY <1>6, <2>1 DEF allVars, sessionVars, SessionTypeOK
<1>7. QED
  BY <1>2, <1>3, <1>4, <1>5, <1>6, SessionSteps

LEMMA SessionTypeInit == SessionInit => SessionTypeOK /\ logging
<1> SUFFICES ASSUME SessionInit PROVE SessionTypeOK /\ logging
  OBVIOUS
<1>1. TypeOK
  BY TypeInit DEF SessionInit
<1>2. file \in Seq(ModelLines) /\ <<>> \in Seq(Extensions)
  BY DEF SessionInit
<1>3. phase \in Phases /\ Aggregate \in Aggregates \cup {NoAggregate}
      /\ fresh \in BOOLEAN /\ from_map \in BOOLEAN
  BY DEF SessionInit, Phases
<1>4. before \in [measurement : Seq(Extensions), status : [Points -> {"unknown", "valid", "invalid"}]]
  BY <1>2, ClassesType DEF SessionInit
<1>5. logging
  BY DEF SessionInit, Init
<1>6. QED
  BY <1>1, <1>2, <1>3, <1>4, <1>5 DEF SessionTypeOK

\* The agent of an orchestrator logs, whatever process it is in.
LEMMA LoggingStep ==
  ASSUME SessionTypeOK, logging, [SessionNext]_allVars PROVE logging'
<1>1. CASE AgentCall
  BY <1>1 DEF AgentCall
<1>2. ASSUME NEW e \in ModelLines, LineLoaded(e) PROVE logging'
  BY <1>2, LoadLineIsLoad DEF LineLoaded
<1>3. CASE PhaseEnds \/ UNCHANGED allVars
  BY <1>3 DEF PhaseEnds, allVars, vars
<1>4. CASE Restarted
  BY <1>4 DEF Restarted, Restart
<1>5. QED
  BY <1>1, <1>2, <1>3, <1>4, SessionSteps

\* The points of either session are a set.
LEMMA SessionDistinctStep ==
  ASSUME SessionTypeOK, PointsDistinct, [SessionNext]_allVars PROVE PointsDistinct'
<1>0. TypeOK
  BY DEF SessionTypeOK
<1>1. CASE AgentCall
  BY <1>0, <1>1, DistinctStep DEF AgentCall
<1>2. ASSUME NEW e \in ModelLines, LineLoaded(e) PROVE PointsDistinct'
  <2>1. SamePoints \/ \E p \in Points : Gains(p)
    BY <1>0, <1>2, LinesTyped, LoadLineIsLoad, LoadedPoints DEF LineLoaded
  <2>2. QED
    BY <1>0, <2>1, DistinctPoints
<1>3. CASE PhaseEnds \/ UNCHANGED allVars
  BY <1>3 DEF PhaseEnds, allVars, vars, PointsDistinct
<1>4. CASE Restarted
  <2>1. points' = <<>>
    BY <1>4 DEF Restarted, Restart
  <2>2. DOMAIN points' = {}
    BY <2>1
  <2>3. QED
    BY <2>2 DEF PointsDistinct
<1>5. QED
  BY <1>1, <1>2, <1>3, <1>4, SessionSteps

-----------------------------------------------------------------------------
(* The first session.                                                      *)

FirstOnes(u) == [base |-> ZeroBase, value |-> u]

\* A session that loaded no model and took the kernel's aggregate before it was
\* sealed is measured by that aggregate and its points, in their order.
FirstInv ==
  (phase = "run" \/ phase = "load") /\ fresh /\ ~poisoned =>
      /\ base = ZeroBase
      /\ IF Aggregate = NoAggregate
           THEN ~sealed /\ points = <<>> /\ measurement = <<>> /\ aggregate = <<>>
           ELSE /\ aggregate = <<FirstOnes(Aggregate)>>
                /\ Len(measurement) = Len(points) + 1
                /\ measurement[1] = FirstOnes(Aggregate)
                /\ \A i \in DOMAIN points : measurement[i + 1] = FirstOnes(points[i].id)

\* An event, which comes after the aggregate, extends both or neither.
LEMMA FirstEvent ==
  ASSUME SessionTypeOK, FirstInv, NEW ev \in Events, add_event(ev)
  PROVE  FirstInv'
<1> SUFFICES ASSUME phase' = "run" \/ phase' = "load", fresh', ~poisoned' PROVE FirstInv'
  BY DEF FirstInv
<1>1. /\ UNCHANGED <<phase, fresh, Aggregate>> /\ Update(ev)
      /\ Aggregate # NoAggregate
  BY DEF add_event, sessionVars
<1>2. ~poisoned
  BY <1>1 DEF Update, UpdateMapped, UpdateNew, UpdateFails
<1>3. /\ base = ZeroBase /\ aggregate = <<FirstOnes(Aggregate)>>
      /\ Len(measurement) = Len(points) + 1
      /\ measurement[1] = FirstOnes(Aggregate)
      /\ \A i \in DOMAIN points : measurement[i + 1] = FirstOnes(points[i].id)
  BY <1>1, <1>2 DEF FirstInv
<1>4. aggregate # <<>>
  <2> DEFINE x == FirstOnes(Aggregate)
  <2> HIDE DEF x
  <2>1. <<x>> # <<>>
    OBVIOUS
  <2>2. QED
    BY <1>3, <2>1 DEF x
<1>5. AggregatedMeasurement = measurement
  BY <1>4 DEF AggregatedMeasurement
<1>6. TypeOK /\ points \in Seq(SecurityPoints) /\ measurement \in Seq(Extensions)
  BY DEF SessionTypeOK, TypeOK
<1>7. CASE UpdateMapped(ev)
  <2>1. SamePoints /\ points' \in Seq(SecurityPoints)
    BY <1>6, <1>7, EvaluateType, CountHitKeepsPoints, MappedPoints DEF UpdateMapped
  <2>2. UNCHANGED <<base, measurement, aggregate>>
    BY <1>4, <1>5, <1>7 DEF UpdateMapped, UseDefaultAggregate
  <2>3. Len(points') = Len(points)
    BY <1>6, <2>1, LenProperties DEF SamePoints
  <2>4. \A i \in DOMAIN points' : measurement'[i + 1] = FirstOnes(points'[i].id)
    BY <1>3, <2>1, <2>2 DEF SamePoints
  <2>5. QED
    BY <1>1, <1>3, <2>2, <2>3, <2>4 DEF FirstInv
<1>8. CASE UpdateNew(ev)
  <2> DEFINE p == Evaluate(ev)  e == [base |-> base, value |-> p]  n == Len(points)
  <2>1. p \in Points /\ Gains(p)
    BY <1>6, <1>8, EvaluateType, NewPoints
  <2>2. /\ n \in Nat /\ DOMAIN points = 1..n /\ DOMAIN points' = 1..(n + 1)
        /\ \A i \in DOMAIN points : points'[i] = points[i]
        /\ points'[n + 1].id = p /\ points' \in Seq(SecurityPoints)
    BY <1>6, <2>1, GainedPoint
  <2>3. measurement' = Append(measurement, e) /\ UNCHANGED <<base, aggregate>>
    BY <1>4, <1>5, <1>8 DEF UpdateNew, UseDefaultAggregate, Extend
  <2>4. e = FirstOnes(p)
    BY <1>3 DEF FirstOnes
  <2>5. e \in Extensions
    BY <1>6, <2>1 DEF TypeOK, Extensions
  <2> HIDE DEF p, e, n
  <2>6. /\ Len(measurement') = n + 2 /\ measurement'[n + 2] = e
        /\ \A i \in 1..(n + 1) : measurement'[i] = measurement[i]
    <3>1. Len(measurement) = n + 1 /\ n + 1 + 1 = n + 2
      BY <1>3, <2>2 DEF n
    <3>2. QED
      BY <1>6, <2>3, <2>5, <3>1, AppendProperties
  <2>7. Len(points') = n + 1
    BY <2>2, LenProperties
  <2>8. measurement'[1] = FirstOnes(Aggregate)
    <3>1. 1 \in 1..(n + 1)
      BY <2>2
    <3>2. QED
      BY <1>3, <2>6, <3>1
  <2>9. ASSUME NEW i \in DOMAIN points' PROVE measurement'[i + 1] = FirstOnes(points'[i].id)
    <3>1. CASE i \in 1..n
      <4>1. i + 1 \in 1..(n + 1)
        BY <2>2, <3>1
      <4>2. QED
        BY <1>3, <2>2, <2>6, <3>1, <4>1
    <3>2. CASE i = n + 1
      <4>1. i + 1 = n + 2
        BY <2>2, <3>2
      <4>2. QED
        BY <2>2, <2>4, <2>6, <3>2, <4>1
    <3>3. QED
      BY <2>2, <3>1, <3>2
  <2>10. Len(measurement') = Len(points') + 1
    BY <2>2, <2>6, <2>7
  <2>11. QED
    BY <1>1, <1>3, <2>3, <2>8, <2>9, <2>10 DEF FirstInv
<1>9. ~UpdateFails(ev)
  BY DEF UpdateFails
<1>10. QED
  BY <1>1, <1>7, <1>8, <1>9 DEF Update

\* The first aggregate starts the measurement, the others find it in force.
LEMMA FirstAggregate ==
  ASSUME SessionTypeOK, FirstInv, NEW a \in Aggregates, add_aggregate(a)
  PROVE  FirstInv'
<1> SUFFICES ASSUME phase' = "run" \/ phase' = "load", fresh', ~poisoned' PROVE FirstInv'
  BY DEF FirstInv
<1>1. /\ UNCHANGED <<phase, fresh, base, points, sealed, poisoned>>
      /\ Aggregate' = IF Aggregate = NoAggregate THEN a ELSE Aggregate
      /\ AdoptAggregate(Aggregate')
  BY DEF add_aggregate, SetAggregate
<1>2. base = ZeroBase /\ Aggregate' # NoAggregate
  BY <1>1, FileAssumption DEF FirstInv
<1>3. Extend(<<>>, Aggregate') = <<FirstOnes(Aggregate')>>
  BY <1>2 DEF Extend, FirstOnes
<1>4. CASE Aggregate = NoAggregate
  <2>1. ~sealed /\ points = <<>> /\ aggregate = <<>>
    BY <1>1, <1>4 DEF FirstInv
  <2> DEFINE x == FirstOnes(Aggregate')
  <2>2. Extend(<<>>, Aggregate') = <<x>>
    BY <1>3
  <2> HIDE DEF x
  <2>3. <<x>> # <<>> /\ Len(<<x>>) = 1 /\ <<x>>[1] = x
    OBVIOUS
  <2>4. aggregate' = <<x>> /\ measurement' = <<x>>
    BY <1>1, <2>1, <2>2, <2>3 DEF AdoptAggregate
  <2>5. points' = <<>> /\ Len(<<>>) = 0 /\ DOMAIN <<>> = {}
    BY <1>1, <2>1, EmptySeq
  <2>6. Len(measurement') = Len(points') + 1 /\ measurement'[1] = x
    BY <2>3, <2>4, <2>5
  <2>7. \A i \in DOMAIN points' : measurement'[i + 1] = FirstOnes(points'[i].id)
    BY <2>5
  <2>8. QED
    BY <1>1, <1>2, <2>4, <2>6, <2>7 DEF FirstInv, x
<1>5. CASE Aggregate # NoAggregate
  <2>1. Aggregate' = Aggregate /\ aggregate = <<FirstOnes(Aggregate)>>
    BY <1>1, <1>5 DEF FirstInv
  <2>2. UNCHANGED <<aggregate, measurement>>
    BY <1>1, <1>3, <2>1 DEF AdoptAggregate
  <2>3. QED
    BY <1>1, <1>5, <2>1, <2>2 DEF FirstInv
<1>6. QED
  BY <1>4, <1>5

LEMMA FirstStep ==
  ASSUME SessionTypeOK, FirstInv, [SessionNext]_allVars
  PROVE  FirstInv'
<1>1. ASSUME NEW entry \in Entries, LoadFirst(entry) PROVE FirstInv'
  BY <1>1 DEF LoadFirst, FirstInv
<1>2. CASE Fire
  BY <1>2 DEF Fire, FirstInv, vars
<1>3. CASE CommandSeal
  <2>1. /\ fresh' => fresh /\ (phase = "run" => Aggregate # NoAggregate)
        /\ phase = "run" \/ phase = "rerun"
        /\ UNCHANGED <<phase, Aggregate, poisoned, base, points, measurement, aggregate>>
    BY <1>3 DEF CommandSeal, Seal, Running
  <2>2. QED
    BY <2>1 DEF FirstInv
<1>4. CASE output_model \/ send_map
  BY <1>4 DEF output_model, send_map, Restart, FirstInv
<1>5. CASE load_model
  BY <1>5 DEF load_model, FirstInv
<1>6. CASE UNCHANGED allVars
  BY <1>6 DEF allVars, vars, sessionVars, FirstInv
<1>7. QED
  BY <1>1, <1>2, <1>3, <1>4, <1>5, <1>6, FirstEvent, FirstAggregate DEF SessionNext

-----------------------------------------------------------------------------
(* What the second session holds to be valid.                              *)

WasValid(p) == before.status[p] = "valid"

\* What the file was written from: a line of the file or a point for whatever
\* was valid, and, when the console wrote it, for nothing else.
KnownInv ==
  phase = "reload" \/ phase = "rerun" =>
    /\ \A i \in DOMAIN points : WasValid(points[i].id) => points[i].valid
    /\ from_map => \A i \in DOMAIN points : points[i].valid => WasValid(points[i].id)
    /\ \A p \in Points : WasValid(p) => \/ \E i \in DOMAIN points : points[i].id = p
                                        \/ \E j \in DOMAIN file : file[j] = StateLine(p)
    /\ sealed \/ \E j \in DOMAIN file : file[j].cmd = "seal"

\* Nothing is invalid, and no event has been judged, while the file is loaded.
LoadingInv ==
  /\ phase = "reload" =>
       /\ verdict = NoVerdict
       /\ \A i \in DOMAIN points : points[i].valid
       /\ from_map => \A j \in DOMAIN file : file[j].cmd = "state" => WasValid(file[j].arg)
  /\ phase = "rerun" => file = <<>>

\* The verdicts of the second session are those of the first.
JudgedInv ==
  (phase = "reload" \/ phase = "rerun") /\ from_map /\ verdict # NoVerdict =>
      verdict.sealed /\ (verdict.discipline <=> ~WasValid(verdict.point))

ClassInv == KnownInv /\ LoadingInv /\ JudgedInv

\* The file that is written holds the valid points, and a seal.
LEMMA ClassRestart ==
  ASSUME SessionTypeOK, PointsDistinct, Restarted
  PROVE  ClassInv'
<1>1. PICK cps \in Seq(SecurityPoints), map \in BOOLEAN :
        /\ Restart(File(cps), map)
        /\ ToSet(cps) \subseteq ToSet(points)
        /\ \A i \in DOMAIN points : points[i].valid => points[i] \in ToSet(cps)
        /\ map => \A i \in DOMAIN cps : cps[i].valid
  BY RestartedWith
<1> DEFINE n == Len(cps)  f == File(cps)
<1>2. /\ DOMAIN f = 1..(n + 3) /\ n \in Nat
      /\ f[1] = AggregateLine /\ f[n + 2] = SealLine /\ f[n + 3] = EndLine
      /\ \A i \in 1..n : f[i + 1] = StateLine(cps[i].id)
  BY FileLines
<1>3. DOMAIN cps = 1..n
  BY LenProperties
<1>4. /\ file' = f /\ from_map' = map /\ phase' = "reload" /\ points' = <<>>
      /\ verdict' = NoVerdict /\ before'.status = Classes
  BY <1>1 DEF Restart
<1> HIDE DEF n, f
<1>5. DOMAIN points' = {}
  BY <1>4
<1>6. ASSUME NEW p \in Points, WasValid(p)' PROVE \E j \in DOMAIN file' : file'[j] = StateLine(p)
  <2>1. StatusOf(p) = "valid"
    BY <1>4, <1>6 DEF WasValid, Classes
  <2>2. PICK i \in DOMAIN points : points[i].id = p /\ points[i].valid
    BY <2>1 DEF StatusOf, Mapped
  <2>3. PICK k \in DOMAIN cps : cps[k] = points[i]
    BY <1>1, <2>2 DEF ToSet
  <2>4. k + 1 \in DOMAIN f /\ f[k + 1] = StateLine(p)
    BY <1>2, <1>3, <2>2, <2>3
  <2>5. QED
    BY <1>4, <2>4
<1>7. n + 2 \in DOMAIN f /\ f[n + 2].cmd = "seal"
  BY <1>2 DEF SealLine
<1>8. ASSUME map, NEW j \in DOMAIN f, f[j].cmd = "state" PROVE Classes[f[j].arg] = "valid"
  <2>1. j # 1 /\ j # n + 2 /\ j # n + 3
    BY <1>2, <1>8 DEF AggregateLine, SealLine, EndLine
  <2>2. PICK k \in 1..n : j = k + 1
    <3>1. j - 1 \in 1..n /\ j = j - 1 + 1
      BY <1>2, <2>1
    <3>2. QED
      BY <3>1
  <2>3. f[j].arg = cps[k].id
    <3>1. f[j] = StateLine(cps[k].id)
      BY <1>2, <2>2
    <3>2. QED
      BY <3>1 DEF StateLine
  <2>10. cps[k].valid
    BY <1>1, <1>3, <1>8
  <2>4. PICK i \in DOMAIN points : points[i] = cps[k]
    BY <1>1, <1>3 DEF ToSet
  <2>5. cps[k].id \in Points
    <3>1. cps[k] \in SecurityPoints
      BY DEF n
    <3>2. QED
      BY <3>1 DEF SecurityPoints
  <2>6. i \in Mapped(cps[k].id) /\ \A l \in Mapped(cps[k].id) : l = i
    BY <2>4 DEF Mapped, PointsDistinct
  <2>7. StatusOf(cps[k].id) = "valid"
    BY <2>4, <2>6, <2>10 DEF StatusOf
  <2>8. Classes[cps[k].id] = "valid"
    BY <2>5, <2>7 DEF Classes
  <2>9. QED
    BY <2>3, <2>8
<1>9. KnownInv'
  <2>1. \E j \in DOMAIN file' : file'[j].cmd = "seal"
    BY <1>4, <1>7
  <2>2. \A p \in Points : WasValid(p)' => \E j \in DOMAIN file' : file'[j] = StateLine(p)
    BY <1>6
  <2>3. QED
    BY <1>5, <2>1, <2>2 DEF KnownInv
<1>10. LoadingInv'
  <2>1. from_map' => \A j \in DOMAIN file' : file'[j].cmd = "state" => WasValid(file[j].arg)'
    BY <1>4, <1>8 DEF WasValid
  <2>2. QED
    BY <1>4, <1>5, <2>1 DEF LoadingInv
<1>11. JudgedInv'
  BY <1>4 DEF JudgedInv
<1>12. QED
  BY <1>9, <1>10, <1>11 DEF ClassInv

\* What a line does to the points: a state line is a point afterwards, any other
\* leaves them alone.
LEMMA LineTaken ==
  ASSUME TypeOK, NEW e \in ModelLines, LoadLine(e)
  PROVE  /\ e.cmd # "state" => UNCHANGED points
         /\ e.cmd = "state" =>
              /\ e.arg \in Points
              /\ \/ SamePoints /\ Mapped(e.arg) # {}
                 \/ Gains(e.arg) /\ ~sealed
         /\ e.cmd = "seal" => sealed'
         /\ sealed => sealed'
<1>1. e.cmd # "state" => UNCHANGED points
  BY DEF LoadLine, LoadBase, LoadAggregate, LoadState, LoadPseudonym, LoadSeal, LoadEnd
<1>2. (e.cmd = "seal" => sealed') /\ (sealed => sealed')
  BY DEF LoadLine, LoadBase, LoadAggregate, LoadState, LoadPseudonym, LoadSeal, LoadEnd
<1>3. ASSUME e.cmd = "state"
      PROVE  e.arg \in Points /\ ((SamePoints /\ Mapped(e.arg) # {}) \/ (Gains(e.arg) /\ ~sealed))
  <2>1. LoadState(e)
    BY <1>3 DEF LoadLine, LoadBase, LoadAggregate, LoadPseudonym, LoadSeal, LoadEnd
  <2>2. e.arg \in Points
    BY <1>3, <2>1, LinesTyped, EntryType DEF LoadState
  <2>3. CASE Mapped(e.arg) # {}
    BY <2>1, <2>2, <2>3, CountHitKeepsPoints DEF LoadState, SamePoints
  <2>4. CASE Mapped(e.arg) = {}
    <3>1. points' = Append(points, [id |-> e.arg, count |-> 0, valid |-> ~sealed]) /\ ~sealed
      BY <2>1, <2>4 DEF LoadState
    <3>2. Gains(e.arg)
      BY <2>4, <3>1 DEF Gains
    <3>3. QED
      BY <2>2, <3>1, <3>2
  <2>5. QED
    BY <2>2, <2>3, <2>4
<1>4. QED
  BY <1>1, <1>2, <1>3

\* A line becomes a point; nothing else changes.
LEMMA ClassLine ==
  ASSUME SessionTypeOK, ClassInv, NEW e \in ModelLines, LineLoaded(e)
  PROVE  ClassInv'
<1>0. /\ TypeOK /\ file \in Seq(ModelLines) /\ file # <<>>
      /\ phase = "reload" /\ phase' = "reload" /\ LoadLine(e)
      /\ UNCHANGED <<from_map, before, verdict>>
  BY LoadLineIsLoad DEF SessionTypeOK, LineLoaded
<1>1. /\ e = file[1] /\ 1 \in DOMAIN file
      /\ \A j \in DOMAIN file' : j + 1 \in DOMAIN file /\ file'[j] = file[j + 1]
      /\ \A j \in DOMAIN file : j = 1 \/ \E k \in DOMAIN file' : file[j] = file'[k]
  <2> DEFINE n == Len(file)
  <2>1. /\ file' = Tail(file) /\ e = Head(file) /\ n \in Nat /\ n # 0 /\ DOMAIN file = 1..n
    BY <1>0, EmptySeq, LenProperties DEF LineLoaded
  <2>2. Tail(file) \in Seq(ModelLines) /\ Len(Tail(file)) = n - 1
        /\ \A i \in 1..(n - 1) : Tail(file)[i] = file[i + 1]
    BY <1>0, HeadTailProperties
  <2>3. Head(file) = file[1]
    BY <1>0
  <2>4. DOMAIN Tail(file) = 1..(n - 1)
    BY <2>2, LenProperties
  <2> HIDE DEF n
  <2>5. \A j \in 1..(n - 1) : j + 1 \in 1..n
    BY <2>1
  <2>6. \A j \in 1..n : j = 1 \/ (j - 1 \in 1..(n - 1) /\ j - 1 + 1 = j)
    BY <2>1
  <2>7. 1 \in 1..n
    BY <2>1
  <2>8. ASSUME NEW j \in DOMAIN file, j # 1 PROVE \E k \in DOMAIN file' : file[j] = file'[k]
    <3>1. j - 1 \in DOMAIN file' /\ file'[j - 1] = file[j]
      BY <2>1, <2>2, <2>4, <2>6, <2>8
    <3>2. QED
      BY <3>1
  <2>9. QED
    BY <2>1, <2>2, <2>3, <2>4, <2>5, <2>7, <2>8
<1>2. /\ \A i \in DOMAIN points : points[i].valid
      /\ \A i \in DOMAIN points : from_map => WasValid(points[i].id)
      /\ verdict = NoVerdict
      /\ from_map /\ e.cmd = "state" => WasValid(e.arg)
      /\ from_map => \A j \in DOMAIN file : file[j].cmd = "state" => WasValid(file[j].arg)
  BY <1>0, <1>1 DEF ClassInv, KnownInv, LoadingInv
<1>3. \A p : WasValid(p)' = WasValid(p)
  BY <1>0 DEF WasValid
<1>4. \/ UNCHANGED points /\ e.cmd # "state"
      \/ SamePoints /\ e.cmd = "state" /\ Mapped(e.arg) # {}
      \/ Gains(e.arg) /\ e.cmd = "state" /\ ~sealed /\ e.arg \in Points
  BY <1>0, LineTaken
\* The points are those there were, and the line's.
<1>5. /\ \A i \in DOMAIN points' : /\ points'[i].valid
                                   /\ from_map => WasValid(points'[i].id)
      /\ \A i \in DOMAIN points : \E k \in DOMAIN points' : points'[k].id = points[i].id
      /\ e.cmd = "state" => \E k \in DOMAIN points' : points'[k].id = e.arg
  <2>1. CASE UNCHANGED points /\ e.cmd # "state"
    BY <1>2, <2>1
  <2>2. CASE SamePoints /\ e.cmd = "state" /\ Mapped(e.arg) # {}
    BY <1>2, <2>2 DEF SamePoints, Mapped
  <2>3. CASE Gains(e.arg) /\ e.cmd = "state" /\ ~sealed /\ e.arg \in Points
    <3> DEFINE n == Len(points)
    <3>1. /\ n \in Nat /\ DOMAIN points = 1..n /\ DOMAIN points' = 1..(n + 1)
          /\ \A i \in DOMAIN points : points'[i] = points[i]
          /\ points'[n + 1].id = e.arg /\ points'[n + 1].valid = ~sealed
      BY <1>0, <2>3, GainedPoint
    <3> HIDE DEF n
    <3>2. n + 1 \in 1..(n + 1) /\ \A i \in 1..n : i \in 1..(n + 1)
      BY <3>1
    <3>3. \A i \in 1..(n + 1) : i \in 1..n \/ i = n + 1
      BY <3>1
    <3>4. \A i \in DOMAIN points' : points'[i].valid /\ (from_map => WasValid(points'[i].id))
      BY <1>2, <2>3, <3>1, <3>3
    <3>5. QED
      BY <3>1, <3>2, <3>4
  <2>4. QED
    BY <1>4, <2>1, <2>2, <2>3
<1>6. ASSUME NEW p \in Points, WasValid(p)
      PROVE  \/ \E i \in DOMAIN points' : points'[i].id = p
             \/ \E j \in DOMAIN file' : file'[j] = StateLine(p)
  <2>1. CASE \E i \in DOMAIN points : points[i].id = p
    BY <1>5, <2>1
  <2>2. ASSUME NEW j \in DOMAIN file, file[j] = StateLine(p)
        PROVE  \/ \E i \in DOMAIN points' : points'[i].id = p
               \/ \E k \in DOMAIN file' : file'[k] = StateLine(p)
    <3>1. CASE j = 1
      <4>1. e.cmd = "state" /\ e.arg = p
        BY <1>1, <2>2, <3>1 DEF StateLine
      <4>2. QED
        BY <1>5, <4>1
    <3>2. CASE j # 1
      BY <1>1, <2>2, <3>2
    <3>3. QED
      BY <3>1, <3>2
  <2>3. QED
    BY <1>0, <1>6, <2>1, <2>2 DEF ClassInv, KnownInv
<1>7. sealed' \/ \E j \in DOMAIN file' : file'[j].cmd = "seal"
  <2>1. CASE sealed
    BY <1>0, <2>1, LineTaken
  <2>2. ASSUME NEW j \in DOMAIN file, file[j].cmd = "seal"
        PROVE  sealed' \/ \E k \in DOMAIN file' : file'[k].cmd = "seal"
    <3>1. CASE j = 1
      BY <1>0, <1>1, <2>2, <3>1, LineTaken
    <3>2. CASE j # 1
      <4>1. PICK k \in DOMAIN file' : file[j] = file'[k]
        BY <1>1, <3>2
      <4>2. QED
        BY <2>2, <4>1
    <3>3. QED
      BY <3>1, <3>2
  <2>3. QED
    BY <1>0, <2>1, <2>2 DEF ClassInv, KnownInv
<1>8. from_map => \A j \in DOMAIN file' : file'[j].cmd = "state" => WasValid(file'[j].arg)
  BY <1>1, <1>2
<1>9. KnownInv'
  BY <1>0, <1>3, <1>5, <1>6, <1>7 DEF KnownInv
<1>10. LoadingInv'
  BY <1>0, <1>2, <1>3, <1>5, <1>8 DEF LoadingInv
<1>11. JudgedInv'
  BY <1>0, <1>2 DEF JudgedInv
<1>12. QED
  BY <1>9, <1>10, <1>11 DEF ClassInv

\* A point that a sealed model gains is invalid, and was not valid before.
LEMMA KnownGains ==
  ASSUME TypeOK, KnownInv, phase = "rerun", file = <<>>, sealed, sealed',
         UNCHANGED <<phase, file, from_map, before>>,
         SamePoints \/ \E p \in Points : Gains(p)
  PROVE  KnownInv'
<1>1. \A p : WasValid(p)' = WasValid(p)
  BY DEF WasValid
<1>2. /\ \A i \in DOMAIN points : WasValid(points[i].id) => points[i].valid
      /\ from_map => \A i \in DOMAIN points : points[i].valid => WasValid(points[i].id)
      /\ \A p \in Points : WasValid(p) => \E i \in DOMAIN points : points[i].id = p
  BY DEF KnownInv
<1>3. CASE SamePoints
  <2>1. /\ DOMAIN points' = DOMAIN points
        /\ \A i \in DOMAIN points : points'[i].id = points[i].id /\ points'[i].valid = points[i].valid
    BY <1>3 DEF SamePoints
  <2>2. QED
    BY <1>1, <1>2, <2>1 DEF KnownInv
<1>4. ASSUME NEW p \in Points, Gains(p) PROVE KnownInv'
  <2> DEFINE n == Len(points)
  <2>1. /\ n \in Nat /\ DOMAIN points = 1..n /\ DOMAIN points' = 1..(n + 1)
        /\ \A i \in DOMAIN points : points'[i] = points[i]
        /\ points'[n + 1].id = p /\ points'[n + 1].valid = ~sealed
    BY <1>4, GainedPoint
  <2> HIDE DEF n
  <2>2. ~WasValid(p)
    BY <1>2, <1>4 DEF Gains, Mapped
  <2>3. \A i \in 1..(n + 1) : i \in 1..n \/ i = n + 1
    BY <2>1
  <2>4. \A i \in 1..n : i \in 1..(n + 1)
    BY <2>1
  <2>5. /\ \A i \in DOMAIN points' : WasValid(points'[i].id) => points'[i].valid
        /\ from_map => \A i \in DOMAIN points' : points'[i].valid => WasValid(points'[i].id)
        /\ \A q \in Points : WasValid(q) => \E i \in DOMAIN points' : points'[i].id = q
    <3>1. \A i \in DOMAIN points' : i \in DOMAIN points \/ i = n + 1
      BY <2>1, <2>3
    <3>2. \A i \in DOMAIN points' : WasValid(points'[i].id) => points'[i].valid
      BY <1>2, <2>1, <2>2, <3>1
    <3>3. ~points'[n + 1].valid
      BY <2>1
    <3>4. from_map => \A i \in DOMAIN points' : points'[i].valid => WasValid(points'[i].id)
      BY <1>2, <2>1, <3>1, <3>3
    <3>5. \A i \in DOMAIN points : i \in DOMAIN points' /\ points'[i].id = points[i].id
      BY <2>1, <2>4
    <3>6. \A q \in Points : WasValid(q) => \E i \in DOMAIN points' : points'[i].id = q
      BY <1>2, <3>5
    <3>7. QED
      BY <3>2, <3>4, <3>6
  <2>6. QED
    BY <1>1, <2>5 DEF KnownInv
<1>5. QED
  BY <1>3, <1>4

\* An event is judged by the points there are.
LEMMA JudgedEvent ==
  ASSUME SessionTypeOK, ClassInv, phase = "rerun", sealed,
         NEW ev \in Events, Update(ev), UNCHANGED <<from_map, before>>
  PROVE  JudgedInv'
<1>0. PICK p : p = Evaluate(ev)
  OBVIOUS
<1>1. file = <<>> /\ p \in Points /\ sealed \in BOOLEAN
  BY <1>0, EvaluateType DEF ClassInv, LoadingInv, SessionTypeOK, TypeOK
<1>2. WasValid(p)' = WasValid(p)
  BY DEF WasValid
<1>3. CASE UpdateFails(ev)
  BY <1>3 DEF UpdateFails, JudgedInv
<1>4. CASE UpdateMapped(ev)
  <2>1. verdict' = [point |-> p, discipline |-> Disciplined(p), sealed |-> sealed] /\ Mapped(p) # {}
    BY <1>0, <1>4 DEF UpdateMapped
  <2>2. ASSUME from_map PROVE Disciplined(p) <=> ~WasValid(p)
    <3>1. /\ \A i \in DOMAIN points : WasValid(points[i].id) => points[i].valid
          /\ \A i \in DOMAIN points : points[i].valid => WasValid(points[i].id)
      BY <2>2 DEF ClassInv, KnownInv
    <3>2. \A i \in Mapped(p) : points[i].valid <=> WasValid(p)
      BY <3>1 DEF Mapped
    <3>3. QED
      BY <2>1, <3>2 DEF Disciplined
  <2>3. verdict'.point = p /\ verdict'.discipline = Disciplined(p) /\ verdict'.sealed
    BY <2>1
  <2>4. QED
    BY <1>2, <2>2, <2>3 DEF JudgedInv, WasValid
<1>5. CASE UpdateNew(ev)
  <2>1. verdict' = [point |-> p, discipline |-> sealed, sealed |-> sealed] /\ Mapped(p) = {}
    BY <1>0, <1>5 DEF UpdateNew
  <2>2. ~WasValid(p)
    BY <1>1, <2>1 DEF ClassInv, KnownInv, Mapped
  <2>3. verdict'.point = p /\ verdict'.discipline /\ verdict'.sealed
    BY <2>1
  <2>4. QED
    BY <1>2, <2>2, <2>3 DEF JudgedInv, WasValid
<1>6. QED
  BY <1>3, <1>4, <1>5 DEF Update

\* What the second session can still do.
LEMMA RerunSteps ==
  ASSUME [SessionNext]_allVars, phase = "rerun"
  PROVE  \/ \E ev \in Events : add_event(ev)
         \/ \E a \in Aggregates : add_aggregate(a)
         \/ CommandSeal
         \/ UNCHANGED allVars
BY DEF SessionNext, LoadFirst, Fire, output_model, send_map, Restart, load_model

LEMMA ClassRerun ==
  ASSUME SessionTypeOK, ClassInv, phase = "rerun", [SessionNext]_allVars
  PROVE  ClassInv'
<1>1. TypeOK /\ file = <<>> /\ sealed
  BY DEF SessionTypeOK, ClassInv, LoadingInv, KnownInv
<1>2. ASSUME NEW ev \in Events, add_event(ev) PROVE ClassInv'
  <2>1. UNCHANGED <<phase, file, from_map, before>> /\ Update(ev)
    BY <1>2 DEF add_event, sessionVars
  <2>2. sealed'
    BY <1>1, <2>1 DEF Update, UpdateMapped, UpdateNew, UpdateFails
  <2>3. SamePoints \/ \E p \in Points : Gains(p)
    <3>1. [Next]_vars
      BY <2>1 DEF Next
    <3>2. QED
      BY <1>1, <3>1, PointsStep
  <2>4. KnownInv'
    BY <1>1, <2>1, <2>2, <2>3, KnownGains DEF ClassInv
  <2>5. JudgedInv'
    BY <1>1, <2>1, JudgedEvent
  <2>6. LoadingInv'
    BY <1>1, <2>1 DEF LoadingInv
  <2>7. QED
    BY <2>4, <2>5, <2>6 DEF ClassInv
<1>3. ASSUME \/ \E a \in Aggregates : add_aggregate(a)
             \/ CommandSeal \/ UNCHANGED allVars
      PROVE  ClassInv'
  <2>1. UNCHANGED <<phase, file, from_map, before, points, verdict>> /\ sealed'
    BY <1>1, <1>3 DEF add_aggregate, SetAggregate, CommandSeal, Seal, allVars, vars, sessionVars, eventVars
  <2>2. KnownInv'
    BY <1>1, <2>1, UnchangedIsSame, KnownGains DEF ClassInv
  <2>3. JudgedInv' /\ LoadingInv'
    BY <1>1, <2>1 DEF ClassInv, JudgedInv, LoadingInv, WasValid
  <2>4. QED
    BY <2>2, <2>3 DEF ClassInv
<1>4. QED
  BY <1>2, <1>3, RerunSteps

LEMMA ClassStep ==
  ASSUME SessionTypeOK, PointsDistinct, ClassInv, [SessionNext]_allVars
  PROVE  ClassInv'
<1>1. CASE AgentCall
  <2>1. CASE phase = "rerun"
    BY <2>1, ClassRerun
  <2>2. CASE phase # "rerun"
    <3>1. phase' # "rerun" /\ phase' # "reload"
      BY <1>1, <2>2 DEF AgentCall
    <3>2. QED
      BY <3>1 DEF ClassInv, KnownInv, LoadingInv, JudgedInv
  <2>3. QED
    BY <2>1, <2>2
<1>2. ASSUME NEW e \in ModelLines, LineLoaded(e) PROVE ClassInv'
  BY <1>2, ClassLine
<1>3. CASE PhaseEnds
  <2>1. CASE phase = "load"
    BY <1>3, <2>1 DEF PhaseEnds, ClassInv, KnownInv, LoadingInv, JudgedInv
  <2>2. CASE phase = "reload"
    <3>1. /\ phase' = "rerun" /\ file' = <<>> /\ file = <<>>
          /\ UNCHANGED <<points, sealed, verdict, from_map, before>>
      BY <1>3, <2>2 DEF PhaseEnds, vars
    <3>2. QED
      BY <2>2, <3>1 DEF ClassInv, KnownInv, LoadingInv, JudgedInv, WasValid
  <2>3. QED
    BY <1>3, <2>1, <2>2 DEF PhaseEnds
<1>4. CASE Restarted
  BY <1>4, ClassRestart
<1>5. CASE UNCHANGED allVars
  BY <1>5 DEF allVars, vars, sessionVars, ClassInv, KnownInv, LoadingInv, JudgedInv, WasValid
<1>6. QED
  BY <1>1, <1>2, <1>3, <1>4, <1>5, SessionSteps

-----------------------------------------------------------------------------
(* The measurement of the second session.                                  *)

\* The lines that are loaded.
Loaded == Len(before.measurement) + 2 - Len(file)

\* The i-th line of the file of a session that loaded none.
LineAt(line, i) ==
  /\ i = 1 => line.cmd = "aggregate" /\ line.arg = before.measurement[1].value
  /\ i \in 2..Len(before.measurement) => line = StateLine(before.measurement[i].value)
  /\ i > Len(before.measurement) => line.cmd \in {"seal", "end"}

\* What the first session was measured by: an aggregate and its points.
BeforeInv ==
  /\ Len(before.measurement) >= 1
  /\ before.measurement[1].value \in Aggregates
  /\ \A i \in 1..Len(before.measurement) : before.measurement[i].base = ZeroBase
  /\ \A i \in 2..Len(before.measurement) : before.measurement[i].value \in Points
  /\ \A i, j \in 2..Len(before.measurement) :
       before.measurement[i].value = before.measurement[j].value => i = j

\* The lines that are left, and what those before them have made of the agent.
FileInv ==
  /\ ~poisoned
  /\ base = ZeroBase
  /\ Len(file) <= Len(before.measurement) + 2
  /\ \A j \in 1..Len(file) : LineAt(file[j], Loaded + j)
  /\ \/ Len(measurement) = Loaded
     \/ Len(measurement) = Len(before.measurement) /\ Loaded > Len(before.measurement)
  /\ Len(measurement) <= Len(before.measurement)
  /\ \A i \in 1..Len(measurement) : measurement[i] = before.measurement[i]
  /\ \A i \in DOMAIN points : \E k \in 2..Len(measurement) : before.measurement[k].value = points[i].id
  /\ Len(measurement) = 0 => aggregate = <<>> /\ ~sealed
  /\ Len(measurement) # 0 => aggregate # <<>>

MeasuredInv ==
  /\ phase = "reload" /\ fresh /\ ~from_map => BeforeInv /\ FileInv
  /\ phase = "rerun" /\ fresh /\ ~from_map /\ ~poisoned =>
       /\ aggregate # <<>>
       /\ forensics = <<>> => measurement = before.measurement

\* The file lists what the measurement was extended with.
LEMMA MeasuredRestart ==
  ASSUME SessionTypeOK, PointsDistinct, FirstInv, Restarted
  PROVE  MeasuredInv'
<1>1. PICK cps \in Seq(SecurityPoints), map \in BOOLEAN :
        Restart(File(cps), map) /\ (~map => cps = points)
  BY RestartedWith
<1>2. phase' = "reload" /\ from_map' = map /\ fresh' = fresh
  BY <1>1 DEF Restart
<1> SUFFICES ASSUME fresh, ~map PROVE BeforeInv' /\ FileInv'
  BY <1>2 DEF MeasuredInv
<1> DEFINE n == Len(points)  f == File(points)
<1>3. /\ DOMAIN f = 1..(n + 3) /\ Len(f) = n + 3 /\ n \in Nat
      /\ f[1] = AggregateLine /\ f[n + 2] = SealLine /\ f[n + 3] = EndLine
      /\ \A i \in 1..n : f[i + 1] = StateLine(points[i].id)
  BY FileLines DEF SessionTypeOK, TypeOK
<1>4. /\ file' = f /\ before'.measurement = measurement /\ poisoned' = FALSE /\ base' = ZeroBase
      /\ measurement' = <<>> /\ points' = <<>> /\ aggregate' = <<>> /\ sealed' = FALSE
      /\ ~poisoned /\ Aggregate # NoAggregate /\ phase = "run"
  BY <1>1 DEF Restart
<1>5. /\ Aggregate \in Aggregates /\ measurement \in Seq(Extensions)
      /\ DOMAIN points = 1..n /\ \A i \in 1..n : points[i].id \in Points
  <2>1. points \in Seq(SecurityPoints)
    BY DEF SessionTypeOK, TypeOK
  <2>2. \A q \in SecurityPoints : q.id \in Points
    BY DEF SecurityPoints
  <2>3. QED
    BY <1>4, <2>1, <2>2, LenProperties DEF SessionTypeOK, TypeOK
<1> HIDE DEF n, f
<1>6. /\ Len(measurement) = n + 1 /\ measurement[1] = FirstOnes(Aggregate)
      /\ \A i \in 1..n : measurement[i + 1] = FirstOnes(points[i].id)
  BY <1>4, <1>5 DEF FirstInv, n
<1>7. ASSUME NEW i \in 2..(n + 1)
      PROVE  /\ i - 1 \in 1..n /\ i - 1 + 1 = i
             /\ measurement[i] = FirstOnes(points[i - 1].id)
  <2>1. i - 1 \in 1..n /\ i - 1 + 1 = i
    BY <1>3
  <2>2. QED
    BY <1>6, <2>1
<1>8. BeforeInv'
  <2>1. n + 1 >= 1 /\ measurement[1].value = Aggregate /\ measurement[1].base = ZeroBase
    BY <1>3, <1>6 DEF FirstOnes
  <2>2. \A i \in 1..(n + 1) : i = 1 \/ i \in 2..(n + 1)
    BY <1>3
  <2>3. ASSUME NEW i \in 2..(n + 1)
        PROVE  measurement[i].base = ZeroBase /\ measurement[i].value = points[i - 1].id
    <3>1. measurement[i] = FirstOnes(points[i - 1].id)
      BY <1>7
    <3>2. QED
      BY <3>1 DEF FirstOnes
  <2>4. \A i \in 2..(n + 1) : measurement[i].value \in Points
    BY <1>5, <1>7, <2>3
  <2>5. ASSUME NEW i \in 2..(n + 1), NEW j \in 2..(n + 1), measurement[i].value = measurement[j].value
        PROVE  i = j
    <3>1. i - 1 = j - 1
      BY <1>5, <1>7, <2>3, <2>5 DEF PointsDistinct
    <3>2. QED
      BY <1>3, <3>1
  <2>6. \A i \in 1..(n + 1) : measurement[i].base = ZeroBase
    BY <2>1, <2>2, <2>3
  <2>7. QED
    BY <1>4, <1>5, <1>6, <2>1, <2>4, <2>5, <2>6 DEF BeforeInv
<1>9. FileInv'
  <2>1. Loaded' = 0 /\ Len(before'.measurement) = n + 1 /\ Len(file') = n + 3
    <3>1. Len(before'.measurement) = n + 1 /\ Len(file') = n + 3 /\ n \in Nat
      BY <1>3, <1>4, <1>6
    <3>2. QED
      BY <3>1 DEF Loaded
  <2>2. ASSUME NEW j \in 1..(n + 3)
        PROVE  /\ j = 1 => f[j].cmd = "aggregate" /\ f[j].arg = measurement[1].value
               /\ j \in 2..(n + 1) => f[j] = StateLine(measurement[j].value)
               /\ j > n + 1 => f[j].cmd \in {"seal", "end"}
    <3>1. j = 1 => f[j].cmd = "aggregate" /\ f[j].arg = measurement[1].value
      BY <1>3, <1>6 DEF AggregateLine, FirstOnes
    <3>2. ASSUME j \in 2..(n + 1) PROVE f[j] = StateLine(measurement[j].value)
      <4>1. j - 1 \in 1..n /\ j - 1 + 1 = j /\ measurement[j] = FirstOnes(points[j - 1].id)
        BY <1>7, <3>2
      <4>2. measurement[j].value = points[j - 1].id
        BY <4>1 DEF FirstOnes
      <4>3. f[j - 1 + 1] = StateLine(points[j - 1].id)
        BY <1>3, <4>1
      <4>4. QED
        BY <4>1, <4>2, <4>3
    <3>3. j > n + 1 => f[j].cmd \in {"seal", "end"}
      <4>1. j > n + 1 => j = n + 2 \/ j = n + 3
        BY <1>3
      <4>2. SealLine.cmd = "seal" /\ EndLine.cmd = "end"
        BY DEF SealLine, EndLine
      <4>3. QED
        BY <1>3, <4>1, <4>2
    <3>4. QED
      BY <3>1, <3>2, <3>3
  <2>3. Len(<<>>) = 0 /\ DOMAIN <<>> = {}
    BY EmptySeq
  <2>4. \A j \in 1..(n + 3) : Loaded' + j = j
    BY <1>3, <2>1
  <2>5. (\A j \in 1..Len(file) : LineAt(file[j], Loaded + j))'
    BY <1>4, <2>1, <2>2, <2>4 DEF LineAt, StateLine
  <2>6. QED
    BY <1>3, <1>4, <2>1, <2>3, <2>5 DEF FileInv
<1>10. QED
  BY <1>8, <1>9

\* The line that is taken is the next of them: the aggregate, a point that is
\* not there yet, or the seal or the end.
LEMMA MeasuredLine ==
  ASSUME SessionTypeOK, MeasuredInv, NEW e \in ModelLines, LineLoaded(e)
  PROVE  MeasuredInv'
<1>0. /\ TypeOK /\ file \in Seq(ModelLines) /\ file # <<>> /\ LoadLine(e)
      /\ phase = "reload" /\ phase' = "reload" /\ UNCHANGED <<fresh, from_map, before, poisoned>>
  BY LoadLineIsLoad DEF SessionTypeOK, LineLoaded
<1> SUFFICES ASSUME fresh, ~from_map PROVE BeforeInv' /\ FileInv'
  BY <1>0 DEF MeasuredInv
<1> DEFINE bm == before.measurement  n == Len(before.measurement)  m == Len(measurement)
           i == Loaded + 1
<1>1. BeforeInv /\ FileInv
  BY <1>0 DEF MeasuredInv
<1>2. BeforeInv'
  BY <1>0, <1>1 DEF BeforeInv
<1>3. /\ Len(file) \in Nat /\ Len(file) # 0 /\ e = file[1] /\ 1 \in 1..Len(file)
      /\ Len(file') = Len(file) - 1
      /\ \A j \in 1..(Len(file) - 1) : file'[j] = file[j + 1]
  <2>1. file' = Tail(file) /\ e = Head(file)
    BY DEF LineLoaded
  <2>2. Len(Tail(file)) = Len(file) - 1
        /\ \A j \in 1..Len(Tail(file)) : Tail(file)[j] = file[j + 1]
    BY <1>0, HeadTailProperties
  <2>3. Len(file) \in Nat /\ Len(file) # 0 /\ Head(file) = file[1]
    BY <1>0, EmptySeq, LenProperties
  <2>4. QED
    BY <2>1, <2>2, <2>3
<1>4. /\ n \in Nat /\ m \in Nat /\ bm \in Seq(Extensions) /\ measurement \in Seq(Extensions)
      /\ DOMAIN bm = 1..n
  <2>1. bm \in Seq(Extensions)
    BY DEF SessionTypeOK
  <2>2. QED
    BY <1>0, <2>1, LenProperties DEF TypeOK
<1>5. /\ Loaded \in Nat /\ Loaded = n + 2 - Len(file) /\ i = Loaded + 1 /\ Loaded' = Loaded + 1
  BY <1>0, <1>1, <1>3, <1>4 DEF Loaded, FileInv
<1>6. /\ (m = Loaded \/ (m = n /\ Loaded > n)) /\ m <= n /\ n >= 1
      /\ \A j \in 1..m : measurement[j] = bm[j]
      /\ \A j \in DOMAIN points : \E k \in 2..m : bm[k].value = points[j].id
      /\ m = 0 => aggregate = <<>> /\ ~sealed
      /\ m # 0 => aggregate # <<>>
      /\ base = ZeroBase /\ ~poisoned
  BY <1>1 DEF FileInv, BeforeInv
<1>7. LineAt(e, i)
  BY <1>1, <1>3 DEF FileInv
\* The lines that are left are those of the whole file that follow.
<1>8. Len(file') <= n + 2 /\ (\A j \in 1..Len(file) : LineAt(file[j], Loaded + j))'
  <2>1. Len(file') <= n + 2
    BY <1>1, <1>3, <1>4 DEF FileInv
  <2>2. ASSUME NEW j \in 1..(Len(file) - 1) PROVE LineAt(file[j + 1], Loaded + (j + 1))
    <3>1. j + 1 \in 1..Len(file)
      BY <1>3
    <3>2. QED
      BY <1>1, <3>1 DEF FileInv
  <2>3. ASSUME NEW j \in 1..(Len(file) - 1) PROVE Loaded' + j = Loaded + (j + 1)
    <3>1. Loaded \in Nat /\ Loaded' = Loaded + 1
      BY <1>5
    <3>2. j \in Nat
      BY <1>3
    <3> HIDE DEF i
    <3>3. QED
      BY <3>1, <3>2
  <2>4. ASSUME NEW j \in 1..(Len(file) - 1) PROVE LineAt(file[j], Loaded + j)'
    <3>1. before' = before /\ file'[j] = file[j + 1] /\ Loaded' + j = Loaded + (j + 1)
      BY <1>0, <1>3, <2>3
    <3>2. QED
      BY <2>2, <3>1 DEF LineAt
  <2>5. QED
    BY <1>3, <2>1, <2>4
<1> HIDE DEF i, m, n, bm
\* The aggregate.
<1>9. CASE i = 1
  <2>1. Loaded = 0 /\ m = 0
    <3>1. Loaded = 0
      BY <1>5, <1>9
    <3>2. n \in Nat /\ m \in Nat /\ (m = Loaded \/ (m = n /\ Loaded > n)) /\ n >= 1
      BY <1>4, <1>6
    <3>3. QED
      BY <3>1, <3>2
  <2>2. e.cmd = "aggregate" /\ e.arg = bm[1].value
    BY <1>7, <1>9 DEF LineAt, bm
  <2>3. LoadAggregate(e)
    BY <1>0, <2>2 DEF LoadLine, LoadBase, LoadState, LoadPseudonym, LoadSeal, LoadEnd
  <2> DEFINE x == [base |-> base, value |-> e.arg]
  <2>4. x = bm[1]
    <3>1. bm[1] \in Extensions /\ bm[1].base = ZeroBase
      <4>1. 1 \in 1..n
        BY <1>4, <1>6
      <4>2. QED
        BY <1>1, <1>4, <4>1 DEF BeforeInv, bm, n
    <3>2. bm[1] = [base |-> bm[1].base, value |-> bm[1].value]
      BY <3>1 DEF Extensions
    <3>3. QED
      BY <1>6, <2>2, <3>1, <3>2
  <2>5. aggregate = <<>> /\ ~sealed
    BY <1>6, <2>1
  <2>6. Extend(<<>>, e.arg) = <<x>>
    BY DEF Extend
  <2> HIDE DEF x
  <2>7. <<x>> # <<>> /\ Len(<<x>>) = 1 /\ <<x>>[1] = x
    OBVIOUS
  <2>8. aggregate' = <<x>> /\ measurement' = <<x>> /\ UNCHANGED <<base, points>>
    BY <2>3, <2>5, <2>6, <2>7 DEF LoadAggregate, AdoptAggregate
  <2>9. DOMAIN points' = {}
    <3>1. 2..m = {}
      BY <2>1
    <3>2. QED
      BY <1>6, <2>8, <3>1
  <2>10. Len(measurement') = 1 /\ 1 # 0 /\ \A j \in 1..1 : measurement'[j] = bm[j]
    BY <2>4, <2>7, <2>8
  <2>11. Loaded' = 1 /\ 1 <= n
    BY <1>4, <1>5, <1>6, <2>1
  <2>12. aggregate' # <<>>
    BY <2>7, <2>8
  <2>13. QED
    BY <1>0, <1>2, <1>6, <1>8, <2>8, <2>9, <2>10, <2>11, <2>12 DEF FileInv, n, bm
\* A point.
<1>10. CASE i \in 2..n
  <2>1. m = Loaded /\ Loaded + 1 = i /\ m # 0
    BY <1>4, <1>5, <1>6, <1>10
  <2> DEFINE p == bm[i].value  x == [base |-> base, value |-> p]
  <2>2. e = StateLine(p) /\ p \in Points
    BY <1>1, <1>7, <1>10 DEF LineAt, BeforeInv, bm, n
  <2>3. e.cmd = "state" /\ e.arg = p
    BY <2>2 DEF StateLine
  <2>4. LoadState(e) /\ ~sealed
    BY <1>0, <2>3 DEF LoadLine, LoadBase, LoadAggregate, LoadState, LoadPseudonym, LoadSeal, LoadEnd
  <2>5. Mapped(p) = {}
    <3>1. ASSUME NEW j \in DOMAIN points, points[j].id = p PROVE FALSE
      <4>1. PICK k \in 2..m : bm[k].value = p
        BY <1>6, <3>1
      <4>2. k \in 2..n /\ k # i
        BY <1>4, <1>5, <1>6, <1>10, <2>1
      <4>3. QED
        BY <1>1, <1>10, <4>1, <4>2 DEF BeforeInv, bm, n
    <3>2. QED
      BY <3>1 DEF Mapped
  <2>6. x = bm[i]
    <3>1. bm[i] \in Extensions /\ bm[i].base = ZeroBase
      <4>1. i \in 1..n
        BY <1>4, <1>10
      <4>2. QED
        BY <1>1, <1>4, <4>1 DEF BeforeInv, bm, n
    <3>2. bm[i] = [base |-> bm[i].base, value |-> bm[i].value]
      BY <3>1 DEF Extensions
    <3>3. QED
      BY <1>6, <3>1, <3>2
  <2>7. /\ measurement' = Append(measurement, x)
        /\ points' = Append(points, [id |-> p, count |-> 0, valid |-> TRUE])
        /\ UNCHANGED <<base, aggregate>>
    BY <2>3, <2>4, <2>5 DEF LoadState, Extend
  <2>8. x \in Extensions
    BY <1>0, <2>2 DEF TypeOK, Extensions
  <2>9. /\ DOMAIN points = 1..Len(points) /\ DOMAIN points' = 1..(Len(points) + 1) /\ Len(points) \in Nat
        /\ \A j \in DOMAIN points : points'[j] = points[j]
        /\ points'[Len(points) + 1].id = p
    BY <1>0, <2>2, <2>7, AppendPoint
  <2> HIDE DEF x, p
  <2>10. /\ Len(measurement') = m + 1 /\ measurement'[m + 1] = x
         /\ \A j \in 1..m : measurement'[j] = measurement[j]
    BY <1>4, <2>7, <2>8, AppendProperties DEF m
  <2>11. \A j \in 1..(m + 1) : measurement'[j] = bm[j]
    <3>1. \A j \in 1..(m + 1) : j \in 1..m \/ j = m + 1
      BY <1>4
    <3>2. m + 1 = i
      BY <2>1
    <3>3. QED
      BY <1>6, <2>6, <2>10, <3>1, <3>2
  <2>12. ASSUME NEW j \in DOMAIN points' PROVE \E k \in 2..(m + 1) : bm[k].value = points'[j].id
    <3>1. CASE j \in DOMAIN points
      <4>1. PICK k \in 2..m : bm[k].value = points[j].id
        BY <1>6, <3>1
      <4>2. k \in 2..(m + 1)
        BY <1>4
      <4>3. QED
        BY <2>9, <3>1, <4>1, <4>2
    <3>2. CASE j = Len(points) + 1
      <4>1. i \in 2..(m + 1) /\ bm[i].value = p
        BY <1>4, <1>10, <2>1 DEF p
      <4>2. QED
        BY <2>9, <3>2, <4>1
    <3>3. QED
      BY <2>9, <3>1, <3>2
  <2>13. m + 1 <= n /\ Loaded' = m + 1 /\ m + 1 # 0
    BY <1>4, <1>5, <1>10, <2>1
  <2>14. QED
    BY <1>0, <1>2, <1>6, <1>8, <2>1, <2>7, <2>10, <2>11, <2>12, <2>13 DEF FileInv, n, m, bm
\* The seal, and the end.
<1>11. CASE i > n
  <2>1. e.cmd \in {"seal", "end"}
    BY <1>7, <1>11 DEF LineAt, n
  <2>2. UNCHANGED <<base, aggregate, measurement, points>>
    BY <1>0, <2>1 DEF LoadLine, LoadBase, LoadAggregate, LoadState, LoadPseudonym, LoadSeal, LoadEnd
  <2>3. m = n /\ Loaded' > n /\ m # 0
    BY <1>4, <1>5, <1>6, <1>11
  <2>4. QED
    BY <1>0, <1>2, <1>6, <1>8, <2>2, <2>3 DEF FileInv, n, m, bm
<1>12. i = 1 \/ i \in 2..n \/ i > n
  BY <1>4, <1>5 DEF i
<1>13. QED
  BY <1>9, <1>10, <1>11, <1>12

\* A session that has loaded a whole file is where the one before ended.
LEMMA MeasuredEnd ==
  ASSUME SessionTypeOK, MeasuredInv, PhaseEnds
  PROVE  MeasuredInv'
<1>1. CASE phase = "load"
  BY <1>1 DEF PhaseEnds, MeasuredInv
<1>2. CASE phase = "reload"
  <2>1. /\ file = <<>> /\ phase' = "rerun"
        /\ UNCHANGED <<aggregate, measurement, forensics, fresh, from_map, before, poisoned>>
    BY <1>2 DEF PhaseEnds, vars
  <2> SUFFICES ASSUME fresh, ~from_map
               PROVE  aggregate # <<>> /\ measurement = before.measurement
    BY <2>1 DEF MeasuredInv
  <2>2. BeforeInv /\ FileInv
    BY <1>2 DEF MeasuredInv
  <2>3. measurement \in Seq(Extensions) /\ before.measurement \in Seq(Extensions)
    BY DEF SessionTypeOK, TypeOK
  <2>4. Len(measurement) \in Nat /\ Len(before.measurement) \in Nat /\ Len(file) = 0
    BY <2>1, <2>3, EmptySeq, LenProperties
  <2>5. Len(measurement) = Len(before.measurement) /\ Len(measurement) # 0
    BY <2>2, <2>4 DEF Loaded, FileInv, BeforeInv
  <2>6. \A i \in 1..Len(measurement) : measurement[i] = before.measurement[i]
    BY <2>2 DEF FileInv
  <2>7. measurement = before.measurement
    BY <2>3, <2>5, <2>6, SeqEqual
  <2>8. QED
    BY <2>2, <2>5, <2>7 DEF FileInv
<1>3. QED
  BY <1>1, <1>2 DEF PhaseEnds

\* What the second session does leaves the measurement, or is a violation.
LEMMA MeasuredRerun ==
  ASSUME SessionTypeOK, logging, ClassInv, MeasuredInv, phase = "rerun", [SessionNext]_allVars
  PROVE  MeasuredInv'
<1>1. sealed
  BY DEF ClassInv, LoadingInv, KnownInv
<1>2. ASSUME NEW ev \in Events, add_event(ev) PROVE MeasuredInv'
  <2>1. UNCHANGED <<phase, fresh, from_map, before>> /\ Update(ev)
    BY <1>2 DEF add_event, sessionVars
  <2> SUFFICES ASSUME fresh, ~from_map, ~poisoned'
               PROVE  aggregate' # <<>> /\ (forensics' = <<>> => measurement' = before.measurement)
    BY <2>1 DEF MeasuredInv
  <2>2. ~poisoned /\ ~UpdateFails(ev)
    <3>1. ~UpdateFails(ev)
      BY DEF UpdateFails
    <3>2. ~poisoned
      BY <2>1, <3>1 DEF Update, UpdateMapped, UpdateNew
    <3>3. QED
      BY <3>1, <3>2
  <2>3. aggregate # <<>> /\ (forensics = <<>> => measurement = before.measurement)
    BY <2>1, <2>2 DEF MeasuredInv
  <2>4. CASE UpdateMapped(ev)
    BY <2>3, <2>4 DEF UpdateMapped, UseDefaultAggregate, AggregatedMeasurement
  <2>5. CASE UpdateNew(ev)
    <3>1. aggregate' = aggregate /\ forensics' = Append(forensics, LogEntry(ev))
      BY <1>1, <2>3, <2>5 DEF UpdateNew, UseDefaultAggregate, LogEvent
    <3>2. forensics \in Seq(LogEntries) /\ LogEntry(ev) \in LogEntries
      BY EvaluateType DEF SessionTypeOK, TypeOK
    <3>3. forensics' # <<>>
      <4>1. Len(forensics') = Len(forensics) + 1 /\ Len(forensics) \in Nat
        BY <3>1, <3>2, AppendProperties, LenProperties
      <4>2. Len(<<>>) = 0
        BY EmptySeq
      <4>3. QED
        BY <4>1, <4>2
    <3>4. QED
      BY <2>3, <3>1, <3>3
  <2>6. QED
    BY <2>1, <2>2, <2>4, <2>5 DEF Update
<1>3. ASSUME \/ \E a \in Aggregates : add_aggregate(a)
             \/ CommandSeal \/ UNCHANGED allVars
      PROVE  MeasuredInv'
  <2>1. /\ UNCHANGED <<phase, from_map, before, poisoned, aggregate, measurement, forensics>>
        /\ fresh' => fresh
    <3>1. CASE \E a \in Aggregates : add_aggregate(a)
      BY <1>1, <3>1 DEF add_aggregate, SetAggregate, AdoptAggregate, eventVars
    <3>2. CASE CommandSeal
      BY <3>2 DEF CommandSeal, Seal, eventVars
    <3>3. CASE UNCHANGED allVars
      BY <3>3 DEF allVars, vars, sessionVars
    <3>4. QED
      BY <1>3, <3>1, <3>2, <3>3
  <2>2. QED
    BY <2>1 DEF MeasuredInv
<1>4. QED
  BY <1>2, <1>3, RerunSteps

LEMMA MeasuredStep ==
  ASSUME SessionTypeOK, logging, PointsDistinct, FirstInv, ClassInv, MeasuredInv,
         [SessionNext]_allVars
  PROVE  MeasuredInv'
<1>1. CASE AgentCall
  <2>1. CASE phase = "rerun"
    BY <2>1, MeasuredRerun
  <2>2. CASE phase # "rerun"
    <3>1. phase' # "rerun" /\ phase' # "reload"
      BY <1>1, <2>2 DEF AgentCall
    <3>2. QED
      BY <3>1 DEF MeasuredInv
  <2>3. QED
    BY <2>1, <2>2
<1>2. CASE PhaseEnds
  BY <1>2, MeasuredEnd
<1>3. CASE Restarted
  BY <1>3, MeasuredRestart
<1>4. CASE UNCHANGED allVars
  BY <1>4 DEF allVars, vars, sessionVars, MeasuredInv, BeforeInv, FileInv, Loaded, LineAt
<1>5. QED
  BY <1>1, <1>2, <1>3, <1>4, MeasuredLine, SessionSteps

-----------------------------------------------------------------------------

\* What holds of the two sessions together.
SessionInv ==
  SessionTypeOK /\ logging /\ PointsDistinct /\ FirstInv /\ ClassInv /\ MeasuredInv

LEMMA SessionInvInit == SessionInit => SessionInv
<1> SUFFICES ASSUME SessionInit PROVE SessionInv
  OBVIOUS
<1>1. SessionTypeOK /\ logging
  BY SessionTypeInit
<1>2. phase = "load" /\ Aggregate = NoAggregate
  BY DEF SessionInit
<1>3. /\ ~sealed /\ points = <<>> /\ measurement = <<>> /\ aggregate = <<>> /\ base = ZeroBase
  BY DEF SessionInit, Init
<1>4. PointsDistinct
  BY <1>3 DEF PointsDistinct
<1>5. FirstInv
  BY <1>2, <1>3 DEF FirstInv
<1>6. ClassInv /\ MeasuredInv
  BY <1>2 DEF ClassInv, KnownInv, LoadingInv, JudgedInv, MeasuredInv
<1>7. QED
  BY <1>1, <1>4, <1>5, <1>6 DEF SessionInv

LEMMA SessionInvStep == SessionInv /\ [SessionNext]_allVars => SessionInv'
BY SessionTypeStep, LoggingStep, SessionDistinctStep, FirstStep, ClassStep, MeasuredStep
   DEF SessionInv

LEMMA SessionInvHolds == SessionSpec => []SessionInv
BY SessionInvInit, SessionInvStep, PTL DEF SessionSpec

\* However many points the first session gathered, and on whatever hardware the
\* second one runs: the file output_model wrote brings it to the measurement the
\* first one ended with, until it sees a violation (output_model, load_model).
THEOREM FileKeepsMeasurement == SessionSpec => []OutputKeepsMeasurement
<1>1. SessionInv => OutputKeepsMeasurement
  BY DEF SessionInv, MeasuredInv, OutputKeepsMeasurement, Reloaded
<1>2. QED
  BY <1>1, SessionInvHolds, PTL

\* Whatever was valid when the file was written stays valid, whichever of the
\* orchestrator and the console wrote it, and what the console's map does not
\* name is disciplined (send_map, output_model, load_model, update).
THEOREM FileKeepsVerdicts == SessionSpec => []VerdictsAreKept
<1>1. SessionInv => VerdictsAreKept
  <2> SUFFICES ASSUME SessionInv, phase = "rerun" PROVE VerdictsAreKept
    BY DEF VerdictsAreKept, MapIsEnforced, ValidStaysValid, Reloaded
  <2>1. MapIsEnforced
    BY DEF MapIsEnforced, SessionInv, ClassInv, JudgedInv, WasValid
  <2>2. ASSUME NEW p \in Points, before.status[p] = "valid" PROVE StatusOf(p) = "valid"
    <3>1. file = <<>> /\ KnownInv
      BY DEF SessionInv, ClassInv, LoadingInv
    <3>2. PICK i \in DOMAIN points : points[i].id = p
      BY <2>2, <3>1 DEF KnownInv, WasValid
    <3>3. \A j \in Mapped(p) : points[j].valid
      BY <2>2, <3>1 DEF KnownInv, WasValid, Mapped
    <3>4. i \in Mapped(p)
      BY <3>2 DEF Mapped
    <3>5. QED
      BY <3>3, <3>4 DEF StatusOf
  <2>3. QED
    BY <2>1, <2>2 DEF VerdictsAreKept, ValidStaysValid
<1>2. QED
  BY <1>1, SessionInvHolds, PTL

-----------------------------------------------------------------------------
\* Among the first bytes of a buffer with a line feed there is a first one.
LEMMA LeastOf ==
  ASSUME NEW T \in SUBSET Nat, T # {}
  PROVE  \E m \in T : \A k \in T : m <= k
<1> SUFFICES ASSUME \A m \in T : \E k \in T : k < m PROVE FALSE
  OBVIOUS
<1> DEFINE S == {n \in Nat : \A k \in 0..n : k \notin T}
<1>1. 0 \in S
  OBVIOUS
<1>2. ASSUME NEW n \in S PROVE n + 1 \in S
  <2>1. \A k \in 0..n : k \notin T
    OBVIOUS
  <2>2. n + 1 \notin T
    BY <2>1
  <2>3. QED
    BY <2>1, <2>2
<1>3. S = Nat
  <2> HIDE DEF S
  <2>1. S \subseteq Nat
    BY DEF S
  <2>2. QED
    BY <1>1, <1>2, <2>1, InductionOverNat
<1>4. PICK t \in T : TRUE
  OBVIOUS
<1>5. t \in S /\ t \in 0..t
  BY <1>3, <1>4
<1>6. QED
  BY <1>5

-----------------------------------------------------------------------------
(* The stream of descriptions.                                             *)

\* The bytes of the stream that were fetched.
Fetched == written - size - Len(pipe)

\* What is held of the stream: its next bytes, first in the buffer, then in the pipe.
HeldInv ==
  /\ written \in 0..StreamLength /\ Fetched \in Nat
  /\ pipe \in Seq(Nat) /\ bufr \in Seq(Nat)
  /\ size \in 0..Len(bufr)
  /\ \A i \in 1..size : bufr[i] = Fetched + i
  /\ \A i \in 1..Len(pipe) : pipe[i] = Fetched + size + i
  /\ pc = "read" => available \in 1..Len(pipe)

\* No line feed shows behind what the buffer holds.
BehindInv == \A i \in Stream!LineFeeds(bufr) : i <= size

\* What was fetched ends with a line, and each was handed on as it is.
LinesInv ==
  /\ pc \in {"poll", "read", "fetch", "process"}
  /\ Fetched \in {0} \cup Newlines
  /\ processed \in Seq(Seq(Nat)) /\ event \in Seq(Nat)
  /\ Stream!Feeds(Fetched) = Len(processed) + IF pc = "process" THEN 1 ELSE 0
  /\ \A k \in 1..Len(processed) : Stream!IsLine(k, processed[k])
  /\ pc = "process" => Stream!IsLine(Len(processed) + 1, event)

\* As long as whole lines are written the buffer ends with one, and it is asked
\* for another only when it holds one.
WholeInv ==
  whole =>
    /\ ~killed
    /\ written \in {0} \cup Newlines
    /\ Fetched + size \in {0} \cup Newlines
    /\ pc = "read" => Fetched + size + available \in Newlines
    /\ pc = "fetch" \/ (pc = "process" /\ more) => size > 0

StreamInv == HeldInv /\ BehindInv /\ LinesInv /\ WholeInv

LEMMA StreamNumbers == StreamLength \in Nat /\ Newlines \subseteq 1..StreamLength /\ 0 \notin Newlines
BY StreamAssumption

\* The stream counts its lines as these proofs do.
LEMMA StreamCounts == \A S : Stream!Cardinality(S) = Cardinality(S)
BY DEF Stream!Cardinality, Cardinality

LEMMA StreamInvInit == MCInit => StreamInv
<1> SUFFICES ASSUME MCInit PROVE StreamInv
  OBVIOUS
<1>1. /\ written = 0 /\ pipe = <<>> /\ bufr = <<>> /\ size = 0 /\ pc = "poll" /\ processed = <<>>
      /\ event = <<>> /\ ~killed
  BY DEF MCInit, Stream!Init
<1>2. Stream!Feeds(0) = 0
  <2>1. Newlines \cap 1..0 = {}
    OBVIOUS
  <2>2. QED
    BY <2>1, FS_EmptySet, StreamCounts DEF Stream!Feeds
<1>3. HeldInv /\ Fetched = 0
  <2>1. <<>> \in Seq(Nat) /\ Len(<<>>) = 0
    OBVIOUS
  <2>2. StreamLength \in Nat
    BY StreamNumbers
  <2>3. Fetched = 0
    <3>1. written = 0 /\ size = 0 /\ Len(pipe) = 0
      BY <1>1, <2>1
    <3>2. QED
      BY <3>1 DEF Fetched
  <2>4. QED
    BY <1>1, <2>1, <2>2, <2>3 DEF HeldInv
<1>4. BehindInv
  BY <1>1 DEF BehindInv, Stream!LineFeeds
<1>5. LinesInv
  BY <1>1, <1>2, <1>3 DEF LinesInv
<1>6. WholeInv
  BY <1>1, <1>3 DEF WholeInv
<1>7. QED
  BY <1>3, <1>4, <1>5, <1>6 DEF StreamInv

\* The monitor writes.
LEMMA StreamWrites ==
  ASSUME StreamInv, NEW n \in 1..StreamLength, Stream!Write(n)
  PROVE  StreamInv'
<1> USE StreamNumbers
<1>1. /\ written' = written + n /\ pipe' = pipe \o [i \in 1..n |-> written + i]
      /\ whole' = (whole /\ written + n \in Newlines) /\ written' <= StreamLength
      /\ UNCHANGED <<bufr, size, available, event, more, pc, processed, killed>>
  BY DEF Stream!Write, Stream!readerVars, StreamInv, HeldInv
<1>2. /\ written \in Nat /\ n \in Nat /\ size \in Nat /\ pipe \in Seq(Nat) /\ Len(pipe) \in Nat
      /\ Fetched \in Nat
  BY LenProperties DEF StreamInv, HeldInv
<1> DEFINE new == [i \in 1..n |-> written + i]
<1>3. new \in Seq(Nat) /\ Len(new) = n
  BY <1>2
<1>4. pipe' \in Seq(Nat) /\ Len(pipe') = Len(pipe) + n
  BY <1>1, <1>2, <1>3
<1>5. Fetched' = Fetched
  BY <1>1, <1>2, <1>4 DEF Fetched
<1>6. \A i \in 1..Len(pipe') : pipe'[i] = Fetched + size + i
  <2> TAKE i \in 1..Len(pipe')
  <2>1. CASE i <= Len(pipe)
    <3>1. pipe'[i] = pipe[i]
      BY <1>1, <1>2, <1>3, <1>4, <2>1
    <3>2. QED
      BY <1>2, <2>1, <3>1 DEF StreamInv, HeldInv
  <2>2. CASE i > Len(pipe)
    <3>1. pipe'[i] = new[i - Len(pipe)]
      BY <1>1, <1>2, <1>3, <1>4, <2>2
    <3>2. i - Len(pipe) \in 1..n
      BY <1>2, <1>4, <2>2
    <3>3. pipe'[i] = written + (i - Len(pipe))
      BY <3>1, <3>2
    <3>4. QED
      BY <1>2, <3>3 DEF Fetched, StreamInv, HeldInv
  <2>3. QED
    BY <1>2, <1>4, <2>1, <2>2
<1>7. HeldInv'
  <2>1. written' \in 0..StreamLength
    BY <1>1, <1>2
  <2>2. pc = "read" => available \in 1..Len(pipe')
    BY <1>2, <1>4 DEF StreamInv, HeldInv
  <2>3. QED
    BY <1>1, <1>2, <1>4, <1>5, <1>6, <2>1, <2>2 DEF StreamInv, HeldInv
<1>8. BehindInv'
  BY <1>1 DEF StreamInv, BehindInv, Stream!LineFeeds
<1>9. LinesInv'
  BY <1>1, <1>5 DEF StreamInv, LinesInv
<1>10. WholeInv'
  BY <1>1, <1>5 DEF StreamInv, WholeInv
<1>11. QED
  BY <1>7, <1>8, <1>9, <1>10 DEF StreamInv

\* poll reports input.
LEMMA StreamPolls ==
  ASSUME StreamInv, Stream!Poll
  PROVE  StreamInv'
<1> USE StreamNumbers
<1>1. /\ pc = "poll" /\ pc' = "read" /\ pipe # <<>> /\ available' = Len(pipe)
      /\ UNCHANGED <<written, whole, pipe, bufr, size, event, more, processed, killed>>
  BY DEF Stream!Poll
<1>2. Len(pipe) \in Nat /\ Len(pipe) > 0 /\ pipe \in Seq(Nat)
  BY <1>1, EmptySeq, LenProperties DEF StreamInv, HeldInv
<1>3. HeldInv'
  BY <1>1, <1>2 DEF StreamInv, HeldInv, Fetched
<1>4. BehindInv'
  BY <1>1 DEF StreamInv, BehindInv, Stream!LineFeeds
<1>5. LinesInv'
  <2>1. Fetched' = Fetched
    BY <1>1 DEF Fetched
  <2>2. QED
    BY <1>1, <2>1 DEF StreamInv, LinesInv
<1>6. WholeInv'
  <2>1. Fetched + size + Len(pipe) = written /\ written # 0
    BY <1>2 DEF StreamInv, HeldInv, Fetched
  <2>2. QED
    BY <1>1, <2>1 DEF StreamInv, WholeInv, Fetched
<1>7. QED
  BY <1>3, <1>4, <1>5, <1>6 DEF StreamInv

\* read moves what was available from the pipe into the buffer.
LEMMA StreamReads ==
  ASSUME StreamInv, Stream!Read
  PROVE  StreamInv'
<1> USE StreamNumbers
<1> DEFINE allocation == IF Len(bufr) > available + size THEN Len(bufr) ELSE available + size
<1>1. /\ pc = "read" /\ pc' = "fetch"
      /\ bufr' = [i \in 1..allocation |-> IF i <= size THEN bufr[i]
                                          ELSE IF i <= size + available THEN pipe[i - size] ELSE 0]
      /\ pipe' = SubSeq(pipe, available + 1, Len(pipe)) /\ size' = size + available
      /\ UNCHANGED <<written, whole, event, processed, killed>>
  BY DEF Stream!Read, Stream!LeftInPipe, Stream!NUL
<1>2. /\ available \in 1..Len(pipe) /\ Len(pipe) \in Nat /\ Len(bufr) \in Nat /\ size \in 0..Len(bufr)
      /\ pipe \in Seq(Nat) /\ bufr \in Seq(Nat) /\ written \in Nat /\ Fetched \in Nat
      /\ size \in Nat /\ available \in Nat
  BY <1>1, LenProperties DEF StreamInv, HeldInv
<1>3. allocation \in Nat /\ size + available <= allocation /\ Len(bufr) <= allocation
  BY <1>2
<1>4. Len(pipe') = Len(pipe) - available /\ pipe' \in Seq(Nat)
  BY <1>1, <1>2, SubSeqProperties
<1>5. Fetched' = Fetched
  <2>1. written' = written /\ size' = size + available
    BY <1>1
  <2>2. QED
    BY <1>2, <1>4, <2>1 DEF Fetched
<1> HIDE DEF allocation
<1>6. Len(bufr') = allocation /\ bufr' \in Seq(Nat)
  <2>1. \A i \in 1..allocation : bufr'[i] \in Nat
    BY SMTT(30), <1>1, <1>2, <1>3
  <2>2. bufr' = [i \in 1..allocation |-> bufr'[i]]
    BY <1>1
  <2>3. QED
    BY <1>3, <2>1, <2>2
<1>7. \A i \in 1..size' : bufr'[i] = Fetched + i
  BY <1>1, <1>2, <1>3 DEF StreamInv, HeldInv
<1>8. \A i \in 1..Len(pipe') : pipe'[i] = Fetched + size' + i
  <2> TAKE i \in 1..Len(pipe')
  <2>1. pipe'[i] = pipe[available + i] /\ available + i \in 1..Len(pipe)
    BY <1>1, <1>2, <1>4, SubSeqProperties
  <2>2. QED
    BY <1>1, <1>2, <2>1 DEF StreamInv, HeldInv
<1>9. HeldInv'
  BY SMTT(30), <1>1, <1>2, <1>3, <1>4, <1>5, <1>6, <1>7, <1>8 DEF StreamInv, HeldInv
<1>10. BehindInv'
  <2> SUFFICES ASSUME NEW i \in 1..allocation, bufr'[i] \in Newlines, i > size' PROVE FALSE
    BY <1>1, <1>2, <1>6 DEF BehindInv, Stream!LineFeeds
  <2>1. bufr'[i] = 0
    BY <1>1, <1>2, <1>3
  <2>2. QED
    BY <2>1
<1>11. LinesInv'
  BY <1>1, <1>5 DEF StreamInv, LinesInv
<1>12. WholeInv'
  BY <1>1, <1>2, <1>5 DEF StreamInv, WholeInv
<1>13. QED
  BY <1>9, <1>10, <1>11, <1>12 DEF StreamInv

\* A fetch takes the first line that shows.
LEMMA FirstFeed ==
  ASSUME StreamInv, Stream!LineFeeds(bufr) # {}
  PROVE  LET n == Stream!First(Stream!LineFeeds(bufr))
         IN  /\ n \in Stream!LineFeeds(bufr) /\ n \in 1..size
             /\ \A i \in Stream!LineFeeds(bufr) : n <= i
<1> DEFINE n == Stream!First(Stream!LineFeeds(bufr))
<1>1. Len(bufr) \in Nat /\ DOMAIN bufr = 1..Len(bufr)
  BY LenProperties DEF StreamInv, HeldInv
<1>2. Stream!LineFeeds(bufr) \in SUBSET Nat
  BY <1>1 DEF Stream!LineFeeds
<1>3. \E m \in Stream!LineFeeds(bufr) : \A k \in Stream!LineFeeds(bufr) : m <= k
  BY <1>2, LeastOf
<1>4. n \in Stream!LineFeeds(bufr) /\ \A i \in Stream!LineFeeds(bufr) : n <= i
  BY <1>3 DEF Stream!First
<1>5. n \in 1..Len(bufr)
  BY <1>1, <1>4 DEF Stream!LineFeeds
<1>6. n \in 1..size
  BY <1>1, <1>4, <1>5 DEF StreamInv, BehindInv, HeldInv
<1>7. QED
  BY <1>4, <1>6

\* The line that is taken is the next one, and nothing shows behind the rest.
LEMMA StreamFetches ==
  ASSUME StreamInv, Stream!FetchLine
  PROVE  StreamInv'
<1> USE StreamNumbers
<1> DEFINE n == Stream!First(Stream!LineFeeds(bufr))
<1>1. /\ pc = "fetch" /\ pc' = "process" /\ Stream!LineFeeds(bufr) # {}
      /\ event' = SubSeq(bufr, 1, n - 1) /\ size' = size - n
      /\ bufr' = Stream!Consumed(n) /\ more' = Stream!MoreAfter(n)
      /\ UNCHANGED <<written, whole, pipe, available, processed, killed>>
  BY DEF Stream!FetchLine, Stream!Line
<1>2. n \in Stream!LineFeeds(bufr) /\ n \in 1..size /\ \A i \in Stream!LineFeeds(bufr) : n <= i
  BY <1>1, FirstFeed
<1> HIDE DEF n
<1>3. /\ Len(pipe) \in Nat /\ Len(bufr) \in Nat /\ size \in Nat /\ size <= Len(bufr) /\ n \in Nat
      /\ pipe \in Seq(Nat) /\ bufr \in Seq(Nat) /\ written \in Nat /\ Fetched \in Nat
      /\ DOMAIN bufr = 1..Len(bufr) /\ n >= 1 /\ n <= size
  BY <1>2, LenProperties DEF StreamInv, HeldInv
<1>4. Fetched' = Fetched + n
  <2>1. written' = written /\ size' = size - n /\ pipe' = pipe
    BY <1>1
  <2>2. QED
    BY <1>3, <2>1 DEF Fetched
<1>5. \A i \in 1..size : bufr[i] = Fetched + i
  BY DEF StreamInv, HeldInv
<1>6. \A i \in 1..n : bufr[i] # 0
  BY <1>2, <1>3 DEF Stream!LineFeeds, Stream!NUL
<1>7. bufr[n] \in Newlines /\ \A i \in 1..(n - 1) : bufr[i] \notin Newlines
  <2>1. bufr[n] \in Newlines
    BY <1>2 DEF Stream!LineFeeds
  <2>2. ASSUME NEW i \in 1..(n - 1), bufr[i] \in Newlines PROVE FALSE
    <3>1. i \in DOMAIN bufr /\ \A j \in 1..i : bufr[j] # 0
      BY <1>3, <1>6, <2>2
    <3>2. i \in Stream!LineFeeds(bufr)
      BY <2>2, <3>1 DEF Stream!LineFeeds, Stream!NUL
    <3>3. QED
      BY <1>2, <1>3, <3>2
  <2>3. QED
    BY <2>1, <2>2
\* What is left in the buffer.
<1>8. /\ bufr' \in Seq(Nat) /\ Len(bufr') = Len(bufr)
      /\ \A i \in 1..size' : bufr'[i] = bufr[i + n]
      /\ \A i \in Stream!LineFeeds(bufr') : i <= size'
  <2>1. CASE size > n
    <3>1. bufr' = [i \in 1..Len(bufr) |-> IF i <= size - n THEN bufr[i + n] ELSE 0]
      BY <1>1, <1>3, <2>1 DEF Stream!Consumed, Stream!NUL
    <3>2. \A i \in 1..Len(bufr) : bufr'[i] \in Nat
      BY <1>3, <3>1
    <3>3. bufr' \in Seq(Nat) /\ Len(bufr') = Len(bufr)
      <4>1. bufr' = [i \in 1..Len(bufr) |-> bufr'[i]] /\ Len(bufr) \in Nat
        BY <1>3, <3>1
      <4>2. QED
        BY <3>2, <4>1
    <3>4. \A i \in 1..size' : bufr'[i] = bufr[i + n]
      BY <1>1, <1>3, <3>1
    <3>5. ASSUME NEW i \in 1..Len(bufr), bufr'[i] \in Newlines PROVE i <= size'
      BY <1>1, <1>3, <3>1, <3>5
    <3>6. QED
      BY <3>3, <3>4, <3>5 DEF Stream!LineFeeds
  <2>2. CASE ~(size > n)
    <3>1. bufr' = [bufr EXCEPT ![n] = 0]
      BY <1>1, <2>2 DEF Stream!Consumed, Stream!NUL
    <3>2. bufr' \in Seq(Nat) /\ Len(bufr') = Len(bufr)
      BY <1>3, <3>1
    <3>3. size' = 0
      BY <1>1, <1>3, <2>2
    <3>4. bufr'[n] = 0 /\ \A i \in 1..(n - 1) : bufr'[i] = bufr[i]
      BY <1>3, <3>1
    <3>5. ASSUME NEW i \in 1..Len(bufr), bufr'[i] \in Newlines, \A j \in 1..i : bufr'[j] # 0
          PROVE  FALSE
      <4>1. i < n
        BY <1>3, <3>4, <3>5
      <4>2. QED
        BY <1>3, <1>7, <3>4, <3>5, <4>1
    <3>6. QED
      BY <3>2, <3>3, <3>5 DEF Stream!LineFeeds, Stream!NUL
  <2>3. QED
    BY <2>1, <2>2
<1>9. HeldInv'
  <2>1. \A i \in 1..size' : bufr'[i] = Fetched' + i
    <3> TAKE i \in 1..size'
    <3>1. i + n \in 1..size
      BY <1>1, <1>3
    <3>2. bufr'[i] = Fetched + (i + n)
      BY <1>5, <1>8, <3>1
    <3>3. QED
      BY <1>1, <1>3, <1>4, <3>2
  <2>2. \A i \in 1..Len(pipe') : pipe'[i] = Fetched' + size' + i
    BY <1>1, <1>3, <1>4 DEF StreamInv, HeldInv
  <2>3. written' \in 0..StreamLength /\ Fetched' \in Nat /\ pipe' \in Seq(Nat) /\ size' \in 0..Len(bufr')
    BY <1>1, <1>3, <1>4, <1>8 DEF StreamInv, HeldInv
  <2>4. QED
    BY <1>1, <1>8, <2>1, <2>2, <2>3 DEF HeldInv
<1>10. BehindInv'
  BY <1>8 DEF BehindInv
<1>11. LinesInv'
  <2>1. Fetched' \in Newlines /\ Fetched' = Fetched + n
    BY <1>2, <1>4, <1>5, <1>7
  <2>2. Fetched \in {0} \cup Newlines /\ Fetched < Fetched'
    BY <1>3, <2>1 DEF StreamInv, LinesInv
  <2>3. Newlines \cap (Fetched + 1)..Fetched' = {Fetched'}
    <3>1. ASSUME NEW k \in Newlines, k \in (Fetched + 1)..Fetched', k # Fetched' PROVE FALSE
      <4>1. k - Fetched \in 1..(n - 1) /\ k - Fetched \in 1..size
        BY <1>3, <2>1, <3>1
      <4>2. bufr[k - Fetched] = k
        BY <1>3, <1>5, <3>1, <4>1
      <4>3. QED
        BY <1>7, <3>1, <4>1, <4>2
    <3>2. Fetched' \in (Fetched + 1)..Fetched'
      BY <1>3, <2>1
    <3>3. QED
      BY <2>1, <3>1, <3>2
  <2>4. Stream!Feeds(Fetched') = Stream!Feeds(Fetched) + 1
    <3>1. Newlines \cap 1..Fetched' = (Newlines \cap 1..Fetched) \cup {Fetched'}
      BY <1>3, <2>1, <2>2, <2>3
    <3>2. IsFiniteSet(Newlines \cap 1..Fetched)
      <4>1. IsFiniteSet(1..Fetched)
        BY <1>3, FS_Interval
      <4>2. QED
        BY <4>1, FS_Subset
    <3>3. Fetched' \notin Newlines \cap 1..Fetched
      BY <1>3, <2>2
    <3>4. QED
      BY <3>1, <3>2, <3>3, FS_AddElement, StreamCounts DEF Stream!Feeds
  <2>5. event' = [j \in 1..(Fetched' - Fetched - 1) |-> Fetched + j] /\ event' \in Seq(Nat)
    <3>1. event' = [j \in 1..(n - 1) |-> bufr[j]]
      BY <1>1, <1>3
    <3>2. \A j \in 1..(n - 1) : bufr[j] = Fetched + j
      BY <1>3, <1>5
    <3>3. event' = [j \in 1..(n - 1) |-> Fetched + j]
      BY <3>1, <3>2
    <3>4. Fetched' - Fetched - 1 = n - 1 /\ n - 1 \in Nat
      BY <1>3, <2>1
    <3>5. [j \in 1..(n - 1) |-> Fetched + j] \in Seq(Nat)
      BY <1>3, <3>4
    <3>6. QED
      BY <3>3, <3>4, <3>5
  <2>6. Stream!Feeds(Fetched) = Len(processed) /\ Len(processed) \in Nat
    <3>1. Len(processed) \in Nat
      BY LenProperties DEF StreamInv, LinesInv
    <3>2. QED
      BY <1>1, <3>1 DEF StreamInv, LinesInv
  <2>7. Stream!IsLine(Len(processed) + 1, event')
    BY <2>1, <2>2, <2>3, <2>4, <2>5, <2>6 DEF Stream!IsLine
  <2>8. QED
    BY <1>1, <2>1, <2>4, <2>5, <2>6, <2>7 DEF StreamInv, LinesInv
<1>12. WholeInv'
  <2>1. Fetched' + size' = Fetched + size /\ Fetched \in Nat
    BY <1>1, <1>3, <1>4
  <2>2. more' => size' > 0
    <3>1. more' => size > n
      BY <1>1 DEF Stream!MoreAfter
    <3>2. QED
      BY <1>1, <1>3, <3>1
  <2>3. QED
    BY <1>1, <2>1, <2>2 DEF StreamInv, WholeInv
<1>13. QED
  BY <1>9, <1>10, <1>11, <1>12 DEF StreamInv

\* A fetch that finds no line, of a stream that was cut within one.
LEMMA StreamFails ==
  ASSUME StreamInv, Stream!FetchNothing
  PROVE  StreamInv'
<1> USE StreamNumbers
<1>1. /\ pc = "fetch" /\ pc' = "poll" /\ Stream!LineFeeds(bufr) = {}
      /\ UNCHANGED <<written, whole, pipe, bufr, size, available, event, more, processed>>
  BY DEF Stream!FetchNothing
<1>2. ASSUME whole PROVE FALSE
  <2>1. Len(bufr) \in Nat /\ DOMAIN bufr = 1..Len(bufr) /\ size \in Nat /\ size <= Len(bufr) /\ Fetched \in Nat
    BY LenProperties DEF StreamInv, HeldInv
  <2>2. size > 0 /\ Fetched + size \in Newlines
    BY <1>1, <1>2, <2>1 DEF StreamInv, WholeInv
  <2>3. bufr[size] \in Newlines /\ \A i \in 1..size : bufr[i] # 0
    BY <2>1, <2>2 DEF StreamInv, HeldInv
  <2>4. size \in Stream!LineFeeds(bufr)
    BY <2>1, <2>2, <2>3 DEF Stream!LineFeeds, Stream!NUL
  <2>5. QED
    BY <1>1, <2>4
<1>3. Fetched' = Fetched
  BY <1>1 DEF Fetched
<1>4. HeldInv' /\ BehindInv' /\ LinesInv'
  BY <1>1, <1>3 DEF StreamInv, HeldInv, BehindInv, LinesInv, Stream!LineFeeds
<1>5. WholeInv'
  BY <1>1, <1>2 DEF WholeInv
<1>6. QED
  BY <1>4, <1>5 DEF StreamInv

\* The line is handed on.
LEMMA StreamHandsOn ==
  ASSUME StreamInv, Stream!Process
  PROVE  StreamInv'
<1>1. /\ pc = "process" /\ pc' = (IF more THEN "fetch" ELSE "poll")
      /\ processed' = Append(processed, event)
      /\ UNCHANGED <<written, whole, pipe, bufr, size, available, event, more, killed>>
  BY DEF Stream!Process
<1>2. Fetched' = Fetched
  BY <1>1 DEF Fetched
<1>3. HeldInv' /\ BehindInv'
  BY <1>1, <1>2 DEF StreamInv, HeldInv, BehindInv, Stream!LineFeeds
<1>4. LinesInv'
  <2>1. processed \in Seq(Seq(Nat)) /\ event \in Seq(Nat) /\ Len(processed) \in Nat
    BY LenProperties DEF StreamInv, LinesInv
  <2>2. /\ processed' \in Seq(Seq(Nat)) /\ Len(processed') = Len(processed) + 1
        /\ processed'[Len(processed) + 1] = event
        /\ \A k \in 1..Len(processed) : processed'[k] = processed[k]
    BY <1>1, <2>1, AppendProperties
  <2>3. \A k \in 1..Len(processed') : Stream!IsLine(k, processed'[k])
    <3> TAKE k \in 1..Len(processed')
    <3>1. CASE k = Len(processed) + 1
      BY <1>1, <2>2, <3>1 DEF StreamInv, LinesInv
    <3>2. CASE k # Len(processed) + 1
      <4>1. k \in 1..Len(processed)
        BY <2>1, <2>2, <3>2
      <4>2. QED
        BY <2>2, <4>1 DEF StreamInv, LinesInv
    <3>3. QED
      BY <3>1, <3>2
  <2>4. Stream!Feeds(Fetched) = Len(processed')
    BY <1>1, <2>1, <2>2 DEF StreamInv, LinesInv
  <2>5. QED
    BY <1>1, <1>2, <2>1, <2>2, <2>3, <2>4 DEF StreamInv, LinesInv
<1>5. WholeInv'
  BY <1>1, <1>2 DEF StreamInv, WholeInv
<1>6. QED
  BY <1>3, <1>4, <1>5 DEF StreamInv

LEMMA StreamInvStep == StreamInv /\ [MCNext]_mcVars => StreamInv'
<1> SUFFICES ASSUME StreamInv, [MCNext]_mcVars PROVE StreamInv'
  OBVIOUS
<1>1. CASE Stream!Next
  BY <1>1, StreamWrites, StreamPolls, StreamReads, StreamFetches, StreamFails, StreamHandsOn
     DEF Stream!Next, Stream!Monitor, Stream!Reader
<1>2. CASE UNCHANGED streamVars
  BY <1>2 DEF streamVars, StreamInv, HeldInv, BehindInv, LinesInv, WholeInv, Fetched, Stream!LineFeeds
<1>3. QED
  BY <1>1, <1>2 DEF MCNext, mcVars

LEMMA StreamInvHolds == MCSpec => []StreamInv
BY StreamInvInit, StreamInvStep, PTL DEF MCSpec

\* However many descriptions of whatever length, and however the kernel's reads
\* and the monitor's writes cut them: the descriptions come out whole, once each
\* and in order, and nobody is killed for want of a line (read_event, fetch_event).
THEOREM DescriptionsComeOutWhole == MCSpec => []StreamIsWhole
<1>1. StreamInv => StreamIsWhole
  <2> SUFFICES ASSUME StreamInv PROVE StreamIsWhole
    OBVIOUS
  <2>1. Stream!ProcessedAreLines
    <3>1. DOMAIN processed = 1..Len(processed)
      BY LenProperties DEF StreamInv, LinesInv
    <3>2. QED
      BY <3>1 DEF StreamInv, LinesInv, Stream!ProcessedAreLines
  <2>2. Stream!NothingLost
    <3> DEFINE held == SubSeq(bufr, 1, size)
               rest == held \o pipe
    <3>1. /\ Len(pipe) \in Nat /\ Len(bufr) \in Nat /\ size \in Nat /\ size <= Len(bufr)
          /\ pipe \in Seq(Nat) /\ bufr \in Seq(Nat) /\ written \in Nat /\ Fetched \in Nat
      BY LenProperties DEF StreamInv, HeldInv
    <3>2. held \in Seq(Nat) /\ Len(held) = size /\ \A i \in 1..size : held[i] = bufr[i]
      BY <3>1, SubSeqProperties
    <3>3. written - (size + Len(pipe)) = Fetched
      BY <3>1 DEF Fetched
    <3> HIDE DEF held
    <3>4. /\ Len(rest) = size + Len(pipe) /\ rest \in Seq(Nat)
          /\ \A k \in 1..size : rest[k] = held[k]
          /\ \A k \in (size + 1)..(size + Len(pipe)) : rest[k] = pipe[k - size]
      <4>1. held \in Seq(Nat) /\ pipe \in Seq(Nat)
        BY <3>1, <3>2
      <4>2. /\ rest \in Seq(Nat) /\ Len(rest) = Len(held) + Len(pipe)
            /\ \A i \in 1..(Len(held) + Len(pipe)) :
                 rest[i] = IF i <= Len(held) THEN held[i] ELSE pipe[i - Len(held)]
        BY <4>1, ConcatProperties, Zenon
      <4> HIDE DEF rest
      <4>3. \A i \in 1..(size + Len(pipe)) : rest[i] = IF i <= size THEN held[i] ELSE pipe[i - size]
        BY <3>2, <4>2
      <4>4. ASSUME NEW k \in 1..size PROVE rest[k] = held[k]
        <5>1. k \in 1..(size + Len(pipe)) /\ k <= size
          BY <3>1
        <5>2. QED
          BY <4>3, <5>1
      <4>5. ASSUME NEW k \in (size + 1)..(size + Len(pipe)) PROVE rest[k] = pipe[k - size]
        <5>1. k \in 1..(size + Len(pipe)) /\ ~(k <= size)
          BY <3>1
        <5>2. QED
          BY <4>3, <5>1
      <4>6. QED
        BY <3>2, <4>2, <4>4, <4>5
    <3> HIDE DEF rest
    <3>5. ASSUME NEW k \in 1..(size + Len(pipe)) PROVE rest[k] = Fetched + k
      <4>1. CASE k <= size
        <5>1. k \in 1..size
          BY <3>1, <4>1
        <5>2. bufr[k] = Fetched + k
          BY <5>1 DEF StreamInv, HeldInv
        <5>3. QED
          BY <3>2, <3>4, <5>1, <5>2
      <4>2. CASE k > size
        <5>1. k - size \in 1..Len(pipe)
          BY <3>1, <4>2
        <5>2. pipe[k - size] = Fetched + size + (k - size)
          BY <5>1 DEF StreamInv, HeldInv
        <5>3. k \in (size + 1)..(size + Len(pipe))
          BY <3>1, <4>2
        <5>4. rest[k] = pipe[k - size]
          BY <3>4, <5>3
        <5>5. QED
          BY <3>1, <5>2, <5>4
      <4>3. QED
        BY <3>1, <4>1, <4>2
    <3>6. \A k \in DOMAIN rest : rest[k] = written - Len(rest) + k
      <4>1. DOMAIN rest = 1..(size + Len(pipe))
        BY <3>1, <3>4, LenProperties
      <4>2. QED
        BY <3>3, <3>4, <3>5, <4>1
    <3>7. pc = "read" => available <= Len(pipe)
      BY <3>1 DEF StreamInv, HeldInv
    <3>8. QED
      BY <3>6, <3>7 DEF Stream!NothingLost, held, rest
  <2>3. Stream!NeverKilled
    BY DEF StreamInv, WholeInv, Stream!NeverKilled
  <2>4. QED
    BY <2>1, <2>2, <2>3 DEF StreamIsWhole
<1>2. QED
  BY <1>1, StreamInvHolds, PTL

-----------------------------------------------------------------------------
(* The object a description is parsed into.                                *)

\* What is in a sequence of members, and in two of them.
LEMMA SetOf ==
  ASSUME NEW structure, NEW names
  PROVE  Event!ToSet(Event!Of(structure, names)) = {<<structure, names[i]>> : i \in DOMAIN names}
BY DEF Event!ToSet, Event!Of

IsTuple(s) == Len(s) \in Nat /\ DOMAIN s = 1..Len(s)
IsList(s) == Len(s) \in Nat /\ DOMAIN s = 1..Len(s) /\ s \in Seq(Event!ToSet(s))

LEMMA ListOf ==
  ASSUME NEW structure, NEW names, IsTuple(names)
  PROVE  IsList(Event!Of(structure, names))
<1> DEFINE s == Event!Of(structure, names)  n == Len(names)
<1>1. n \in Nat /\ DOMAIN names = 1..n
  BY DEF IsTuple
<1> HIDE DEF n
<1>2. DOMAIN s = 1..n
  BY <1>1 DEF Event!Of
<1>3. s = [i \in 1..n |-> s[i]]
  BY <1>1 DEF Event!Of
<1>4. \A i \in 1..n : s[i] \in Event!ToSet(s)
  BY <1>2 DEF Event!ToSet
<1> HIDE DEF s
<1>5. s \in Seq(Event!ToSet(s)) /\ Len(s) = n
  BY <1>1, <1>3, <1>4
<1>6. QED
  BY <1>1, <1>2, <1>5 DEF IsList, s

LEMMA SetOfConcat ==
  ASSUME NEW s, NEW t, IsList(s), IsList(t)
  PROVE  IsList(s \o t) /\ Event!ToSet(s \o t) = Event!ToSet(s) \cup Event!ToSet(t)
<1> DEFINE S == Event!ToSet(s) \cup Event!ToSet(t)
<1>1. s \in Seq(S) /\ t \in Seq(S)
  <2>1. \A i \in 1..Len(s) : s[i] \in S
    BY DEF IsList, Event!ToSet
  <2>2. \A i \in 1..Len(t) : t[i] \in S
    BY DEF IsList, Event!ToSet
  <2>3. QED
    BY <2>1, <2>2 DEF IsList
<1> DEFINE u == s \o t
<1>2. /\ u \in Seq(S) /\ Len(u) = Len(s) + Len(t) /\ Len(u) \in Nat /\ DOMAIN u = 1..Len(u)
      /\ \A i \in 1..Len(s) : u[i] = s[i]
      /\ \A i \in 1..Len(t) : u[Len(s) + i] = t[i]
      /\ Len(s) \in Nat /\ Len(t) \in Nat /\ DOMAIN s = 1..Len(s) /\ DOMAIN t = 1..Len(t)
  BY <1>1, ConcatProperties, LenProperties DEF IsList
<1> HIDE DEF u
<1>3. Event!ToSet(u) \subseteq S
  BY <1>2 DEF Event!ToSet
<1>4. ASSUME NEW k \in S PROVE k \in Event!ToSet(u)
  <2>1. CASE k \in Event!ToSet(s)
    <3>1. PICK i \in 1..Len(s) : k = s[i]
      BY <1>2, <2>1 DEF Event!ToSet
    <3>2. i \in DOMAIN u /\ u[i] = k
      BY <1>2, <3>1
    <3>3. QED
      BY <3>2 DEF Event!ToSet
  <2>2. CASE k \in Event!ToSet(t)
    <3>1. PICK i \in 1..Len(t) : k = t[i]
      BY <1>2, <2>2 DEF Event!ToSet
    <3>2. Len(s) + i \in DOMAIN u /\ u[Len(s) + i] = k
      BY <1>2, <3>1
    <3>3. QED
      BY <3>2 DEF Event!ToSet
  <2>3. QED
    BY <2>1, <2>2
<1>5. Event!ToSet(u) = S
  BY <1>3, <1>4
<1>6. u \in Seq(Event!ToSet(u))
  BY <1>2, <1>5
<1>7. QED
  BY <1>2, <1>5, <1>6 DEF IsList, u

\* The members of a structure.
Key(structure, names) == {<<structure, n>> : n \in names}

LEMMA KeySets ==
  /\ Event!ToSet(Event!COE) = Key("coe",
         {"uid", "euid", "suid", "gid", "egid", "sgid", "fsuid", "fsgid", "capeff"})
  /\ Event!ToSet(Event!FileKeys) = Key("file",
         {"flags", "digest", "uid", "gid", "mode", "s_magic", "s_id", "s_uuid", "pathname"})
  /\ Event!ToSet(Event!Dev) = Key("file", {"major", "minor"})
  /\ \A st : Event!ToSet(Event!Sock(st)) = Key(st, {"family", "type", "protocol", "owner"})
  /\ Event!ToSet(Event!SocketCreate) = Key("create", {"family", "type", "protocol", "kern"})
  /\ Event!ToSet(Event!MmapKeys) = Key("mmap", {"prot", "flags"})
  /\ Event!ToSet(Event!TaskKill) = Key("kill", {"cross", "signal", "target"})
  /\ \A f : Event!ToSet(Event!ConnectAddress(f)) =
       Key("connect", CASE f = 2 -> {"port", "ipv4"} [] f = 10 -> {"flow", "scope", "ipv6"}
                        [] f = 1 -> {"unix"} [] OTHER -> {"first", "rest"})
  /\ \A f : Event!ToSet(Event!AcceptAddress(f)) =
       Key("accept", CASE f = 2 -> {"ipv4"} [] f = 10 -> {"ipv6"}
                        [] f = 1 -> {"unix"} [] OTHER -> {"first", "rest"})
<1>1. ASSUME NEW st, NEW a PROVE Event!ToSet(Event!Of(st, <<a>>)) = Key(st, {a})
  <2>1. DOMAIN <<a>> = {1}
    OBVIOUS
  <2>2. QED
    BY <2>1, SetOf DEF Key
<1>2. ASSUME NEW st, NEW a, NEW b PROVE Event!ToSet(Event!Of(st, <<a, b>>)) = Key(st, {a, b})
  <2>1. DOMAIN <<a, b>> = {1, 2}
    OBVIOUS
  <2>2. QED
    BY <2>1, SetOf DEF Key
<1>3. ASSUME NEW st, NEW a, NEW b, NEW c
      PROVE  Event!ToSet(Event!Of(st, <<a, b, c>>)) = Key(st, {a, b, c})
  <2>1. DOMAIN <<a, b, c>> = {1, 2, 3}
    OBVIOUS
  <2>2. QED
    BY <2>1, SetOf DEF Key
<1>4. ASSUME NEW st, NEW a, NEW b, NEW c, NEW d
      PROVE  Event!ToSet(Event!Of(st, <<a, b, c, d>>)) = Key(st, {a, b, c, d})
  <2>1. DOMAIN <<a, b, c, d>> = {1, 2, 3, 4}
    OBVIOUS
  <2>2. QED
    BY <2>1, SetOf DEF Key
<1>5. ASSUME NEW st, NEW a, NEW b, NEW c, NEW d, NEW e, NEW f, NEW g, NEW h, NEW i
      PROVE  Event!ToSet(Event!Of(st, <<a, b, c, d, e, f, g, h, i>>))
               = Key(st, {a, b, c, d, e, f, g, h, i})
  <2>1. DOMAIN <<a, b, c, d, e, f, g, h, i>> = {1, 2, 3, 4, 5, 6, 7, 8, 9}
    OBVIOUS
  <2>2. QED
    BY <2>1, SetOf DEF Key
<1>6. Event!ToSet(Event!COE) = Key("coe",
        {"uid", "euid", "suid", "gid", "egid", "sgid", "fsuid", "fsgid", "capeff"})
  BY <1>5 DEF Event!COE
<1>7. Event!ToSet(Event!FileKeys) = Key("file",
        {"flags", "digest", "uid", "gid", "mode", "s_magic", "s_id", "s_uuid", "pathname"})
  BY <1>5 DEF Event!FileKeys
<1>8. /\ Event!ToSet(Event!Dev) = Key("file", {"major", "minor"})
      /\ Event!ToSet(Event!MmapKeys) = Key("mmap", {"prot", "flags"})
  BY <1>2 DEF Event!Dev, Event!MmapKeys
<1>9. /\ \A st : Event!ToSet(Event!Sock(st)) = Key(st, {"family", "type", "protocol", "owner"})
      /\ Event!ToSet(Event!SocketCreate) = Key("create", {"family", "type", "protocol", "kern"})
  BY <1>4 DEF Event!Sock, Event!SocketCreate
<1>10. Event!ToSet(Event!TaskKill) = Key("kill", {"cross", "signal", "target"})
  BY <1>3 DEF Event!TaskKill
<1>11. ASSUME NEW f
       PROVE  Event!ToSet(Event!ConnectAddress(f)) =
                Key("connect", CASE f = 2 -> {"port", "ipv4"} [] f = 10 -> {"flow", "scope", "ipv6"}
                                 [] f = 1 -> {"unix"} [] OTHER -> {"first", "rest"})
  <2>1. CASE f = 2
    BY <1>2, <2>1 DEF Event!ConnectAddress, Event!AF_INET, Event!AF_INET6, Event!AF_UNIX
  <2>2. CASE f = 10
    BY <1>3, <2>2 DEF Event!ConnectAddress, Event!AF_INET, Event!AF_INET6, Event!AF_UNIX
  <2>3. CASE f = 1
    BY <1>1, <2>3 DEF Event!ConnectAddress, Event!AF_INET, Event!AF_INET6, Event!AF_UNIX
  <2>4. CASE f \notin {1, 2, 10}
    BY <1>2, <2>4 DEF Event!ConnectAddress, Event!AF_INET, Event!AF_INET6, Event!AF_UNIX
  <2>5. QED
    BY <2>1, <2>2, <2>3, <2>4
<1>12. ASSUME NEW f
       PROVE  Event!ToSet(Event!AcceptAddress(f)) =
                Key("accept", CASE f = 2 -> {"ipv4"} [] f = 10 -> {"ipv6"}
                                [] f = 1 -> {"unix"} [] OTHER -> {"first", "rest"})
  <2>1. CASE f = 2
    BY <1>1, <2>1 DEF Event!AcceptAddress, Event!AF_INET, Event!AF_INET6, Event!AF_UNIX
  <2>2. CASE f = 10
    BY <1>1, <2>2 DEF Event!AcceptAddress, Event!AF_INET, Event!AF_INET6, Event!AF_UNIX
  <2>3. CASE f = 1
    BY <1>1, <2>3 DEF Event!AcceptAddress, Event!AF_INET, Event!AF_INET6, Event!AF_UNIX
  <2>4. CASE f \notin {1, 2, 10}
    BY <1>2, <2>4 DEF Event!AcceptAddress, Event!AF_INET, Event!AF_INET6, Event!AF_UNIX
  <2>5. QED
    BY <2>1, <2>2, <2>3, <2>4
<1>13. QED
  BY <1>6, <1>7, <1>8, <1>9, <1>10, <1>11, <1>12

\* The keys a description is read up to.
CellSet(d) == Event!ToSet(Event!CellParsed(d))
ParsedSet(d) == {Event!TaskId} \cup Event!ToSet(Event!COE) \cup CellSet(d)
FileSet(d) ==
  Event!ToSet(Event!FileKeys)
    \cup (IF Event!Has(d, Event!Dev) THEN Event!ToSet(Event!Dev) ELSE {})

LEMMA OneOf == ASSUME NEW k PROVE IsList(<<k>>) /\ Event!ToSet(<<k>>) = {k}
<1>1. Event!ToSet(<<k>>) = {k}
  BY DEF Event!ToSet
<1>2. QED
  BY <1>1 DEF IsList

LEMMA NoneOf == IsList(<<>>) /\ Event!ToSet(<<>>) = {}
<1>1. Event!ToSet(<<>>) = {}
  BY DEF Event!ToSet
<1>2. QED
  BY <1>1 DEF IsList

LEMMA KeyLists ==
  /\ IsList(Event!COE) /\ IsList(Event!FileKeys) /\ IsList(Event!Dev) /\ IsList(Event!SocketCreate)
  /\ IsList(Event!MmapKeys) /\ IsList(Event!TaskKill)
  /\ \A st : IsList(Event!Sock(st))
  /\ \A f : IsList(Event!ConnectAddress(f)) /\ IsList(Event!AcceptAddress(f))
<1>1. /\ IsList(Event!COE) /\ IsList(Event!FileKeys)
  <2>1. /\ IsTuple(<<"uid", "euid", "suid", "gid", "egid", "sgid", "fsuid", "fsgid", "capeff">>)
        /\ IsTuple(<<"flags", "digest", "uid", "gid", "mode", "s_magic", "s_id", "s_uuid",
                      "pathname">>)
    BY DEF IsTuple
  <2>2. QED
    BY <2>1, ListOf DEF Event!COE, Event!FileKeys
<1>2. /\ IsList(Event!Dev) /\ IsList(Event!SocketCreate) /\ IsList(Event!MmapKeys)
      /\ IsList(Event!TaskKill)
  <2>1. /\ IsTuple(<<"major", "minor">>) /\ IsTuple(<<"family", "type", "protocol", "kern">>)
        /\ IsTuple(<<"prot", "flags">>) /\ IsTuple(<<"cross", "signal", "target">>)
    BY DEF IsTuple
  <2>2. QED
    BY <2>1, ListOf DEF Event!Dev, Event!SocketCreate, Event!MmapKeys, Event!TaskKill
<1>3. ASSUME NEW st PROVE IsList(Event!Sock(st))
  <2>1. IsTuple(<<"family", "type", "protocol", "owner">>)
    BY DEF IsTuple
  <2>2. QED
    BY <2>1, ListOf DEF Event!Sock
<1>4. ASSUME NEW f PROVE IsList(Event!ConnectAddress(f)) /\ IsList(Event!AcceptAddress(f))
  <2>1. /\ \A names, st : IsTuple(names) => IsList(Event!Of(st, names))
        /\ IsTuple(<<"port", "ipv4">>) /\ IsTuple(<<"flow", "scope", "ipv6">>)
        /\ IsTuple(<<"unix">>) /\ IsTuple(<<"first", "rest">>)
        /\ IsTuple(<<"ipv4">>) /\ IsTuple(<<"ipv6">>)
    BY ListOf DEF IsTuple
  <2> DEFINE connect == CASE f = Event!AF_INET  -> <<"port", "ipv4">>
                          [] f = Event!AF_INET6 -> <<"flow", "scope", "ipv6">>
                          [] f = Event!AF_UNIX  -> <<"unix">>
                          [] OTHER              -> <<"first", "rest">>
             accept == CASE f = Event!AF_INET  -> <<"ipv4">>
                         [] f = Event!AF_INET6 -> <<"ipv6">>
                         [] f = Event!AF_UNIX  -> <<"unix">>
                         [] OTHER              -> <<"first", "rest">>
  <2>2. IsTuple(connect) /\ IsTuple(accept)
    BY <2>1
  <2>3. /\ Event!ConnectAddress(f) = Event!Of("connect", connect)
        /\ Event!AcceptAddress(f) = Event!Of("accept", accept)
    BY DEF Event!ConnectAddress, Event!AcceptAddress
  <2> HIDE DEF connect, accept
  <2>4. QED
    BY <2>1, <2>2, <2>3
<1>5. QED
  BY <1>1, <1>2, <1>3, <1>4

LEMMA FileParsedIs ==
  ASSUME NEW d
  PROVE  IsList(Event!FileParsed(d)) /\ Event!ToSet(Event!FileParsed(d)) = FileSet(d)
<1>1. IsList(IF Event!Has(d, Event!Dev) THEN Event!Dev ELSE <<>>)
  BY KeyLists, NoneOf
<1>2. Event!ToSet(IF Event!Has(d, Event!Dev) THEN Event!Dev ELSE <<>>)
        = IF Event!Has(d, Event!Dev) THEN Event!ToSet(Event!Dev) ELSE {}
  BY NoneOf
<1>3. QED
  BY <1>1, <1>2, KeyLists, SetOfConcat DEF Event!FileParsed, FileSet

LEMMA CellIs ==
  ASSUME NEW d
  PROVE  /\ IsList(Event!CellParsed(d))
         /\ d.type = "file_open" => CellSet(d) = FileSet(d)
         /\ d.type = "mmap_file" =>
              CellSet(d) = Event!ToSet(Event!MmapKeys)
                  \cup (IF Event!Has(d, Event!FileKeys) THEN FileSet(d) ELSE {})
         /\ d.type = "socket_create" => CellSet(d) = Event!ToSet(Event!SocketCreate)
         /\ d.type \in Event!Connects =>
              CellSet(d) = Event!ToSet(Event!Sock("connect"))
                             \cup Event!ToSet(Event!ConnectAddress(Event!Family(d, "connect")))
         /\ d.type = "socket_accept" =>
              CellSet(d) = Event!ToSet(Event!Sock("accept"))
                             \cup Event!ToSet(Event!AcceptAddress(Event!Family(d, "accept")))
         /\ d.type = "task_kill" => CellSet(d) = Event!ToSet(Event!TaskKill)
         /\ d.type \notin
              {"file_open", "mmap_file", "socket_create", "socket_connect", "socket_bind",
               "socket_accept", "task_kill"} => CellSet(d) = {Event!EventType}
<1>1. CASE d.type = "file_open"
  <2>1. Event!CellParsed(d) = Event!FileParsed(d)
    BY <1>1 DEF Event!CellParsed, Event!Connects
  <2>2. QED
    BY <1>1, <2>1, FileParsedIs DEF CellSet, Event!Connects
<1>2. CASE d.type = "mmap_file"
  <2> DEFINE of == IF Event!Has(d, Event!FileKeys) THEN Event!FileParsed(d) ELSE <<>>
  <2>1. Event!CellParsed(d) = Event!MmapKeys \o of
    BY <1>2 DEF Event!CellParsed, Event!MmapParsed, Event!Connects
  <2>2. IsList(of) /\ Event!ToSet(of) = IF Event!Has(d, Event!FileKeys) THEN FileSet(d) ELSE {}
    BY FileParsedIs, NoneOf
  <2> HIDE DEF of
  <2>3. /\ IsList(Event!MmapKeys \o of)
        /\ Event!ToSet(Event!MmapKeys \o of) = Event!ToSet(Event!MmapKeys) \cup Event!ToSet(of)
    BY <2>2, KeyLists, SetOfConcat
  <2>4. QED
    BY <1>2, <2>1, <2>2, <2>3 DEF CellSet, Event!Connects
<1>3. CASE d.type = "socket_create"
  <2>1. Event!CellParsed(d) = Event!SocketCreate
    BY <1>3 DEF Event!CellParsed, Event!Connects
  <2>2. QED
    BY <1>3, <2>1, KeyLists DEF CellSet, Event!Connects
<1>4. CASE d.type \in Event!Connects
  <2> DEFINE of == Event!ConnectAddress(Event!Family(d, "connect"))
  <2>1. Event!CellParsed(d) = Event!Sock("connect") \o of
    BY <1>4 DEF Event!CellParsed, Event!ConnectParsed, Event!Connects
  <2>2. IsList(Event!Sock("connect")) /\ IsList(of)
    BY KeyLists
  <2> HIDE DEF of
  <2>3. /\ IsList(Event!Sock("connect") \o of)
        /\ Event!ToSet(Event!Sock("connect") \o of) = Event!ToSet(Event!Sock("connect"))
             \cup Event!ToSet(of)
    BY <2>2, SetOfConcat
  <2>4. QED
    BY <1>4, <2>1, <2>3 DEF CellSet, Event!Connects, of
<1>5. CASE d.type = "socket_accept"
  <2> DEFINE of == Event!AcceptAddress(Event!Family(d, "accept"))
  <2>1. Event!CellParsed(d) = Event!Sock("accept") \o of
    BY <1>5 DEF Event!CellParsed, Event!AcceptParsed, Event!Connects
  <2>2. IsList(Event!Sock("accept")) /\ IsList(of)
    BY KeyLists
  <2> HIDE DEF of
  <2>3. /\ IsList(Event!Sock("accept") \o of)
        /\ Event!ToSet(Event!Sock("accept") \o of) = Event!ToSet(Event!Sock("accept"))
             \cup Event!ToSet(of)
    BY <2>2, SetOfConcat
  <2>4. QED
    BY <1>5, <2>1, <2>3 DEF CellSet, Event!Connects, of
<1>6. CASE d.type = "task_kill"
  <2>1. Event!CellParsed(d) = Event!TaskKill
    BY <1>6 DEF Event!CellParsed, Event!Connects
  <2>2. QED
    BY <1>6, <2>1, KeyLists DEF CellSet, Event!Connects
<1>7. CASE d.type \notin
           {"file_open", "mmap_file", "socket_create", "socket_connect", "socket_bind",
            "socket_accept", "task_kill"}
  <2>1. Event!CellParsed(d) = <<Event!EventType>>
    BY <1>7 DEF Event!CellParsed, Event!Connects
  <2>2. QED
    BY <1>7, <2>1, OneOf DEF CellSet, Event!Connects
<1>8. QED
  BY <1>1, <1>2, <1>3, <1>4, <1>5, <1>6, <1>7 DEF Event!Connects

LEMMA ParsedIs ==
  ASSUME NEW d
  PROVE  IsList(Event!Parsed(d)) /\ Event!ToSet(Event!Parsed(d)) = ParsedSet(d)
<1> DEFINE u == <<Event!TaskId>> \o Event!COE
<1>1. IsList(u) /\ Event!ToSet(u) = {Event!TaskId} \cup Event!ToSet(Event!COE)
  BY OneOf, KeyLists, SetOfConcat
<1> HIDE DEF u
<1>2. /\ IsList(u \o Event!CellParsed(d))
      /\ Event!ToSet(u \o Event!CellParsed(d)) = Event!ToSet(u) \cup CellSet(d)
  BY <1>1, CellIs, SetOfConcat DEF CellSet
<1>3. Event!Parsed(d) = u \o Event!CellParsed(d)
  BY DEF Event!Parsed, u
<1>4. QED
  BY <1>1, <1>2, <1>3 DEF ParsedSet

LEMMA Before ==
  ASSUME NEW l \in Nat, NEW a \in 0..l, a # l
  PROVE  a \in Nat /\ a + 1 <= l
OBVIOUS

\* A description is read to its end exactly when it has each of the keys.
LEMMA ReadsAll ==
  ASSUME NEW d
  PROVE  /\ Event!ReadUpTo(d) = Len(Event!Parsed(d)) <=> ParsedSet(d) \subseteq DOMAIN d.key
         /\ Event!ReadUpTo(d) = Len(Event!Parsed(d)) =>
              {Event!Parsed(d)[i] : i \in 1..Event!ReadUpTo(d)} = ParsedSet(d)
<1> DEFINE keys == Event!Parsed(d)
           there(n) == \A i \in 1..n : keys[i] \in DOMAIN d.key
           T == {i \in 1..Len(keys) : keys[i] \notin DOMAIN d.key}
<1>1. /\ Len(keys) \in Nat /\ DOMAIN keys = 1..Len(keys)
      /\ ParsedSet(d) = {keys[i] : i \in 1..Len(keys)}
  BY ParsedIs DEF IsList, Event!ToSet
<1>2. Event!ReadUpTo(d) = CHOOSE n \in 0..Len(keys) : there(n) /\ (n = Len(keys) \/ ~there(n + 1))
  BY DEF Event!ReadUpTo
<1> HIDE DEF keys
<1>3. \E n \in 0..Len(keys) : there(n) /\ (n = Len(keys) \/ ~there(n + 1))
  <2>1. CASE T = {}
    <3>1. Len(keys) \in 0..Len(keys) /\ there(Len(keys))
      BY <1>1, <2>1
    <3>2. QED
      BY <3>1
  <2>2. CASE T # {}
    <3>1. T \in SUBSET Nat
      BY <1>1
    <3> HIDE DEF T
    <3>2. PICK m \in T : \A k \in T : m <= k
      BY <2>2, <3>1, LeastOf
    <3> USE DEF T
    <3>3. m - 1 \in 0..Len(keys) /\ m - 1 + 1 = m /\ m \in 1..m
      BY <1>1, <3>2
    <3>4. there(m - 1)
      <4>1. ASSUME NEW i \in 1..(m - 1) PROVE keys[i] \in DOMAIN d.key
        <5>1. i \in 1..Len(keys) /\ ~(m <= i)
          BY <1>1, <3>2
        <5>2. QED
          BY <3>2, <5>1
      <4>2. QED
        BY <4>1
    <3>5. ~there(m - 1 + 1)
      BY <3>2, <3>3
    <3>6. QED
      BY <3>3, <3>4, <3>5
  <2>3. QED
    BY <2>1, <2>2
<1> DEFINE n == Event!ReadUpTo(d)
<1>4. n \in 0..Len(keys) /\ there(n) /\ (n = Len(keys) \/ ~there(n + 1))
  BY <1>2, <1>3
<1> HIDE DEF n
<1>5. n = Len(keys) <=> there(Len(keys))
  <2>1. CASE n = Len(keys)
    BY <1>4, <2>1
  <2>2. CASE n # Len(keys)
    <3>1. n \in Nat /\ n + 1 <= Len(keys)
      <4>1. Len(keys) \in Nat /\ n \in 0..Len(keys)
        BY <1>1, <1>4
      <4>2. QED
        BY SMTT(30), <2>2, <4>1, Before
    <3>2. 1..(n + 1) \subseteq 1..Len(keys)
      BY <1>1, <3>1
    <3>3. QED
      BY <1>4, <2>2, <3>2
  <2>3. QED
    BY <2>1, <2>2
<1>6. there(Len(keys)) <=> ParsedSet(d) \subseteq DOMAIN d.key
  BY <1>1
<1>7. QED
  BY <1>1, <1>5, <1>6 DEF n, keys

LEMMA HasIs ==
  ASSUME NEW d, NEW keys
  PROVE  Event!Has(d, keys) <=> \E k \in Event!ToSet(keys) : k \in DOMAIN d.key
BY DEF Event!Has, Event!ToSet

\* Every member there is, and those that are read.
LEMMA MembersAre ==
  /\ \A k \in Event!Cleared : k \in Event!Members
  /\ Event!Strings \subseteq Event!Cleared
  /\ Event!Digest \in Event!ToSet(Event!FileKeys) /\ Event!Pathname \in Event!ToSet(Event!FileKeys)
  /\ Event!Pathname \in Event!Strings /\ Event!Digest \notin Event!Cleared
  /\ Event!ToSet(Event!FileKeys) \subseteq Event!Members
  /\ Event!ToSet(Event!COE) \subseteq Event!Members
<1>1. Event!Strings \subseteq Event!Cleared /\ Event!Pathname \in Event!Strings
  BY DEF Event!Cleared, Event!Strings
<1>2. /\ Event!ToSet(Event!FileKeys) \subseteq Event!Members
      /\ Event!ToSet(Event!COE) \subseteq Event!Members
      /\ Event!TaskId \in Event!Members /\ Event!EventType \in Event!Members
  BY DEF Event!Members
<1>3. Event!Digest \in Event!ToSet(Event!FileKeys) /\ Event!Pathname \in Event!ToSet(Event!FileKeys)
  BY KeySets DEF Key, Event!Digest, Event!Pathname
<1>4. Event!Digest \notin Event!Cleared
  BY KeySets DEF Key, Event!Digest, Event!Cleared, Event!Strings, Event!TaskId, Event!EventType,
    Event!Pathname
<1>5. \A k \in Event!Cleared : k \in Event!Members
  BY <1>2, <1>3 DEF Event!Cleared, Event!Strings
<1>6. QED
  BY <1>1, <1>2, <1>3, <1>4, <1>5

LEMMA ParsedInMembers == ASSUME NEW d PROVE ParsedSet(d) \subseteq Event!Members
<1> DEFINE f == Event!Family(d, "connect")  g == Event!Family(d, "accept")
<1>1. /\ Event!ToSet(Event!COE) \subseteq Event!Members
      /\ Event!ToSet(Event!FileKeys) \subseteq Event!Members
      /\ Event!ToSet(Event!Dev) \subseteq Event!Members
      /\ Event!ToSet(Event!SocketCreate) \subseteq Event!Members
      /\ Event!ToSet(Event!MmapKeys) \subseteq Event!Members
      /\ Event!ToSet(Event!TaskKill) \subseteq Event!Members
      /\ Event!TaskId \in Event!Members /\ Event!EventType \in Event!Members
      /\ Event!ToSet(Event!Sock("connect")) \subseteq Event!Members
      /\ Event!ToSet(Event!Sock("accept")) \subseteq Event!Members
  BY DEF Event!Members
<1>2. \A h \in {1, 2, 10, 3} :
        /\ Event!ToSet(Event!ConnectAddress(h)) \subseteq Event!Members
        /\ Event!ToSet(Event!AcceptAddress(h)) \subseteq Event!Members
  BY DEF Event!Members, Event!AF_UNIX, Event!AF_INET, Event!AF_INET6
<1>3. \A h : \E i \in {1, 2, 10, 3} :
        /\ Event!ToSet(Event!ConnectAddress(h)) = Event!ToSet(Event!ConnectAddress(i))
        /\ Event!ToSet(Event!AcceptAddress(h)) = Event!ToSet(Event!AcceptAddress(i))
  <2>1. ASSUME NEW h, h \notin {1, 2, 10, 3}
        PROVE  /\ Event!ToSet(Event!ConnectAddress(h)) = Event!ToSet(Event!ConnectAddress(3))
               /\ Event!ToSet(Event!AcceptAddress(h)) = Event!ToSet(Event!AcceptAddress(3))
    BY <2>1 DEF Event!ConnectAddress, Event!AcceptAddress, Event!AF_UNIX, Event!AF_INET,
      Event!AF_INET6
  <2>2. QED
    BY <2>1
<1>4. /\ Event!ToSet(Event!ConnectAddress(f)) \subseteq Event!Members
      /\ Event!ToSet(Event!AcceptAddress(g)) \subseteq Event!Members
  BY <1>2, <1>3
<1> HIDE DEF f, g
<1>5. FileSet(d) \subseteq Event!Members
  BY <1>1 DEF FileSet
<1>6. CellSet(d) \subseteq Event!Members
  BY <1>1, <1>4, <1>5, CellIs DEF f, g, Event!Connects
<1>7. QED
  BY <1>1, <1>6 DEF ParsedSet

\* What is read of a description into an object that was reset.
LEMMA ReadIs ==
  ASSUME NEW d, Event!Read(d), \A k \in Event!Cleared : member[k] = 0
  PROVE  /\ type' = d.type /\ UNCHANGED <<measured, identity, text>>
         /\ DOMAIN member' = Event!Members
         /\ d.type = "mmap_file" => have_file' = Event!Has(d, Event!FileKeys)
         /\ \/ /\ stage' = "parsed" /\ ParsedSet(d) \subseteq DOMAIN d.key
               /\ \A k \in ParsedSet(d) : member'[k] = d.key[k]
            \/ stage' = "failed" /\ ~(ParsedSet(d) \subseteq DOMAIN d.key)
<1> DEFINE keys == Event!Parsed(d)
           filled == {keys[i] : i \in 1..Event!ReadUpTo(d)}
           no_dev == IF Event!Pathname \in filled /\ ~Event!Has(d, Event!Dev)
                     THEN Event!ToSet(Event!Dev) ELSE {}
<1>1. /\ type' = d.type
      /\ have_file' = IF d.type = "mmap_file" THEN Event!Has(d, Event!FileKeys) ELSE have_file
      /\ member' = [k \in Event!Members |-> IF k \in filled THEN Event!Stored(k, d.key[k])
                                            ELSE IF k \in no_dev THEN 0 ELSE member[k]]
      /\ stage' = IF Event!ReadUpTo(d) = Len(keys) THEN "parsed" ELSE "failed"
      /\ UNCHANGED <<measured, identity, text>>
  BY DEF Event!Read
<1>2. \A k, v : Event!Stored(k, v) = v
  BY MembersAre DEF Event!Stored
<1>3. Event!ReadUpTo(d) = Len(keys) <=> ParsedSet(d) \subseteq DOMAIN d.key
  BY ReadsAll
<1>4. Event!ReadUpTo(d) = Len(keys) => filled = ParsedSet(d)
  BY ReadsAll
<1>5. ParsedSet(d) \subseteq Event!Members
  BY ParsedInMembers
<1> HIDE DEF keys, filled, no_dev
<1>6. DOMAIN member' = Event!Members
  BY <1>1
<1>7. ASSUME Event!ReadUpTo(d) = Len(keys) PROVE \A k \in ParsedSet(d) : member'[k] = d.key[k]
  BY <1>1, <1>2, <1>4, <1>5, <1>7
<1>8. QED
  BY <1>1, <1>3, <1>6, <1>7

\* The event the object is of, and what its members are.
Evt == event_event
Value(k) == IF k = Event!Digest /\ masked THEN Event!ZeroFile ELSE Evt.key[k]

WholeEvent ==
  /\ ParsedSet(Evt) \subseteq DOMAIN Evt.key /\ DOMAIN Evt.key \subseteq Exported(Evt)
  /\ masked /\ Event!Pathname \in ParsedSet(Evt) => Evt.key[Event!Pathname] \in MaskedFiles

\* What format writes of an event.
WrittenSet(e) ==
  {Event!TaskId} \cup Event!ToSet(Event!COE) \cup
    CASE e.type = "file_open" -> Event!ToSet(Event!FileKeys) \cup Event!ToSet(Event!Dev)
      [] e.type = "mmap_file" ->
           Event!ToSet(Event!MmapKeys)
             \cup (IF Event!Has(e, Event!FileKeys) THEN Event!ToSet(Event!FileKeys)
                   \cup Event!ToSet(Event!Dev) ELSE {})
      [] e.type = "socket_create" -> Event!ToSet(Event!SocketCreate)
      [] e.type \in Event!Connects ->
           Event!ToSet(Event!Sock("connect"))
             \cup Event!AddressWritten(Event!Family(e, "connect"),
                   Event!ConnectAddress(Event!Family(e, "connect")))
      [] e.type = "socket_accept" ->
           Event!ToSet(Event!Sock("accept"))
             \cup Event!AddressWritten(Event!Family(e, "accept"),
                   Event!AcceptAddress(Event!Family(e, "accept")))
      [] e.type = "task_kill" -> Event!KillWritten
      [] OTHER -> {Event!EventType}

\* A description that was read whole is in the members, one that was written is of
\* the event, and an object that waits for one was reset.
FilledInv ==
  stage \in {"parsed", "measured", "masked late"} =>
    /\ WholeEvent /\ type = Evt.type
    /\ \A k \in ParsedSet(Evt) : member[k] = Value(k)
    /\ type = "mmap_file" => have_file = Event!Has(Evt, Event!FileKeys)

TextInv ==
  stage = "written" \/ (stage = "idle" /\ text # Event!None) =>
    /\ WholeEvent /\ text.type = Evt.type /\ DOMAIN text.key = WrittenSet(Evt)
    /\ \A k \in ParsedSet(Evt) : k \in WrittenSet(Evt) => text.key[k] = Value(k)

ObjectInv ==
  /\ DOMAIN member = Event!Members
  /\ stage = "idle" => measured = FALSE /\ \A k \in Event!Cleared : member[k] = 0
  /\ stage = "parsed" => measured = FALSE
  /\ FilledInv /\ TextInv /\ PointIsOfTheEvent

LEMMA ObjectParse ==
  ASSUME ObjectInv, NEW d \in Descriptions, Event!Parse(d)
  PROVE  ObjectInv'
<1>1. /\ stage = "idle" /\ Event!Read(d) /\ event_event' = d /\ read_back' = FALSE
      /\ masked' = FALSE
      /\ measured = FALSE /\ \A k \in Event!Cleared : member[k] = 0
  BY DEF Event!Parse, ObjectInv
<1>2. DOMAIN d.key \subseteq Exported(d)
  BY DescriptionsAssumption
<1>3. /\ type' = d.type /\ UNCHANGED <<measured, identity, text>> /\ DOMAIN member' = Event!Members
      /\ d.type = "mmap_file" => have_file' = Event!Has(d, Event!FileKeys)
      /\ stage' \in {"parsed", "failed"}
      /\ stage' = "parsed"
           => ParsedSet(d) \subseteq DOMAIN d.key /\ \A k \in ParsedSet(d) : member'[k] = d.key[k]
  BY <1>1, ReadIs
<1>4. FilledInv'
  BY <1>1, <1>2, <1>3 DEF FilledInv, WholeEvent, Value, Evt
<1>5. TextInv' /\ PointIsOfTheEvent'
  BY <1>1, <1>3 DEF TextInv, PointIsOfTheEvent, Event!PointIsOfTheEvent, Event!FormattedIsReadable
<1>6. QED
  BY <1>1, <1>3, <1>4, <1>5 DEF ObjectInv

\* What format has written is read whole, but for the kinds of event that are named.
LEMMA ReadBack ==
  ASSUME WholeEvent, text.type = Evt.type, DOMAIN text.key = WrittenSet(Evt),
         \A k \in ParsedSet(Evt) : k \in WrittenSet(Evt) => text.key[k] = Value(k)
  PROVE  /\ \/ ParsedSet(text) \subseteq WrittenSet(Evt)
            \/ Evt.type = "task_kill"
            \/ Evt.type \in Event!Connects /\ Event!Family(Evt, "connect") \notin {1, 2}
            \/ Evt.type = "socket_accept" /\ Event!Family(Evt, "accept") \notin {1, 2}
         /\ ParsedSet(text) \subseteq WrittenSet(Evt) => ParsedSet(Evt) \subseteq ParsedSet(text)
         /\ Evt.type = "mmap_file"
              => Event!Has(text, Event!FileKeys) = Event!Has(Evt, Event!FileKeys)
<1> DEFINE W == WrittenSet(Evt)
           fully == \/ ParsedSet(text) \subseteq W
                    \/ Evt.type = "task_kill"
                    \/ Evt.type \in Event!Connects /\ Event!Family(Evt, "connect") \notin {1, 2}
                    \/ Evt.type = "socket_accept" /\ Event!Family(Evt, "accept") \notin {1, 2}
           covers == ParsedSet(text) \subseteq W => ParsedSet(Evt) \subseteq ParsedSet(text)
<1>0. /\ \A k \in ParsedSet(Evt) : k \in DOMAIN Evt.key
      /\ \A keys : Event!Has(text, keys) <=> \E k \in Event!ToSet(keys) : k \in W
  BY HasIs DEF WholeEvent
<1>1. CASE Evt.type = "file_open"
  <2>1. W = {Event!TaskId} \cup Event!ToSet(Event!COE) \cup Event!ToSet(Event!FileKeys)
        \cup Event!ToSet(Event!Dev)
    BY <1>1 DEF WrittenSet, Event!Connects
  <2>2. CellSet(text) = FileSet(text) /\ CellSet(Evt) = FileSet(Evt)
    BY <1>1, CellIs
  <2>3. <<"file", "major">> \in Event!ToSet(Event!Dev)
    BY KeySets DEF Key
  <2>4. Event!Has(text, Event!Dev)
    BY <1>0, <2>1, <2>3
  <2>5. /\ FileSet(text) = Event!ToSet(Event!FileKeys) \cup Event!ToSet(Event!Dev)
        /\ FileSet(Evt) \subseteq FileSet(text)
    BY <2>4 DEF FileSet
  <2> HIDE DEF W
  <2>6. fully /\ covers
    BY <2>1, <2>2, <2>5 DEF ParsedSet
  <2>7. QED
    BY <1>1, <2>6 DEF W, Event!Connects
<1>2. CASE Evt.type = "mmap_file"
  <2>1. W = {Event!TaskId} \cup Event!ToSet(Event!COE) \cup Event!ToSet(Event!MmapKeys)
              \cup (IF Event!Has(Evt, Event!FileKeys)
                    THEN Event!ToSet(Event!FileKeys) \cup Event!ToSet(Event!Dev) ELSE {})
    BY <1>2 DEF WrittenSet, Event!Connects
  <2>2. \A d : d.type = "mmap_file" =>
          CellSet(d) = Event!ToSet(Event!MmapKeys)
              \cup (IF Event!Has(d, Event!FileKeys) THEN FileSet(d) ELSE {})
    BY CellIs
  <2>3. CASE Event!Has(Evt, Event!FileKeys)
    <3>1. <<"file", "major">> \in Event!ToSet(Event!Dev)
      BY KeySets DEF Key
    <3>2. Event!Has(text, Event!Dev) /\ Event!Has(text, Event!FileKeys)
      BY <1>0, <2>1, <2>3, <3>1, MembersAre
    <3>3. /\ FileSet(text) = Event!ToSet(Event!FileKeys) \cup Event!ToSet(Event!Dev)
          /\ FileSet(Evt) \subseteq FileSet(text)
      BY <3>2 DEF FileSet
    <3> HIDE DEF W
    <3>4. fully /\ covers
      BY <1>2, <2>1, <2>2, <2>3, <3>2, <3>3 DEF ParsedSet
    <3>5. QED
      BY <1>2, <2>3, <3>2, <3>4 DEF W, Event!Connects
  <2>4. CASE ~Event!Has(Evt, Event!FileKeys)
    <3>1. \A k \in Event!ToSet(Event!FileKeys) :
            /\ k # Event!TaskId /\ k \notin Event!ToSet(Event!COE)
            /\ k \notin Event!ToSet(Event!MmapKeys)
      BY KeySets DEF Key, Event!TaskId
    <3>2. ~Event!Has(text, Event!FileKeys)
      BY <1>0, <2>1, <2>4, <3>1
    <3> HIDE DEF W
    <3>3. fully /\ covers
      BY <1>2, <2>1, <2>2, <2>4, <3>2 DEF ParsedSet
    <3>4. Event!Has(text, Event!FileKeys) = Event!Has(Evt, Event!FileKeys)
      BY <2>4, <3>2 DEF Event!Has
    <3>5. QED
      BY <1>2, <3>3, <3>4 DEF W, Event!Connects
  <2>5. QED
    BY <2>3, <2>4
<1>3. CASE Evt.type = "socket_create"
  <2>1. W = {Event!TaskId} \cup Event!ToSet(Event!COE) \cup Event!ToSet(Event!SocketCreate)
    BY <1>3 DEF WrittenSet, Event!Connects
  <2>2. CellSet(text) = CellSet(Evt) /\ CellSet(Evt) = Event!ToSet(Event!SocketCreate)
    BY <1>3, CellIs
  <2> HIDE DEF W
  <2>3. fully /\ covers
    BY <2>1, <2>2 DEF ParsedSet
  <2>4. QED
    BY <1>3, <2>3 DEF W, Event!Connects
<1>4. CASE Evt.type \in Event!Connects
  <2> DEFINE f == Event!Family(Evt, "connect")  k == <<"connect", "family">>
  <2>1. W = {Event!TaskId} \cup Event!ToSet(Event!COE) \cup Event!ToSet(Event!Sock("connect"))
              \cup (IF f \in {1, 2} THEN Event!ToSet(Event!ConnectAddress(f)) ELSE {})
    BY <1>4 DEF WrittenSet, Event!Connects, Event!AddressWritten, Event!AF_INET, Event!AF_UNIX
  <2>2. /\ CellSet(Evt) = Event!ToSet(Event!Sock("connect"))
             \cup Event!ToSet(Event!ConnectAddress(f))
        /\ CellSet(text) = Event!ToSet(Event!Sock("connect"))
                             \cup Event!ToSet(Event!ConnectAddress(Event!Family(text, "connect")))
    BY <1>4, CellIs
  <2>3. k \in Event!ToSet(Event!Sock("connect")) /\ k # Event!Digest
    BY KeySets DEF Key, Event!Digest
  <2>4. k \in ParsedSet(Evt) /\ k \in W
    BY <2>1, <2>2, <2>3 DEF ParsedSet
  <2>5. text.key[k] = Evt.key[k] /\ k \in DOMAIN Evt.key /\ k \in DOMAIN text.key
    BY <1>0, <2>3, <2>4 DEF Value
  <2>6. Event!Family(text, "connect") = f
    BY <2>5 DEF Event!Family
  <2> HIDE DEF W, f, k
  <2>7. fully /\ covers
    BY <1>4, <2>1, <2>2, <2>6 DEF ParsedSet, f
  <2>8. QED
    BY <1>4, <2>7 DEF W, f, Event!Connects
<1>5. CASE Evt.type = "socket_accept"
  <2> DEFINE f == Event!Family(Evt, "accept")  k == <<"accept", "family">>
  <2>1. W = {Event!TaskId} \cup Event!ToSet(Event!COE) \cup Event!ToSet(Event!Sock("accept"))
              \cup (IF f \in {1, 2} THEN Event!ToSet(Event!AcceptAddress(f)) ELSE {})
    BY <1>5 DEF WrittenSet, Event!Connects, Event!AddressWritten, Event!AF_INET, Event!AF_UNIX
  <2>2. /\ CellSet(Evt) = Event!ToSet(Event!Sock("accept")) \cup Event!ToSet(Event!AcceptAddress(f))
        /\ CellSet(text) = Event!ToSet(Event!Sock("accept"))
                             \cup Event!ToSet(Event!AcceptAddress(Event!Family(text, "accept")))
    BY <1>5, CellIs
  <2>3. k \in Event!ToSet(Event!Sock("accept")) /\ k # Event!Digest
    BY KeySets DEF Key, Event!Digest
  <2>4. k \in ParsedSet(Evt) /\ k \in W
    BY <2>1, <2>2, <2>3 DEF ParsedSet
  <2>5. text.key[k] = Evt.key[k] /\ k \in DOMAIN Evt.key /\ k \in DOMAIN text.key
    BY <1>0, <2>3, <2>4 DEF Value
  <2>6. Event!Family(text, "accept") = f
    BY <2>5 DEF Event!Family
  <2> HIDE DEF W, f, k
  <2>7. fully /\ covers
    BY <1>5, <2>1, <2>2, <2>6 DEF ParsedSet, f
  <2>8. QED
    BY <1>5, <2>7 DEF W, f, Event!Connects
<1>6. CASE Evt.type = "task_kill"
  <2>1. CellSet(text) = CellSet(Evt)
    BY <1>6, CellIs
  <2>2. covers
    BY <2>1 DEF ParsedSet
  <2>3. QED
    BY <1>6, <2>2
<1>7. CASE Evt.type \notin
           {"file_open", "mmap_file", "socket_create", "socket_connect", "socket_bind",
            "socket_accept", "task_kill"}
  <2>1. W = {Event!TaskId} \cup Event!ToSet(Event!COE) \cup {Event!EventType}
    BY <1>7 DEF WrittenSet, Event!Connects
  <2>2. CellSet(text) = {Event!EventType} /\ CellSet(Evt) = {Event!EventType}
    BY <1>7, CellIs
  <2> HIDE DEF W
  <2>3. fully /\ covers
    BY <2>1, <2>2 DEF ParsedSet
  <2>4. QED
    BY <1>7, <2>3 DEF W, Event!Connects
<1>8. QED
  BY <1>1, <1>2, <1>3, <1>4, <1>5, <1>6, <1>7 DEF Event!Connects

LEMMA ObjectParseWritten ==
  ASSUME ObjectInv, Event!ParseWritten
  PROVE  ObjectInv'
<1>1. /\ stage = "idle" /\ text # Event!None /\ Event!Read(text)
      /\ UNCHANGED <<event_event, masked>>
      /\ read_back' = TRUE /\ measured = FALSE /\ \A k \in Event!Cleared : member[k] = 0
  BY DEF Event!ParseWritten, ObjectInv
<1>2. /\ WholeEvent /\ text.type = Evt.type /\ DOMAIN text.key = WrittenSet(Evt)
      /\ \A k \in ParsedSet(Evt) : k \in WrittenSet(Evt) => text.key[k] = Value(k)
  BY <1>1 DEF ObjectInv, TextInv
<1>3. /\ type' = text.type /\ UNCHANGED <<measured, identity, text>>
      /\ DOMAIN member' = Event!Members
      /\ text.type = "mmap_file" => have_file' = Event!Has(text, Event!FileKeys)
      /\ \/ /\ stage' = "parsed" /\ ParsedSet(text) \subseteq DOMAIN text.key
            /\ \A k \in ParsedSet(text) : member'[k] = text.key[k]
         \/ stage' = "failed" /\ ~(ParsedSet(text) \subseteq DOMAIN text.key)
  BY <1>1, ReadIs
<1>4. FilledInv'
  <2>1. CASE stage' = "parsed"
    <3>1. ParsedSet(text) \subseteq WrittenSet(Evt) /\ ParsedSet(Evt) \subseteq ParsedSet(text)
      BY <1>2, <1>3, <2>1, ReadBack
    <3>2. \A k \in ParsedSet(Evt) : member'[k] = Value(k)
      BY <1>2, <1>3, <2>1, <3>1
    <3>3. Evt' = Evt /\ WholeEvent' /\ \A k : Value(k)' = Value(k)
      BY <1>1, <1>2 DEF Evt, WholeEvent, Value
    <3>4. /\ type' = Evt' .type
          /\ (type' = "mmap_file" => have_file' = Event!Has(Evt', Event!FileKeys))
      BY <1>2, <1>3, <3>3, ReadBack
    <3>5. QED
      BY <3>2, <3>3, <3>4 DEF FilledInv
  <2>2. CASE stage' # "parsed"
    BY <1>3, <2>2 DEF FilledInv
  <2>3. QED
    BY <2>1, <2>2
<1>5. TextInv' /\ Event!PointIsOfTheEvent'
  BY <1>1, <1>3 DEF TextInv, Event!PointIsOfTheEvent
<1>6. Event!FormattedIsReadable'
  <2>1. CASE stage' = "failed"
    <3>1. ~(ParsedSet(text) \subseteq WrittenSet(Evt))
      BY <1>2, <1>3, <2>1
    <3>2. \/ Evt.type = "task_kill"
          \/ Evt.type \in Event!Connects /\ Event!Family(Evt, "connect") \notin {1, 2}
          \/ Evt.type = "socket_accept" /\ Event!Family(Evt, "accept") \notin {1, 2}
      BY <1>2, <3>1, ReadBack
    <3>3. QED
      BY <1>1, <3>2 DEF Event!FormattedIsReadable, Evt, Event!AF_INET, Event!AF_UNIX
  <2>2. CASE stage' # "failed"
    BY <2>2 DEF Event!FormattedIsReadable
  <2>3. QED
    BY <2>1, <2>2
<1>7. QED
  BY <1>1, <1>3, <1>4, <1>5, <1>6 DEF ObjectInv, PointIsOfTheEvent

LEMMA ObjectEvaluate ==
  ASSUME ObjectInv, Event!EvaluatePseudonym
  PROVE  ObjectInv'
<1>1. /\ stage \in {"parsed", "measured"} /\ member[Event!Pathname] \in MaskedFiles
      /\ member' = [member EXCEPT ![Event!Digest] = Event!ZeroFile] /\ masked' = TRUE
      /\ stage' = IF stage = "measured" THEN "masked late" ELSE stage
      /\ UNCHANGED <<type, have_file, measured, identity, text, event_event, read_back>>
  BY DEF Event!EvaluatePseudonym
<1>2. /\ WholeEvent /\ type = Evt.type
      /\ \A k \in ParsedSet(Evt) : member[k] = Value(k)
      /\ type = "mmap_file" => have_file = Event!Has(Evt, Event!FileKeys)
      /\ DOMAIN member = Event!Members
  BY <1>1 DEF ObjectInv, FilledInv
<1>3. /\ DOMAIN member' = Event!Members /\ member'[Event!Digest] = Event!ZeroFile
      /\ \A k \in Event!Members : k # Event!Digest => member'[k] = member[k]
  BY <1>1, <1>2, MembersAre
<1>4. Event!Pathname # Event!Digest
  BY DEF Event!Pathname, Event!Digest
<1>5. Event!Pathname \in ParsedSet(Evt) => Evt.key[Event!Pathname] \in MaskedFiles
  BY <1>1, <1>2, <1>4 DEF Value
<1>6. Evt' = Evt /\ \A k : Value(k)' = IF k = Event!Digest THEN Event!ZeroFile ELSE Evt.key[k]
  BY <1>1 DEF Evt, Value
<1>7. \A k \in ParsedSet(Evt) : member'[k] = Value(k)'
  <2>1. ASSUME NEW k \in ParsedSet(Evt) PROVE member'[k] = Value(k)'
    <3>1. k \in Event!Members /\ member[k] = Value(k)
      BY <1>2, ParsedInMembers
    <3>2. QED
      BY <1>3, <1>6, <3>1 DEF Value
  <2>2. QED
    BY <2>1
<1>8. FilledInv' /\ (stage' = "parsed" => measured' = FALSE)
  BY <1>1, <1>2, <1>5, <1>6, <1>7 DEF FilledInv, WholeEvent, ObjectInv
<1>9. TextInv' /\ PointIsOfTheEvent' /\ stage' # "idle"
  BY <1>1 DEF TextInv, PointIsOfTheEvent, Event!PointIsOfTheEvent, Event!FormattedIsReadable,
    ObjectInv
<1>10. QED
  BY <1>3, <1>8, <1>9 DEF ObjectInv

\* The keys that are exported, and what of them is left out.
CellExported(d) ==
  CASE d.type = "file_open" -> Event!ToSet(Event!FileKeys) \cup Event!ToSet(Event!Dev)
    [] d.type = "mmap_file" ->
         Event!ToSet(Event!MmapKeys) \cup Event!ToSet(Event!FileKeys) \cup Event!ToSet(Event!Dev)
    [] d.type = "socket_create" -> Event!ToSet(Event!SocketCreate)
    [] d.type \in Event!Connects ->
         Event!ToSet(Event!Sock("connect")) \cup Event!Port("connect", Event!Family(d, "connect"))
           \cup Event!ToSet(Event!ConnectAddress(Event!Family(d, "connect")))
    [] d.type = "socket_accept" ->
         Event!ToSet(Event!Sock("accept")) \cup Event!Port("accept", Event!Family(d, "accept"))
           \cup Event!ToSet(Event!AcceptAddress(Event!Family(d, "accept")))
    [] d.type = "task_kill" -> Event!ToSet(Event!TaskKill)
    [] OTHER -> {Event!EventType}

LEMMA ExportedIs ==
  ASSUME NEW d
  PROVE  Exported(d) = {Event!TaskId} \cup Event!ToSet(Event!COE) \cup CellExported(d)
<1>1. \A s : ToSet(s) = Event!ToSet(s)
  BY DEF ToSet, Event!ToSet
<1>2. QED
  BY <1>1 DEF Exported, CellExported

Fsgid == <<"coe", "fsgid">>
PortKeys == {<<"connect", "port">>, <<"accept", "port">>}
LeftOut(d) ==
  {Fsgid, <<"connect", "rest">>, <<"accept", "port">>} \cup Event!ToSet(Event!Dev)
    \cup (IF Event!Family(d, "connect") = 10 THEN {<<"connect", "port">>} ELSE {})

LEMMA LeftOutIs ==
  ASSUME NEW d
  PROVE  /\ Event!TaskId \notin LeftOut(d) /\ Event!EventType \notin LeftOut(d)
         /\ \A k \in Event!ToSet(Event!COE) : k \in LeftOut(d) <=> k = Fsgid
         /\ \A k \in Event!ToSet(Event!FileKeys) : k \notin LeftOut(d) /\ k # Fsgid
         /\ Event!ToSet(Event!Dev) \subseteq LeftOut(d)
         /\ \A k \in Event!ToSet(Event!SocketCreate) : k \notin LeftOut(d)
         /\ \A k \in Event!ToSet(Event!MmapKeys) : k \notin LeftOut(d)
         /\ \A k \in Event!ToSet(Event!TaskKill) : k \notin LeftOut(d)
         /\ \A k \in Event!ToSet(Event!Sock("connect")) : k \notin LeftOut(d)
         /\ \A k \in Event!ToSet(Event!Sock("accept")) : k \notin LeftOut(d)
         /\ Fsgid \in LeftOut(d) /\ <<"connect", "rest">> \in LeftOut(d)
<1>1. Event!ToSet(Event!Dev) = {<<"file", "major">>, <<"file", "minor">>}
  BY KeySets DEF Key
<1> DEFINE U == LeftOut(d)
<1>2. \A k : k \in U =>
        k \in {Fsgid, <<"connect", "rest">>, <<"accept", "port">>, <<"connect", "port">>,
               <<"file", "major">>, <<"file", "minor">>}
  BY <1>1 DEF LeftOut
<1>3. /\ Fsgid \in U /\ <<"connect", "rest">> \in U /\ Event!ToSet(Event!Dev) \subseteq U
  BY DEF LeftOut
<1> HIDE DEF U
<1>4. Event!TaskId \notin U /\ Event!EventType \notin U
  BY <1>2 DEF Event!TaskId, Event!EventType, Fsgid
<1>5. \A k \in Event!ToSet(Event!COE) : k \in U <=> k = Fsgid
  BY <1>2, <1>3, KeySets DEF Key, Fsgid
<1>6. \A k \in Event!ToSet(Event!FileKeys) : k \notin U /\ k # Fsgid
  BY <1>2, KeySets DEF Key, Fsgid
<1>7. /\ \A k \in Event!ToSet(Event!SocketCreate) : k \notin U
      /\ \A k \in Event!ToSet(Event!MmapKeys) : k \notin U
      /\ \A k \in Event!ToSet(Event!TaskKill) : k \notin U
  BY <1>2, KeySets DEF Key, Fsgid
<1>8. /\ \A k \in Event!ToSet(Event!Sock("connect")) : k \notin U
      /\ \A k \in Event!ToSet(Event!Sock("accept")) : k \notin U
  BY <1>2, KeySets DEF Key, Fsgid
<1>9. QED
  BY <1>3, <1>4, <1>5, <1>6, <1>7, <1>8 DEF U

\* What is hashed of an event that was read whole: each key that is not left out,
\* and ports.
HashedSet == {Event!TaskId} \cup Event!COEMeasured \cup Event!CellMeasured
Due == DOMAIN Evt.key \ LeftOut(Evt)

LEMMA HashedIs ==
  ASSUME WholeEvent, type = Evt.type, \A k \in ParsedSet(Evt) : member[k] = Value(k),
         type = "mmap_file" => have_file = Event!Has(Evt, Event!FileKeys)
  PROVE  /\ Due \subseteq HashedSet /\ HashedSet \ Due \subseteq PortKeys
         /\ Due \subseteq ParsedSet(Evt)
         /\ \A k \in Event!ToSet(Event!FileKeys) : k \in Due
              => Event!ToSet(Event!FileKeys) \subseteq ParsedSet(Evt)
<1> DEFINE C == Event!ToSet(Event!COE)  F == Event!ToSet(Event!FileKeys)
           D == Event!ToSet(Event!Dev)  U == LeftOut(Evt)  T == Event!TaskId
<1>1. /\ \A k \in DOMAIN Evt.key : k = T \/ k \in C \/ k \in CellExported(Evt)
      /\ \A k \in ParsedSet(Evt) : k \in DOMAIN Evt.key
      /\ \A k : k \in ParsedSet(Evt) <=> k = T \/ k \in C \/ k \in CellSet(Evt)
  BY ExportedIs DEF WholeEvent, ParsedSet
<1>2. /\ T \notin U
      /\ (\A k \in C : k \in U <=> k = Fsgid) /\ Fsgid \in U /\ <<"connect", "rest">> \in U
      /\ (\A k \in F : k \notin U) /\ D \subseteq U
  BY LeftOutIs
<1>3. Event!COEMeasured = C \ {Fsgid}
  BY DEF Event!COEMeasured, Fsgid
<1>4. \A k : k \in HashedSet <=> k = T \/ (k \in C /\ k # Fsgid) \/ k \in Event!CellMeasured
  BY <1>3 DEF HashedSet
<1> HIDE DEF C, F, D, U, T
\* It is enough to look at what depends on the type.
<1>5. ASSUME /\ \A k \in CellExported(Evt) : k \in DOMAIN Evt.key /\ k \notin U
                  => k \in Event!CellMeasured /\ k \in CellSet(Evt)
             /\ \A k \in Event!CellMeasured : k \in PortKeys \/ (k \in CellSet(Evt) /\ k \notin U)
             /\ \A k \in CellExported(Evt) : k \in F /\ k \in CellSet(Evt)
                  => F \subseteq CellSet(Evt)
      PROVE  /\ Due \subseteq HashedSet /\ HashedSet \ Due \subseteq PortKeys
             /\ Due \subseteq ParsedSet(Evt)
             /\ \A k \in F : k \in Due => F \subseteq ParsedSet(Evt)
  <2>1. \A k \in Due : k \in HashedSet /\ k \in ParsedSet(Evt)
    BY <1>1, <1>2, <1>4, <1>5 DEF Due, U
  <2>2. \A k \in HashedSet : k \in PortKeys \/ k \in Due
    BY <1>1, <1>2, <1>4, <1>5 DEF Due, U
  <2>3. ASSUME NEW k \in F, k \in Due PROVE F \subseteq ParsedSet(Evt)
    <3>1. k # T /\ k \notin C
      BY KeySets DEF Key, F, T, C, Event!TaskId
    <3>2. k \in CellExported(Evt) /\ k \in CellSet(Evt)
      BY <1>1, <2>1, <2>3, <3>1 DEF Due
    <3>3. QED
      BY <1>1, <1>5, <2>3, <3>2
  <2>4. QED
    BY <2>1, <2>2, <2>3
<1>6. /\ \A k \in CellExported(Evt) : k \in DOMAIN Evt.key /\ k \notin U
           => k \in Event!CellMeasured /\ k \in CellSet(Evt)
      /\ \A k \in Event!CellMeasured : k \in PortKeys \/ (k \in CellSet(Evt) /\ k \notin U)
      /\ \A k \in CellExported(Evt) : k \in F /\ k \in CellSet(Evt) => F \subseteq CellSet(Evt)
  <2>1. CASE Evt.type = "file_open"
    <3>1. CellExported(Evt) = F \cup D /\ Event!CellMeasured = F /\ CellSet(Evt) = FileSet(Evt)
      BY <2>1, CellIs DEF CellExported, Event!CellMeasured, Event!Connects, F, D
    <3>2. F \subseteq FileSet(Evt)
      BY DEF FileSet, F
    <3>3. QED
      BY <1>2, <3>1, <3>2
  <2>2. CASE Evt.type = "mmap_file"
    <3> DEFINE M == Event!ToSet(Event!MmapKeys)
    <3>1. /\ CellExported(Evt) = M \cup F \cup D
          /\ Event!CellMeasured = M \cup (IF Event!Has(Evt, Event!FileKeys) THEN F ELSE {})
          /\ CellSet(Evt) = M \cup (IF Event!Has(Evt, Event!FileKeys) THEN FileSet(Evt) ELSE {})
      BY <2>2, CellIs DEF CellExported, Event!CellMeasured, Event!MmapMeasured, Event!Connects, F, D
    <3>2. F \subseteq FileSet(Evt) /\ (\A k \in M : k \notin U)
      BY LeftOutIs DEF FileSet, F, U
    <3>3. \A k \in F : k \notin M
      BY KeySets DEF Key, F
    <3>4. ~Event!Has(Evt, Event!FileKeys) => \A k \in F : k \notin DOMAIN Evt.key
      BY HasIs DEF F
    <3> HIDE DEF M
    <3>5. QED
      BY <1>2, <3>1, <3>2, <3>3, <3>4
  <2>3. CASE Evt.type = "socket_create"
    <3>1. /\ CellExported(Evt) = Event!ToSet(Event!SocketCreate)
          /\ Event!CellMeasured = Event!ToSet(Event!SocketCreate)
          /\ CellSet(Evt) = Event!ToSet(Event!SocketCreate)
      BY <2>3, CellIs DEF CellExported, Event!CellMeasured, Event!Connects
    <3>2. \A k \in Event!ToSet(Event!SocketCreate) : k \notin U /\ k \notin F
      BY LeftOutIs, KeySets DEF U, Key, F
    <3>3. QED
      BY <3>1, <3>2
  <2>4. CASE Evt.type \in Event!Connects
    <3> DEFINE f == Event!Family(Evt, "connect")  S == Event!ToSet(Event!Sock("connect"))
               A == Event!ToSet(Event!ConnectAddress(f))  P == Event!Port("connect", f)
               k0 == <<"connect", "family">>
    <3>1. CellExported(Evt) = S \cup P \cup A /\ CellSet(Evt) = S \cup A
      BY <2>4, CellIs DEF CellExported, Event!Connects
    <3>2. k0 \in S /\ k0 # Event!Digest
      BY KeySets DEF Key, Event!Digest
    <3>3. member[k0] = f
      <4>1. k0 \in ParsedSet(Evt) /\ k0 \in DOMAIN Evt.key
        BY <1>1, <3>1, <3>2
      <4>2. member[k0] = Evt.key[k0]
        BY <3>2, <4>1 DEF Value
      <4>3. QED
        BY <4>1, <4>2 DEF Event!Family
    <3>4. Event!CellMeasured = S \cup P \cup (A \ {<<"connect", "rest">>})
      BY <2>4, <3>3 DEF Event!CellMeasured, Event!ConnectMeasured, Event!Connects
    <3>5. \A k \in S : k \notin U /\ k \notin F
      BY LeftOutIs, KeySets DEF U, Key, F
    <3>6. \A k \in P : k = <<"connect", "port">> /\ (f = 2 \/ f = 10)
      BY DEF Event!Port, Event!AF_INET, Event!AF_INET6
    <3>7. /\ f = 2 => <<"connect", "port">> \in A
          /\ f = 10 => <<"connect", "port">> \in U
      BY KeySets DEF Key, U, LeftOut
    <3>8. \A k \in A : k \notin F /\ (k \in U => k \in PortKeys \/ k = <<"connect", "rest">>)
      <4>1. D = {<<"file", "major">>, <<"file", "minor">>}
        BY KeySets DEF Key, D
      <4>2. \A k \in A : \E n : k = <<"connect", n>>
        BY KeySets DEF Key
      <4>3. \A k \in A : k \notin D /\ k # Fsgid
        BY <4>1, <4>2 DEF Fsgid
      <4>4. \A k \in A : k \notin F
        BY <4>2, KeySets DEF Key, F
      <4>5. QED
        BY <4>3, <4>4 DEF U, LeftOut, PortKeys, D
    <3> HIDE DEF f, S, A, P
    <3>9. /\ \A k \in CellExported(Evt) : k \notin U
               => k \in Event!CellMeasured /\ k \in CellSet(Evt)
          /\ \A k \in CellExported(Evt) : k \notin F
      <4>1. <<"connect", "port">> \notin F
        BY KeySets DEF Key, F
      <4>2. QED
        BY <1>2, <3>1, <3>4, <3>5, <3>6, <3>7, <3>8, <4>1
    <3>10. \A k \in Event!CellMeasured : k \in PortKeys \/ (k \in CellSet(Evt) /\ k \notin U)
      BY <3>1, <3>4, <3>5, <3>6, <3>8 DEF PortKeys
    <3>11. QED
      BY <3>9, <3>10
  <2>5. CASE Evt.type = "socket_accept"
    <3> DEFINE f == Event!Family(Evt, "accept")  S == Event!ToSet(Event!Sock("accept"))
               A == Event!ToSet(Event!AcceptAddress(f))  P == Event!Port("accept", f)
               k0 == <<"accept", "family">>
    <3>1. CellExported(Evt) = S \cup P \cup A /\ CellSet(Evt) = S \cup A
      BY <2>5, CellIs DEF CellExported, Event!Connects
    <3>2. k0 \in S /\ k0 # Event!Digest
      BY KeySets DEF Key, Event!Digest
    <3>3. member[k0] = f
      <4>1. k0 \in ParsedSet(Evt) /\ k0 \in DOMAIN Evt.key
        BY <1>1, <3>1, <3>2
      <4>2. member[k0] = Evt.key[k0]
        BY <3>2, <4>1 DEF Value
      <4>3. QED
        BY <4>1, <4>2 DEF Event!Family
    <3>4. Event!CellMeasured = S \cup P \cup A
      BY <2>5, <3>3 DEF Event!CellMeasured, Event!AcceptMeasured, Event!Connects
    <3>5. \A k \in S : k \notin U /\ k \notin F
      BY LeftOutIs, KeySets DEF U, Key, F
    <3>6. (\A k \in P : k = <<"accept", "port">>) /\ <<"accept", "port">> \in U
      BY DEF Event!Port, U, LeftOut
    <3>7. \A k \in A : k \notin F /\ (k \in U => k \in PortKeys)
      <4>1. D = {<<"file", "major">>, <<"file", "minor">>}
        BY KeySets DEF Key, D
      <4>2. \A k \in A : \E n : k = <<"accept", n>>
        BY KeySets DEF Key
      <4>3. \A k \in A :
            k \notin D /\ k # Fsgid /\ k # <<"connect", "rest">> /\ k # <<"connect", "port">>
        BY <4>1, <4>2 DEF Fsgid
      <4>4. \A k \in A : k \notin F
        BY <4>2, KeySets DEF Key, F
      <4>5. QED
        BY <4>3, <4>4 DEF U, LeftOut, PortKeys, D
    <3> HIDE DEF f, S, A, P
    <3>8. /\ \A k \in CellExported(Evt) : k \notin U
               => k \in Event!CellMeasured /\ k \in CellSet(Evt)
          /\ \A k \in CellExported(Evt) : k \notin F
      <4>1. <<"accept", "port">> \notin F
        BY KeySets DEF Key, F
      <4>2. QED
        BY <3>1, <3>4, <3>5, <3>6, <3>7, <4>1
    <3>9. \A k \in Event!CellMeasured : k \in PortKeys \/ (k \in CellSet(Evt) /\ k \notin U)
      BY <3>1, <3>4, <3>5, <3>6, <3>7 DEF PortKeys
    <3>10. QED
      BY <3>8, <3>9
  <2>6. CASE Evt.type = "task_kill"
    <3>1. /\ CellExported(Evt) = Event!ToSet(Event!TaskKill)
          /\ Event!CellMeasured = Event!ToSet(Event!TaskKill)
          /\ CellSet(Evt) = Event!ToSet(Event!TaskKill)
      BY <2>6, CellIs DEF CellExported, Event!CellMeasured, Event!Connects
    <3>2. \A k \in Event!ToSet(Event!TaskKill) : k \notin U /\ k \notin F
      BY LeftOutIs, KeySets DEF U, Key, F
    <3>3. QED
      BY <3>1, <3>2
  <2>7. CASE Evt.type \notin
             {"file_open", "mmap_file", "socket_create", "socket_connect", "socket_bind",
              "socket_accept", "task_kill"}
    <3>1. /\ CellExported(Evt) = {Event!EventType} /\ Event!CellMeasured = {Event!EventType}
          /\ CellSet(Evt) = {Event!EventType}
      BY <2>7, CellIs DEF CellExported, Event!CellMeasured, Event!Connects
    <3>2. Event!EventType \notin U /\ Event!EventType \notin F
      BY LeftOutIs, KeySets DEF U, Key, F, Event!EventType
    <3>3. QED
      BY <3>1, <3>2
  <2>8. QED
    BY <2>1, <2>2, <2>3, <2>4, <2>5, <2>6, <2>7 DEF Event!Connects
<1>7. QED
  BY <1>5, <1>6 DEF F

LEMMA ObjectMeasure ==
  ASSUME ObjectInv, Event!Measure
  PROVE  ObjectInv'
<1>1. /\ stage = "parsed" /\ measured = FALSE /\ DOMAIN member = Event!Members
      /\ WholeEvent /\ type = Evt.type
      /\ \A k \in ParsedSet(Evt) : member[k] = Value(k)
      /\ type = "mmap_file" => have_file = Event!Has(Evt, Event!FileKeys)
  BY DEF ObjectInv, FilledInv, Event!Measure
<1>2. /\ identity' = [k \in HashedSet |-> Event!Hashed(k)]
      /\ measured' = TRUE /\ stage' = "measured"
      /\ UNCHANGED <<type, have_file, member, text, event_event, read_back, masked>>
  BY <1>1 DEF Event!Measure, HashedSet
<1>3. /\ Due \subseteq HashedSet /\ HashedSet \ Due \subseteq PortKeys
      /\ Due \subseteq ParsedSet(Evt)
      /\ \A k \in Event!ToSet(Event!FileKeys) : k \in Due
           => Event!ToSet(Event!FileKeys) \subseteq ParsedSet(Evt)
  BY <1>1, HashedIs
<1>4. ASSUME NEW k \in Due PROVE Event!Hashed(k) = Event!Due(k)
  <2> DEFINE uuid == <<"file", "s_uuid">>  magic == <<"file", "s_magic">>
  <2>1. /\ uuid \in Event!ToSet(Event!FileKeys) /\ magic \in Event!ToSet(Event!FileKeys)
        /\ uuid # Event!Digest /\ magic # Event!Digest /\ Event!Pathname # Event!Digest
    BY KeySets DEF Key, Event!Digest, Event!Pathname
  <2>2. k \in ParsedSet(Evt) /\ member[k] = Value(k)
    BY <1>1, <1>3
  <2>3. CASE k = uuid
    <3>1. member[magic] = Evt.key[magic]
      BY <1>1, <1>3, <2>1, <2>3 DEF Value
    <3>2. member[k] = Evt.key[k]
      BY <2>1, <2>2, <2>3 DEF Value
    <3>3. QED
      BY <2>1, <2>3, <3>1, <3>2 DEF Event!Hashed, Event!Due, Evt
  <2>4. CASE k = Event!Digest
    <3>1. masked => Evt.key[Event!Pathname] \in MaskedFiles
      BY <1>1, <1>3, <2>4, MembersAre DEF WholeEvent
    <3>2. Event!Hashed(k) = Value(k)
      BY <2>1, <2>2, <2>4 DEF Event!Hashed
    <3>3. Event!Due(k) = IF masked THEN Event!ZeroFile ELSE Evt.key[k]
      BY <2>1, <2>4, <3>1 DEF Event!Due, Evt
    <3>4. QED
      BY <2>4, <3>2, <3>3 DEF Value
  <2>5. CASE k # uuid /\ k # Event!Digest
    BY <2>2, <2>5 DEF Event!Hashed, Event!Due, Value, Evt
  <2>6. QED
    BY <2>3, <2>4, <2>5
<1>5. DOMAIN event_event.key \ Event!Unmeasured = Due
  BY DEF Due, Evt, LeftOut, Event!Unmeasured, Fsgid, Event!AF_INET6
<1>6. DOMAIN identity' = HashedSet /\ \A k \in Due : identity'[k] = Event!Due(k)
  BY <1>2, <1>3, <1>4
<1>7. Event!Unmeasured' = Event!Unmeasured /\ \A k : Event!Due(k)' = Event!Due(k)
  BY <1>2 DEF Event!Unmeasured, Event!Due, Event!Family
<1>8. Event!PointIsOfTheEvent'
  <2>1. DOMAIN event_event'.key \ Event!Unmeasured' = Due
    BY <1>2, <1>5, <1>7
  <2>2. /\ Due \subseteq DOMAIN identity' /\ \A k \in Due : identity'[k] = Event!Due(k)'
        /\ DOMAIN identity' \ Due \subseteq {<<"connect", "port">>, <<"accept", "port">>}
    BY <1>3, <1>6, <1>7 DEF PortKeys
  <2>3. QED
    BY <2>1, <2>2 DEF Event!PointIsOfTheEvent
<1>9. Evt' = Evt /\ WholeEvent' /\ \A k : Value(k)' = Value(k)
  BY <1>1, <1>2 DEF Evt, WholeEvent, Value
<1>10. FilledInv'
  BY <1>1, <1>2, <1>9 DEF FilledInv
<1>11. TextInv' /\ Event!FormattedIsReadable'
  BY <1>2 DEF TextInv, Event!FormattedIsReadable
<1>12. QED
  BY <1>1, <1>2, <1>8, <1>10, <1>11 DEF ObjectInv, PointIsOfTheEvent

\* The keys that are written are those of the event.
LEMMA WrittenIs ==
  ASSUME type = Evt.type, \A k \in ParsedSet(Evt) : member[k] = Value(k), WholeEvent,
         type = "mmap_file" => have_file = Event!Has(Evt, Event!FileKeys)
  PROVE  {Event!TaskId} \cup Event!ToSet(Event!COE) \cup Event!CellWritten = WrittenSet(Evt)
<1> DEFINE c == <<"connect", "family">>  a == <<"accept", "family">>
<1>1. /\ c \in Event!ToSet(Event!Sock("connect")) /\ a \in Event!ToSet(Event!Sock("accept"))
      /\ c # Event!Digest /\ a # Event!Digest
  BY KeySets DEF Key, Event!Digest
<1>2. ASSUME type \in Event!Connects PROVE member[c] = Event!Family(Evt, "connect")
  <2>1. c \in ParsedSet(Evt) /\ c \in DOMAIN Evt.key
    BY <1>1, <1>2, CellIs DEF ParsedSet, WholeEvent, Event!Connects
  <2>2. QED
    BY <1>1, <2>1 DEF Value, Event!Family
<1>3. ASSUME type = "socket_accept" PROVE member[a] = Event!Family(Evt, "accept")
  <2>1. a \in ParsedSet(Evt) /\ a \in DOMAIN Evt.key
    BY <1>1, <1>3, CellIs DEF ParsedSet, WholeEvent, Event!Connects
  <2>2. QED
    BY <1>1, <2>1 DEF Value, Event!Family
<1>4. CASE type \in Event!Connects
  BY <1>2, <1>4 DEF Event!CellWritten, WrittenSet, Event!ConnectWritten, Event!Connects
<1>5. CASE type = "socket_accept"
  BY <1>3, <1>5 DEF Event!CellWritten, WrittenSet, Event!AcceptWritten, Event!Connects
<1>6. CASE type = "mmap_file"
  BY <1>6 DEF Event!CellWritten, WrittenSet, Event!MmapWritten, Event!FileWritten, Event!Connects
<1>7. CASE type \notin Event!Connects /\ type # "socket_accept" /\ type # "mmap_file"
  BY <1>7 DEF Event!CellWritten, WrittenSet, Event!FileWritten
<1>8. QED
  BY <1>4, <1>5, <1>6, <1>7

LEMMA ObjectFormat ==
  ASSUME ObjectInv, Event!Format
  PROVE  ObjectInv'
<1> DEFINE K == {Event!TaskId} \cup Event!ToSet(Event!COE) \cup Event!CellWritten
<1>1. /\ stage \in {"measured", "masked late"} /\ DOMAIN member = Event!Members
      /\ WholeEvent /\ type = Evt.type
      /\ \A k \in ParsedSet(Evt) : member[k] = Value(k)
      /\ type = "mmap_file" => have_file = Event!Has(Evt, Event!FileKeys)
  BY DEF ObjectInv, FilledInv, Event!Format
<1>2. /\ text' = [type |-> type, key |-> [k \in K |-> member[k]]]
      /\ stage' = "written"
      /\ UNCHANGED <<type, have_file, member, measured, identity, event_event, read_back, masked>>
  BY DEF Event!Format
<1>3. K = WrittenSet(Evt)
  BY <1>1, WrittenIs
<1> HIDE DEF K
<1>4. /\ text'.type = Evt.type /\ DOMAIN text'.key = WrittenSet(Evt)
      /\ \A k \in ParsedSet(Evt) : k \in WrittenSet(Evt) => text'.key[k] = Value(k)
  BY <1>1, <1>2, <1>3
<1>5. Evt' = Evt /\ WholeEvent' /\ \A k : Value(k)' = Value(k)
  BY <1>1, <1>2 DEF Evt, WholeEvent, Value
<1>6. TextInv'
  BY <1>4, <1>5 DEF TextInv
<1>7. FilledInv' /\ PointIsOfTheEvent'
  BY <1>2 DEF FilledInv, PointIsOfTheEvent, Event!PointIsOfTheEvent, Event!FormattedIsReadable
<1>8. QED
  BY <1>1, <1>2, <1>6, <1>7 DEF ObjectInv

LEMMA ObjectReset ==
  ASSUME ObjectInv, Event!Reset
  PROVE  ObjectInv'
<1>1. /\ stage \in {"measured", "written"} /\ stage' = "idle" /\ measured' = FALSE
      /\ member' = [k \in Event!Members |-> IF k \in Event!Cleared THEN 0 ELSE member[k]]
      /\ text' = IF stage = "written" THEN text ELSE Event!None
      /\ UNCHANGED <<event_event, masked>>
  BY DEF Event!Reset
<1>2. DOMAIN member' = Event!Members /\ \A k \in Event!Cleared : member'[k] = 0
  BY <1>1, MembersAre
<1>3. Evt' = Evt /\ (WholeEvent => WholeEvent') /\ \A k : Value(k)' = Value(k)
  BY <1>1 DEF Evt, WholeEvent, Value
<1>4. TextInv'
  BY <1>1, <1>3 DEF TextInv, ObjectInv
<1>5. FilledInv' /\ PointIsOfTheEvent'
  BY <1>1 DEF FilledInv, PointIsOfTheEvent, Event!PointIsOfTheEvent, Event!FormattedIsReadable
<1>6. QED
  BY <1>1, <1>2, <1>4, <1>5 DEF ObjectInv

LEMMA ObjectKeeps ==
  ASSUME ObjectInv, UNCHANGED objectVars
  PROVE  ObjectInv'
<1>1. UNCHANGED <<stage, left, type, have_file, member, measured, identity, text, event_event,
                  read_back, masked>>
  BY DEF objectVars
<1>2. Evt' = Evt /\ (WholeEvent => WholeEvent') /\ \A k : Value(k)' = Value(k)
  BY <1>1 DEF Evt, WholeEvent, Value
<1>3. FilledInv'
  BY <1>1, <1>2 DEF FilledInv, ObjectInv
<1>4. TextInv'
  BY <1>1, <1>2 DEF TextInv, ObjectInv
<1>5. Event!Unmeasured' = Event!Unmeasured /\ \A k : Event!Due(k)' = Event!Due(k)
  BY <1>1 DEF Event!Unmeasured, Event!Due, Event!Family
<1>6. Event!PointIsOfTheEvent'
  BY <1>1, <1>5 DEF Event!PointIsOfTheEvent, ObjectInv, PointIsOfTheEvent
<1>7. Event!FormattedIsReadable'
  BY <1>1 DEF Event!FormattedIsReadable, Event!Family, ObjectInv, PointIsOfTheEvent
<1>8. QED
  BY <1>1, <1>3, <1>4, <1>6, <1>7 DEF ObjectInv, PointIsOfTheEvent

LEMMA ObjectInit == MCInit => ObjectInv
<1> SUFFICES ASSUME MCInit PROVE ObjectInv
  OBVIOUS
<1>1. Event!Init
  BY DEF MCInit
<1>2. /\ stage = "idle" /\ measured = FALSE /\ text = Event!None
      /\ DOMAIN member = Event!Members /\ \A k \in Event!Cleared : member[k] = 0
  BY <1>1, MembersAre DEF Event!Init
<1>3. QED
  BY <1>2 DEF ObjectInv, FilledInv, TextInv, PointIsOfTheEvent, Event!PointIsOfTheEvent,
    Event!FormattedIsReadable

LEMMA ObjectStep ==
  ASSUME ObjectInv, [MCNext]_mcVars
  PROVE  ObjectInv'
<1>1. CASE Event!Next
  BY <1>1, ObjectParse, ObjectParseWritten, ObjectEvaluate, ObjectMeasure, ObjectFormat, ObjectReset
    DEF Event!Next
<1>2. CASE UNCHANGED objectVars
  BY <1>2, ObjectKeeps
<1>3. QED
  BY <1>1, <1>2 DEF MCNext, mcVars

\* PointIsOfTheEvent holds for any events whose descriptions have no keys but
\* those of their kind, whatever reset leaves in the members an earlier event set:
\* COE.c and Cell.c hash what SecurityEvent.c has parsed of this event alone, but
\* for the port of an accept or of an AF_INET6 connection.  Cell.c does not parse
\* that and measures what the object holds; the property leaves it out by name.
THEOREM PointIsOfItsEvent == MCSpec => []PointIsOfTheEvent
<1>1. MCInit => ObjectInv
  BY ObjectInit
<1>2. ObjectInv /\ [MCNext]_mcVars => ObjectInv'
  BY ObjectStep
<1>3. ObjectInv => PointIsOfTheEvent
  BY DEF ObjectInv
<1>4. QED
  BY <1>1, <1>2, <1>3, PTL DEF MCSpec
=============================================================================
