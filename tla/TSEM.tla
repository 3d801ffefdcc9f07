-------------------------------- MODULE TSEM --------------------------------
(***************************************************************************)
(* The trusted modeling agent object of SecurityModel/TSEM.c with the      *)
(* objects it owns: the security points (SecurityPoint.c), the event model *)
(* that holds the pseudonyms (EventModel.c) and what it asks of an event   *)
(* (SecurityEvent.c).                                                      *)
(*                                                                         *)
(* Every orchestrator that models outside the kernel, and every Sancho     *)
(* co-processor, owns one such object and calls it from a single thread,   *)
(* so one action is one whole method call.                                 *)
(*                                                                         *)
(* Hashes are symbolic.  A linear extension measurement is the sequence of *)
(* the updates that extended it, each with the base point in force: hash   *)
(* functions are taken to be injective.  A security point is the identity  *)
(* of its measurement.                                                     *)
(***************************************************************************)
EXTENDS Naturals, Sequences, SequencesExt

CONSTANTS Points,           \* security state points
          Events,           \* events a kernel can export
          Entries,          \* lines of a model file
          Aggregates,       \* hardware aggregate values
          Bases,            \* base points (nonces)
          Pseudonyms,       \* names under which an event's file is known
          Pids,             \* process identifiers
          ZeroBase,         \* the base point of an object just created
          DefaultAggregate, \* the aggregate of a host without a TPM
          Malformed,        \* the argument of a line that does not parse
          NoPid,            \* no event was modelled yet
          NoVerdict,        \* update has not returned, or returned an error
          MaxCount,         \* bound on the hits of one point
          MaxExtensions,    \* bound on the measurement, for failed loads
          MaxTEvents        \* bound on the logged violations

VARIABLES
  poisoned, loading, sealed, logging, discipline_pid,
  base,          \* base point
  aggregate,     \* aggregate measurement, empty until there is one
  measurement,   \* linear extension measurement
  points,        \* the security points, in the order they were added
  trajectory,    \* events that added a point to an unsealed model
  forensics,     \* events that added a point to a sealed model
  TE_events,     \* number of logged violations
  pseudonyms,    \* the pseudonyms of the event model
  key,           \* state of the buffer holding the signer's key
  verdict        \* what the latest update returned to its caller

vars == <<poisoned, loading, sealed, logging, discipline_pid, base, aggregate,
          measurement, points, trajectory, forensics, TE_events, pseudonyms,
          key, verdict>>

\* What the commands of a model file leave alone, whatever the command.
eventVars == <<logging, discipline_pid, trajectory, forensics, TE_events, verdict>>

-----------------------------------------------------------------------------
(* Values.                                                                 *)

Commands == {"comment", "key", "base", "aggregate", "state", "pseudonym",
             "seal", "signature", "end"}

\* An event carries the point it measures to, the point it measures to when
\* its file digest is masked, the name its file may be masked under, its pid.
EventRecords == [point : Points, masked : Points, cell : Pseudonyms, pid : Pids]

\* The arguments a command can carry.  A signature is valid or not for the
\* lines before it.
Arguments(cmd) ==
  CASE cmd = "base"      -> Bases \cup {Malformed}
    [] cmd = "aggregate" -> Aggregates \cup {Malformed}
    [] cmd = "state"     -> Points \cup {Malformed}
    [] cmd = "pseudonym" -> Pseudonyms \cup {Malformed}
    [] cmd = "signature" -> BOOLEAN
    [] OTHER             -> {Malformed}

ASSUME EventsAssumption == Events \subseteq EventRecords

ASSUME EntriesAssumption ==
  \A e \in Entries : e.cmd \in Commands /\ e.arg \in Arguments(e.cmd)

ASSUME ValuesAssumption ==
  /\ ZeroBase \in Bases
  /\ Malformed \notin Points \cup Bases \cup Aggregates \cup Pseudonyms
  /\ NoVerdict \notin [point : Points, discipline : BOOLEAN, sealed : BOOLEAN]
  /\ MaxCount \in Nat
  /\ MaxExtensions \in Nat
  /\ MaxTEvents \in Nat

Extensions == [base : Bases, value : Points \cup Aggregates \cup {DefaultAggregate}]

SecurityPoints == [id : Points, count : Nat, valid : BOOLEAN]

LogEntries == [point : Points, pid : Pids]

Verdicts == [point : Points, discipline : BOOLEAN, sealed : BOOLEAN]

TypeOK ==
  /\ poisoned \in BOOLEAN
  /\ loading \in BOOLEAN
  /\ sealed \in BOOLEAN
  /\ logging \in BOOLEAN
  /\ discipline_pid \in Pids \cup {NoPid}
  /\ base \in Bases
  /\ aggregate \in Seq(Extensions)
  /\ measurement \in Seq(Extensions)
  /\ points \in Seq(SecurityPoints)
  /\ trajectory \in Seq(LogEntries)
  /\ forensics \in Seq(LogEntries)
  /\ TE_events \in Nat
  /\ pseudonyms \subseteq Pseudonyms
  /\ key \in {"none", "encoded", "decoded"}
  /\ verdict \in Verdicts \cup {NoVerdict}

Init ==
  /\ poisoned = FALSE
  /\ loading = FALSE
  /\ sealed = FALSE
  /\ logging = TRUE
  /\ discipline_pid = NoPid
  /\ base = ZeroBase
  /\ aggregate = <<>>
  /\ measurement = <<>>
  /\ points = <<>>
  /\ trajectory = <<>>
  /\ forensics = <<>>
  /\ TE_events = 0
  /\ pseudonyms = {}
  /\ key = "none"
  /\ verdict = NoVerdict

-----------------------------------------------------------------------------
(* Helpers.                                                                *)

have_aggregate == aggregate # <<>>

\* _extend_measurement: project the update on the base point and extend.
Extend(chain, update) == Append(chain, [base |-> base, value |-> update])

\* Mutant: only valid points are looked at.
MappedValid(p) == {i \in DOMAIN points : points[i].id = p /\ points[i].valid}

\* The indices of the points equal to p; _is_mapped looks for the first one.
Mapped(p) == {i \in DOMAIN points : points[i].id = p}

\* Mutant: a hit makes an invalid point valid.
CountHitRevalidates(p) ==
  LET i == CHOOSE i \in Mapped(p) : \A j \in Mapped(p) : i <= j
  IN  /\ points[i].count < MaxCount
      /\ points' = [points EXCEPT ![i] = [id |-> p, count |-> @.count + 1, valid |-> TRUE]]

\* _is_mapped found p: its count is incremented.
CountHit(p) ==
  LET i == CHOOSE i \in Mapped(p) : \A j \in Mapped(p) : i <= j
  IN  /\ points[i].count < MaxCount
      /\ points' = [points EXCEPT ![i].count = @ + 1]

\* The measurement update extends: a model that was given no aggregate is
\* extended with the default one first.
AggregatedMeasurement ==
  IF have_aggregate THEN measurement ELSE Extend(measurement, DefaultAggregate)

UseDefaultAggregate ==
  aggregate' = IF have_aggregate THEN aggregate ELSE AggregatedMeasurement

\* EventModel.evaluate: an event whose file is registered as a pseudonym has
\* its digest masked, and so measures to another point.
Evaluate(event) == IF event.cell \in pseudonyms THEN event.masked ELSE event.point

LogEntry(event) == [point |-> Evaluate(event), pid |-> event.pid]

-----------------------------------------------------------------------------
(* The modelling of an event: TSEM.update.                                 *)

Updatable == ~poisoned /\ ~loading

\* Mutant: a violation is reported only the first time.
DisciplinedOnce(p) == FALSE

\* The event maps to p: a point that is not valid has its process disciplined.
Disciplined(p) == \E i \in Mapped(p) : ~points[i].valid

\* The event maps to a point of the model.
UpdateMapped(event) ==
  LET p == Evaluate(event)
  IN  /\ Updatable
      /\ Mapped(p) # {}
      /\ CountHit(p)
      /\ UseDefaultAggregate
      /\ measurement' = AggregatedMeasurement
      /\ discipline_pid' = event.pid
      /\ verdict' = [point |-> p, discipline |-> Disciplined(p), sealed |-> sealed]
      /\ UNCHANGED <<poisoned, loading, sealed, logging, base, trajectory,
                     forensics, TE_events, pseudonyms, key>>

\* Mutant: a point of a sealed model is not marked invalid.
AddPointValid(p) == points' = Append(points, [id |-> p, count |-> 1, valid |-> TRUE])

\* The point is added, and is invalid if the model is sealed.
AddPoint(p) ==
  points' = Append(points, [id |-> p, count |-> 1, valid |-> ~sealed])

\* The event is a violation of a sealed model, or part of what happened before.
LogEvent(event) ==
  /\ forensics'  = IF logging /\ sealed
                     THEN Append(forensics, LogEntry(event)) ELSE forensics
  /\ trajectory' = IF logging /\ ~sealed
                     THEN Append(trajectory, LogEntry(event)) ELSE trajectory

\* The event maps to no point: it extends the model, and is logged.
UpdateNew(event) ==
  LET p == Evaluate(event)
  IN  /\ Updatable
      /\ Mapped(p) = {}
      /\ UseDefaultAggregate
      /\ measurement' = Extend(AggregatedMeasurement, p)
      /\ AddPoint(p)
      /\ LogEvent(event)
      /\ discipline_pid' = event.pid
      /\ verdict' = [point |-> p, discipline |-> sealed, sealed |-> sealed]
      /\ UNCHANGED <<poisoned, loading, sealed, logging, base, TE_events,
                     pseudonyms, key>>

\* update fails and poisons the object: it was poisoned or a model was being
\* loaded, or memory ran out before the event was measured, before its point
\* was added, or before it was logged.
UpdateFails(event) ==
  LET p == Evaluate(event)
  IN  /\ poisoned' = TRUE
      /\ verdict' = NoVerdict
      /\ \/ ~Updatable /\ UNCHANGED <<aggregate, measurement, points, discipline_pid>>
         \/ /\ Updatable
            /\ UseDefaultAggregate
            /\ measurement' = AggregatedMeasurement
            /\ discipline_pid' \in {discipline_pid, event.pid}
            /\ UNCHANGED points
         \/ /\ Updatable
            /\ Mapped(p) = {}
            /\ UseDefaultAggregate
            /\ measurement' = Extend(AggregatedMeasurement, p)
            /\ discipline_pid' = event.pid
            /\ UNCHANGED points \/ (logging /\ AddPoint(p))
      /\ UNCHANGED <<loading, sealed, logging, base, trajectory, forensics,
                     TE_events, pseudonyms, key>>

-----------------------------------------------------------------------------
(* The aggregate and the log of violations.                                *)

\* Mutant: a sealed model takes another aggregate.
AdoptAggregateSealed(a) ==
  LET start == Extend(<<>>, a)
  IN  IF aggregate = start
        THEN UNCHANGED <<aggregate, measurement>>
        ELSE aggregate' = start /\ measurement' = start

\* set_aggregate: a sealed model and an aggregate already in force are left
\* alone, any other aggregate starts the measurement again.
AdoptAggregate(a) ==
  LET start == Extend(<<>>, a)
  IN  IF sealed \/ aggregate = start
        THEN UNCHANGED <<aggregate, measurement>>
        ELSE aggregate' = start /\ measurement' = start

SetAggregate(a) ==
  /\ ~poisoned
  /\ AdoptAggregate(a)
  /\ UNCHANGED <<poisoned, loading, base, sealed, points, pseudonyms, key, eventVars>>

\* Memory runs out while the aggregate is projected.
SetAggregateFails ==
  /\ ~poisoned
  /\ ~sealed
  /\ poisoned' = TRUE
  /\ UNCHANGED <<loading, sealed, base, aggregate, measurement, points,
                 pseudonyms, key, eventVars>>

add_TSEM_event ==
  /\ ~poisoned
  /\ logging
  /\ TE_events < MaxTEvents
  /\ TE_events' = TE_events + 1
  /\ UNCHANGED <<poisoned, loading, sealed, logging, discipline_pid, base,
                 aggregate, measurement, points, trajectory, forensics,
                 pseudonyms, key, verdict>>

\* The small co-processors do without the lists of events.
disable_logging ==
  /\ logging' = FALSE
  /\ UNCHANGED <<poisoned, loading, sealed, discipline_pid, base, aggregate,
                 measurement, points, trajectory, forensics, TE_events,
                 pseudonyms, key, verdict>>

Seal ==
  /\ sealed' = TRUE
  /\ UNCHANGED <<poisoned, loading, base, aggregate, measurement, points,
                 pseudonyms, key, eventVars>>

-----------------------------------------------------------------------------
(* The loading of a model, one line a call: TSEM.load.                     *)

\* The line is a cmd the object can take.
Takes(entry, cmd) == /\ ~poisoned
                     /\ entry.cmd = cmd

LoadComment(entry) ==
  /\ Takes(entry, "comment")
  /\ loading' = TRUE
  /\ UNCHANGED <<poisoned, sealed, base, aggregate, measurement, points,
                 pseudonyms, key, eventVars>>

LoadKey(entry) ==
  /\ Takes(entry, "key")
  /\ key = "none"
  /\ key' = "encoded"
  /\ loading' = TRUE
  /\ UNCHANGED <<poisoned, sealed, base, aggregate, measurement, points,
                 pseudonyms, eventVars>>

\* Mutant: the base point is taken as it comes.
LoadBaseUnchecked(entry) ==
  /\ Takes(entry, "base")
  /\ base' = entry.arg
  /\ loading' = TRUE
  /\ UNCHANGED <<poisoned, sealed, aggregate, measurement, points,
                 pseudonyms, key, eventVars>>

LoadBase(entry) ==
  /\ Takes(entry, "base")
  /\ entry.arg # Malformed
  /\ base' = entry.arg
  /\ loading' = TRUE
  /\ UNCHANGED <<poisoned, sealed, aggregate, measurement, points,
                 pseudonyms, key, eventVars>>

LoadAggregate(entry) ==
  /\ Takes(entry, "aggregate")
  /\ entry.arg # Malformed
  /\ AdoptAggregate(entry.arg)
  /\ loading' = TRUE
  /\ UNCHANGED <<poisoned, sealed, base, points, pseudonyms, key, eventVars>>

\* _update_map: a point of the model file is valid and has not been hit; a
\* point listed twice counts as one hit.
LoadState(entry) ==
  /\ Takes(entry, "state")
  /\ entry.arg # Malformed
  /\ ~sealed
  /\ IF Mapped(entry.arg) # {}
       THEN CountHit(entry.arg) /\ UNCHANGED measurement
       ELSE /\ measurement' = Extend(measurement, entry.arg)
            /\ points' = Append(points, [id |-> entry.arg, count |-> 0, valid |-> TRUE])
  /\ loading' = TRUE
  /\ UNCHANGED <<poisoned, sealed, base, aggregate, pseudonyms, key, eventVars>>

LoadPseudonym(entry) ==
  /\ Takes(entry, "pseudonym")
  /\ entry.arg # Malformed
  /\ pseudonyms' = pseudonyms \cup {entry.arg}
  /\ loading' = TRUE
  /\ UNCHANGED <<poisoned, sealed, base, aggregate, measurement, points, key,
                 eventVars>>

LoadSeal(entry) ==
  /\ Takes(entry, "seal")
  /\ sealed' = TRUE
  /\ loading' = TRUE
  /\ UNCHANGED <<poisoned, base, aggregate, measurement, points, pseudonyms,
                 key, eventVars>>

\* _verify_model decodes the key in place: it serves one signature.
LoadSignature(entry) ==
  /\ Takes(entry, "signature")
  /\ entry.arg
  /\ key = "encoded"
  /\ key' = "decoded"
  /\ UNCHANGED <<poisoned, loading, sealed, base, aggregate, measurement, points,
                 pseudonyms, eventVars>>

LoadEnd(entry) ==
  /\ Takes(entry, "end")
  /\ loading' = FALSE
  /\ UNCHANGED <<poisoned, sealed, base, aggregate, measurement, points,
                 pseudonyms, key, eventVars>>

\* A line is refused: the object is not poisoned, and a line that is no
\* signature leaves it loading.  Memory may run out in _update_map between
\* the extension of the measurement and the addition of the point.
LoadFails(entry) ==
  /\ ~poisoned
  /\ loading' = (loading \/ entry.cmd # "signature")
  /\ key' = IF entry.cmd = "signature" /\ key = "encoded" THEN "decoded" ELSE key
  /\ \/ /\ \/ entry.cmd \in {"base", "aggregate", "state", "pseudonym"} /\ entry.arg = Malformed
           \/ entry.cmd = "key" /\ key # "none"
           \/ entry.cmd = "state" /\ sealed
           \/ entry.cmd = "signature" /\ (~entry.arg \/ key # "encoded")
        /\ UNCHANGED measurement
     \/ /\ entry.cmd = "state" /\ entry.arg # Malformed
        /\ ~sealed
        /\ Mapped(entry.arg) = {}
        /\ Len(measurement) < MaxExtensions
        /\ measurement' = Extend(measurement, entry.arg)
  /\ UNCHANGED <<poisoned, sealed, base, aggregate, points, pseudonyms, eventVars>>

Load(entry) ==
  \/ LoadComment(entry) \/ LoadKey(entry) \/ LoadBase(entry)
  \/ LoadAggregate(entry) \/ LoadState(entry) \/ LoadPseudonym(entry)
  \/ LoadSeal(entry) \/ LoadSignature(entry) \/ LoadEnd(entry)
  \/ LoadFails(entry)

Update(event) == UpdateMapped(event) \/ UpdateNew(event) \/ UpdateFails(event)

Next == \/ \E event \in Events : Update(event)
        \/ \E entry \in Entries : Load(entry)
        \/ \E a \in Aggregates : SetAggregate(a)
        \/ SetAggregateFails
        \/ add_TSEM_event
        \/ disable_logging
        \/ Seal

Spec == Init /\ [][Next]_vars

-----------------------------------------------------------------------------
(* What the orchestrators read of the object.                              *)

\* The points one of the coefficient or count listings sends: the loop over the
\* list skips those that are not of the type.
CoefficientsSent(type) ==
  LET sent[n \in 0..Len(points)] ==
        IF n = 0 THEN <<>>
        ELSE IF points[n].valid = type THEN Append(sent[n - 1], points[n]) ELSE sent[n - 1]
  IN  sent[Len(points)]

\* The number of points it announces to the console before it sends them.
CoefficientsAnnounced(type) ==
  IF type THEN Len(points) - Len(forensics) ELSE Len(forensics)

PointIds(cps) == [i \in DOMAIN cps |-> cps[i].id]

LoggedPoints(log) == [i \in DOMAIN log |-> log[i].point]

-----------------------------------------------------------------------------
(* Properties.                                                             *)

\* The list of points is a set: neither events nor model lines, in any order,
\* masked or not, register one point twice (_is_mapped, update, _update_map).
PointsDistinct ==
  \A i, j \in DOMAIN points : points[i].id = points[j].id => i = j

\* While events are logged the forensics list pairs up, entry by entry, with
\* the invalid points, as its readers assume who paste one beside the other;
\* and the trajectory names points of the model that are valid, once each.
LogsPairUp ==
  logging /\ ~poisoned =>
    /\ LoggedPoints(forensics) = PointIds(CoefficientsSent(FALSE))
    /\ ToSet(LoggedPoints(trajectory)) \subseteq ToSet(PointIds(CoefficientsSent(TRUE)))
    /\ IsInjective(LoggedPoints(trajectory))

\* Every point of the model has extended the measurement, which is "the sum of
\* the unique security state coefficients generated by the security model"
\* (Documentation/tsem.rst).
MeasurementCoversPoints ==
  \A i \in DOMAIN points : \E j \in DOMAIN measurement : measurement[j].value = points[i].id

\* Nothing but the adoption of another aggregate takes back what has extended
\* the measurement, and that never happens to a sealed model.
MeasurementAppendOnly ==
  [][\/ IsPrefix(measurement, measurement')
     \/ /\ ~sealed
        /\ aggregate' # aggregate
        /\ measurement' = aggregate']_vars

\* The classification of the points that the object implements.
StatusOf(p) ==
  IF Mapped(p) = {} THEN "unknown"
  ELSE IF \A i \in Mapped(p) : points[i].valid THEN "valid" ELSE "invalid"

Agent == INSTANCE TMA WITH status <- [p \in Points |-> StatusOf(p)]

\* A point keeps its class: repeating a violation never gets it accepted, and
\* nothing that was accepted is disciplined later (update, _update_map).
ClassesAreFinal == Agent!ClassesAreFinal

\* Sealing is for good and no point becomes valid afterwards, whether an event
\* or a line of a model file brings it.
SealedIsFrozen == Agent!SealedIsFrozen

\* The object keeps the promises of a trusted modeling agent.
RefinesTMA == Agent!Spec
=============================================================================
