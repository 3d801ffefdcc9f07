------------------------------ MODULE ModelFile ------------------------------
(***************************************************************************)
(* The model of one session as the model of the next: a session of         *)
(* Quixote/quixote-us.c, which may itself have loaded a model, is written  *)
(* to a file, by output_model when the workload terminates or by the       *)
(* console from what send_map sends, and the file is loaded by load_model  *)
(* into the agent (module TSEM) of a new process, perhaps on another host. *)
(***************************************************************************)
EXTENDS TSEM

CONSTANT NoAggregate  \* the kernel has not exported an aggregate yet

ASSUME FileAssumption == NoAggregate \notin Aggregates

VARIABLES
  phase,      \* what the orchestrator is doing
  Aggregate,  \* the aggregate the kernel exported first
  fresh,      \* the first session loaded no model and took the aggregate
  file,       \* the lines left to load
  from_map,   \* the console wrote them
  before      \* the measurement and the classes when they were written

sessionVars == <<phase, Aggregate, fresh, file, from_map, before>>

allVars == <<vars, sessionVars>>

Phases == {"load", "run", "reload", "rerun"}

ModelLines == UNION {[cmd : {cmd}, arg : Arguments(cmd)] : cmd \in Commands}

SessionTypeOK ==
  /\ TypeOK
  /\ phase \in Phases
  /\ Aggregate \in Aggregates \cup {NoAggregate}
  /\ {fresh, from_map} \subseteq BOOLEAN
  /\ file \in Seq(ModelLines)
  /\ before \in [measurement : Seq(Extensions), status : [Points -> {"unknown", "valid", "invalid"}]]

Classes == [p \in Points |-> StatusOf(p)]

SessionInit ==
  /\ Init
  /\ phase = "load"
  /\ Aggregate = NoAggregate
  /\ fresh = TRUE
  /\ file = <<>>
  /\ from_map = FALSE
  /\ before = [measurement |-> <<>>, status |-> Classes]

-----------------------------------------------------------------------------

\* load takes the line.  A line that is refused ends the process.
LoadLine(entry) ==
  \/ LoadBase(entry) \/ LoadAggregate(entry) \/ LoadState(entry)
  \/ LoadPseudonym(entry) \/ LoadSeal(entry) \/ LoadEnd(entry)

LoadFirst(entry) ==
  /\ phase = "load"
  /\ LoadLine(entry)
  /\ fresh' = FALSE
  /\ UNCHANGED <<phase, Aggregate, file, from_map, before>>

Fire ==
  /\ phase = "load"
  /\ phase' = "run"
  /\ UNCHANGED <<vars, Aggregate, fresh, file, from_map, before>>

Running == phase \in {"run", "rerun"}

\* The orchestrator keeps the first aggregate that is exported to it.
add_aggregate(a) ==
  /\ Running
  /\ Aggregate' = IF Aggregate = NoAggregate THEN a ELSE Aggregate
  /\ SetAggregate(Aggregate')
  /\ UNCHANGED <<phase, fresh, file, from_map, before>>

\* The kernel exports its aggregate before any event.
add_event(event) ==
  /\ Running
  /\ Aggregate # NoAggregate
  /\ Update(event)
  /\ UNCHANGED sessionVars

\* A model that the console seals before the kernel's aggregate has come does
\* not take the aggregate any more.
CommandSeal ==
  /\ Running
  /\ Seal
  /\ fresh' = (fresh /\ (phase = "run" => Aggregate # NoAggregate))
  /\ UNCHANGED <<phase, Aggregate, file, from_map, before>>

\* Mutant: the first point is lost.
StateLinesButFirst(cps) == [i \in 1..(Len(cps) - 1) |-> [cmd |-> "state", arg |-> cps[i + 1].id]]

StateLines(cps) == [i \in DOMAIN cps |-> [cmd |-> "state", arg |-> cps[i].id]]

File(cps) == <<[cmd |-> "aggregate", arg |-> Aggregate]>>
               \o StateLines(cps)
               \o <<[cmd |-> "seal", arg |-> Malformed], [cmd |-> "end", arg |-> Malformed]>>

\* Mutant: the points are written as they are found from the end of the list.
OutputLinesReversed == File(Reverse(points))

\* output_model writes every point.
OutputLines == File(points)

\* send_map sends the valid ones, of which the console takes as many as were
\* announced.
MapLines == File(SubSeq(CoefficientsSent(TRUE), 1, CoefficientsAnnounced(TRUE)))

\* The process is gone and a new one starts with the file.  An orchestrator whose
\* agent has failed gives up without writing one.
Restart(lines, map) ==
  /\ phase = "run"
  /\ ~poisoned
  /\ Aggregate # NoAggregate
  /\ phase' = "reload"
  /\ file' = lines
  /\ from_map' = map
  /\ before' = [measurement |-> measurement, status |-> Classes]
  /\ Aggregate' = NoAggregate
  /\ poisoned' = FALSE /\ loading' = FALSE /\ sealed' = FALSE /\ logging' = TRUE
  /\ discipline_pid' = NoPid
  /\ base' = ZeroBase
  /\ aggregate' = <<>> /\ measurement' = <<>> /\ points' = <<>>
  /\ trajectory' = <<>> /\ forensics' = <<>> /\ TE_events' = 0
  /\ pseudonyms' = {}
  /\ key' = "none"
  /\ verdict' = NoVerdict
  /\ UNCHANGED fresh

output_model == Restart(OutputLines, FALSE)

\* The console does not get the whole map unless what is announced is sent.
send_map == /\ CoefficientsAnnounced(TRUE) = Len(CoefficientsSent(TRUE))
            /\ Restart(MapLines, TRUE)

load_model ==
  /\ phase = "reload"
  /\ IF file # <<>>
       THEN LoadLine(Head(file)) /\ file' = Tail(file) /\ UNCHANGED phase
       ELSE phase' = "rerun" /\ UNCHANGED <<vars, file>>
  /\ UNCHANGED <<Aggregate, fresh, from_map, before>>

SessionNext ==
  \/ \E entry \in Entries : LoadFirst(entry)
  \/ Fire
  \/ \E a \in Aggregates : add_aggregate(a)
  \/ \E event \in Events : add_event(event)
  \/ CommandSeal
  \/ output_model
  \/ send_map
  \/ load_model

SessionSpec == SessionInit /\ [][SessionNext]_allVars

-----------------------------------------------------------------------------
(* Properties.                                                             *)

Reloaded == phase = "rerun" /\ ~poisoned

\* The file output_model writes for a session that loaded none, and was not
\* sealed before the kernel's aggregate came, brings the next session to the
\* measurement the first one ended with, on whatever host it runs, and it stays
\* there until the next session sees a violation.
OutputKeepsMeasurement ==
  Reloaded /\ fresh /\ ~from_map /\ forensics = <<>> => measurement = before.measurement

\* A process of the next session is disciplined for exactly those points that
\* were not valid in the session the console had the map from: "[t]his map can
\* be used to define the desired security state by feeding this map into the
\* quixote utility with the -m command-line switch" (quixote-us.c, send_map).
MapIsEnforced ==
  Reloaded /\ from_map /\ verdict # NoVerdict =>
    /\ verdict.sealed
    /\ verdict.discipline <=> before.status[verdict.point] # "valid"

\* What was valid when the file was written, by whichever of the two, is never
\* held against a process of the next session.
ValidStaysValid ==
  Reloaded => \A p \in Points : before.status[p] = "valid" => StatusOf(p) = "valid"

\* What one session held to be valid or not the session that loads its file does.
VerdictsAreKept == MapIsEnforced /\ ValidStaysValid
=============================================================================
