----------------------------- MODULE SanchoSGX -----------------------------
(***************************************************************************)
(* The agent in an SGX enclave: the object that the orchestrator calls     *)
(* (SanchoSGX.c), the interface of the enclave (SanchoSGX-interface.c),    *)
(* the model behind it (SanchoSGX-enclave.c) and the program around them   *)
(* (quixote-sgx.c, and quixote-sgx-u.c, whose enclave is in its binary).   *)
(*                                                                         *)
(* The program has one thread, so a call is one action, but for the update *)
(* for a process that sleeps: the enclave wakes it itself, by a call out   *)
(* of the enclave, which is an action of its own.  A point is the identity *)
(* of the event that measures to it; the text of an event fits the buffer  *)
(* of get_event or does not.                                               *)
(*                                                                         *)
(* quixote-sgx never gives update the text of an event (GiveText = FALSE); *)
(* with GiveText = TRUE the caller is test-ISOidentity-enclave.c, or any   *)
(* other that does as the interface asks.                                  *)
(***************************************************************************)
EXTENDS Naturals, Sequences, SequencesExt

CONSTANTS Events,    \* the events, each of a process of its own
          Async,     \* those of processes that cannot sleep
          Long,      \* those whose text is too long for a call
          Known,     \* the points of the model file, in order
          Violation, \* a log entry of the kernel
          Empty,     \* a text that is no event
          Garbage,   \* what is read where nothing was written
          GiveText,  \* is update given the text of the event?
          Enforce,   \* is the workload to be shut down for a violation?
          Refusals,  \* a bound on the writes the kernel refuses
          Faults,    \* a bound on the calls that fail
          Listings   \* a bound on the listings

VARIABLES
  sealed, points, trajectory, forensics, \* the model
  TE_events, \* its log, with what was freed
  cursor,    \* of each of its lists
  poisoned,  \* the object of the orchestrator is
  broken,    \* the enclave's object is
  process,   \* what each process does
  ocall,     \* the call out of the enclave that is under way
  refused,   \* the processes whose trust status the kernel refused to set
  judged,    \* the events update has succeeded for
  taken,     \* the events the orchestrator has taken for modelled
  Model_Error,
  mode,      \* what the program does
  listing,   \* the latest listing
  output,    \* what was written to the output file
  killed,    \* has the workload been told to end?
  faults, listings

modelVars == <<sealed, points, trajectory, forensics, TE_events, cursor>>
objectVars == <<poisoned, broken>>
trustVars == <<process, ocall, refused, judged>>
loopVars == <<taken, Model_Error, mode, killed>>
boundVars == <<faults, listings>>
vars == <<modelVars, objectVars, trustVars, loopVars, listing, output, boundVars>>

Kinds == {"trajectory", "forensics", "events", "coefficients", "violations"}
Texts == Events \cup {Violation, Empty, Garbage}
NoListing == [of |-> "none", count |-> 0, items |-> <<>>, list |-> <<>>]

TypeOK ==
  /\ sealed \in BOOLEAN /\ points \in Seq([id : Events, valid : BOOLEAN])
  /\ trajectory \in Seq(Events) /\ forensics \in Seq(Events)
  /\ {points[i].id : i \in {j \in DOMAIN points : ~points[j].valid}} = ToSet(forensics)
  /\ TE_events \in Seq([text : {Violation}, freed : BOOLEAN])
  /\ cursor \in [{"trajectory", "forensics", "events", "points"} -> Nat]
  /\ {poisoned, broken, Model_Error, killed} \subseteq BOOLEAN
  /\ process \in [Events -> {"running", "waiting", "released", "disciplined"}]
  /\ ocall \in Seq([pid : Events, discipline : BOOLEAN]) /\ Len(ocall) <= 1
  /\ judged \subseteq taken /\ taken \subseteq Events
  /\ refused \subseteq judged \ Async /\ Cardinality(refused) <= Refusals
  /\ mode \in {"run", "ended", "crashed", "wrote_trajectory", "wrote_model"}
  /\ listing.of \in Kinds \cup {"none"} /\ listing.items \in Seq(Texts)
  /\ output \in Seq(Texts)
  /\ faults \in 0..Faults /\ listings \in 0..Listings

\* load_enclave and load_model: the points of the model file are valid.
Init ==
  /\ sealed \in BOOLEAN /\ (Known = <<>> => ~sealed)
  /\ points = [i \in DOMAIN Known |-> [id |-> Known[i], valid |-> TRUE]]
  /\ trajectory = <<>> /\ forensics = <<>> /\ TE_events = <<>>
  /\ cursor = [l \in {"trajectory", "forensics", "events", "points"} |-> 0]
  /\ poisoned = FALSE /\ broken = FALSE
  /\ process = [e \in Events |-> "running"]
  /\ ocall = <<>> /\ refused = {} /\ judged = {} /\ taken = {}
  /\ Model_Error = FALSE /\ mode = "run" /\ killed = FALSE
  /\ listing = NoListing /\ output = <<>>
  /\ faults = 0 /\ listings = 0

-----------------------------------------------------------------------------
(* The enclave.                                                            *)

Mapped(e) == \E i \in DOMAIN points : points[i].id = e
Valid(e) == \A i \in DOMAIN points : points[i].id = e => points[i].valid

\* The judgement of TSEM.update, and what it does to the model.
Violates(e) == IF Mapped(e) THEN ~Valid(e) ELSE sealed

ModelEvent(e) ==
  IF Mapped(e) THEN UNCHANGED <<points, trajectory, forensics>>
  ELSE /\ points' = Append(points, [id |-> e, valid |-> ~sealed])
       /\ forensics' = IF sealed THEN Append(forensics, e) ELSE forensics
       /\ trajectory' = IF sealed THEN trajectory ELSE Append(trajectory, e)

\* The points of one class, in the order of the list.
Ids(valid) ==
  LET ids[i \in 0..Len(points)] ==
        IF i = 0 THEN <<>>
        ELSE IF points[i].valid = valid THEN Append(ids[i - 1], points[i].id) ELSE ids[i - 1]
  IN  ids[Len(points)]

\* The lists; the cursor of a list is where the next get begins.
List(kind) ==
  CASE kind = "trajectory" -> trajectory
    [] kind = "forensics"  -> forensics
    [] kind = "events"     -> [i \in DOMAIN TE_events |-> IF TE_events[i].freed THEN Garbage ELSE TE_events[i].text]
    [] kind = "coefficients" -> Ids(TRUE)
    [] kind = "violations"   -> Ids(FALSE)

Cursor(kind) == IF kind \in DOMAIN cursor THEN kind ELSE "points"

\* get_event refuses a text that does not fit, and a log entry it refuses is
\* destroyed.
Got(kind) ==
  LET list == List(kind)
      Refused(i) == list[i] \in Long /\ kind \in {"trajectory", "forensics", "events"}
      stop == {i \in DOMAIN list : Refused(i)}
  IN  IF stop = {} THEN Len(list) ELSE (CHOOSE i \in stop : \A j \in stop : i <= j) - 1

Destroyed(kind) ==
  IF kind = "events" /\ Got(kind) < Len(TE_events)
  THEN [TE_events EXCEPT ![Got(kind) + 1].freed = TRUE] ELSE TE_events

\* A call into the enclave fails when there is no memory, and for ever after;
\* what it has done to the model by then nobody gets to see.
Fault == faults < Faults /\ ~broken /\ broken' = TRUE /\ faults' = faults + 1
Sound == ~broken /\ UNCHANGED <<broken, faults>>
Broken == broken /\ UNCHANGED <<broken, faults>>

-----------------------------------------------------------------------------
(* The orchestrator: process_event.                                        *)

\* It waits for a call that is under way.
Runs == mode = "run" /\ ocall = <<>>

\* The kernel exports an event; its process sleeps, or only its event waits.
kernel_event(e) ==
  /\ mode = "run" /\ process[e] = "running" /\ e \notin taken
  /\ process' = [process EXCEPT ![e] = "waiting"]
  /\ UNCHANGED <<modelVars, objectVars, ocall, refused, judged, loopVars, listing, output, boundVars>>

\* Anything that fails, or failed earlier, ends the loop and the workload, ...
EventDone(e, ok) ==
  /\ taken' = taken \cup {e}
  /\ Model_Error' = (Model_Error \/ ~ok)
  /\ mode' = IF Model_Error' THEN "ended" ELSE "run"

EndsIt == killed' = (killed \/ Model_Error')

\* update, up to the call out of the enclave.
update_model(e) ==
  /\ Runs /\ process[e] = "waiting" /\ e \notin taken
  /\ GiveText /\ ~poisoned /\ Sound /\ ModelEvent(e)
  /\ UNCHANGED <<sealed, TE_events, cursor, poisoned, process, refused, listing, output, listings>>

add_event(e) ==
  /\ e \notin Async /\ update_model(e)
  /\ ocall' = <<[pid |-> e, discipline |-> Violates(e)]>>
  /\ UNCHANGED <<judged, loopVars>>

\* ... and so does the violation of a sealed model by a process that cannot
\* sleep, which ends the workload only.
add_async_event(e) ==
  /\ e \in Async /\ update_model(e)
  /\ judged' = judged \cup {e} /\ EventDone(e, TRUE)
  /\ killed' = (killed \/ Model_Error' \/ (sealed /\ Violates(e) /\ Enforce))
  /\ UNCHANGED ocall

\* Mutant: every process is released.
DisciplineOcallKind ==
  \E call \in ToSet(ocall) :
    /\ \/ process' = [process EXCEPT ![call.pid] = "released"] /\ UNCHANGED refused
       \/ /\ Cardinality(refused) < Refusals /\ refused' = refused \cup {call.pid}
          /\ UNCHANGED process
    /\ judged' = judged \cup {call.pid} /\ ocall' = <<>>
    /\ EventDone(call.pid, TRUE) /\ EndsIt
    /\ UNCHANGED <<modelVars, objectVars, listing, output, boundVars>>

\* discipline_ocall wakes the process; what the kernel answers is put where
\* update_model does not look.
discipline_ocall ==
  \E call \in ToSet(ocall) :
    /\ \/ process' = [process EXCEPT ![call.pid] = IF call.discipline THEN "disciplined" ELSE "released"]
          /\ UNCHANGED refused
       \/ /\ Cardinality(refused) < Refusals /\ refused' = refused \cup {call.pid}
          /\ UNCHANGED process
    /\ judged' = judged \cup {call.pid} /\ ocall' = <<>>
    /\ EventDone(call.pid, TRUE) /\ EndsIt
    /\ UNCHANGED <<modelVars, objectVars, listing, output, boundVars>>

\* The enclave cannot make the call: the model keeps the event, update fails.
ocall_fails ==
  \E call \in ToSet(ocall) :
    /\ faults < Faults /\ faults' = faults + 1
    /\ ocall' = <<>> /\ EventDone(call.pid, FALSE) /\ EndsIt
    /\ UNCHANGED <<modelVars, objectVars, process, refused, judged, listing, output, listings>>

\* A poisoned object and an enclave that is broken or out of memory refuse.
add_event_fails(e) ==
  /\ Runs /\ process[e] = "waiting" /\ e \notin taken
  /\ GiveText /\ IF poisoned THEN UNCHANGED <<broken, faults>> ELSE Fault \/ Broken
  /\ EventDone(e, FALSE) /\ EndsIt
  /\ UNCHANGED <<modelVars, poisoned, trustVars, listing, output, listings>>

\* process_event gives update a string that was not filled: it is refused, or
\* its address faults in the enclave.
add_empty(e) ==
  /\ Runs /\ process[e] = "waiting" /\ e \notin taken
  /\ ~GiveText
  /\ \/ EventDone(e, FALSE) /\ EndsIt
     \/ mode' = "crashed" /\ taken' = taken \cup {e} /\ UNCHANGED <<Model_Error, killed>>
  /\ UNCHANGED <<modelVars, objectVars, trustVars, listing, output, boundVars>>

\* add_TSEM_event; the log is kept short.
add_ai_event ==
  /\ Runs /\ GiveText /\ Len(TE_events) < 2
  /\ IF ~poisoned THEN Sound \/ Fault \/ Broken ELSE UNCHANGED <<broken, faults>>
  /\ LET ok == ~poisoned /\ ~broken'
     IN  /\ TE_events' = IF ok THEN Append(TE_events, [text |-> Violation, freed |-> FALSE]) ELSE TE_events
         /\ poisoned' = ~ok /\ Model_Error' = (Model_Error \/ ~ok)
         /\ mode' = (IF Model_Error' THEN "ended" ELSE "run") /\ EndsIt
  /\ UNCHANGED <<sealed, points, trajectory, forensics, cursor, trustVars, taken, listing, output, listings>>

-----------------------------------------------------------------------------
(* Its management commands.                                                *)

\* The size that is announced.
\* Mutant: the violations are announced with the coefficients.
CountAll(kind) ==
  CASE kind = "trajectory" -> Len(trajectory)
    [] kind = "forensics"  -> Len(forensics)
    [] kind = "events"     -> Len(TE_events)
    [] kind = "coefficients" -> Len(points)
    [] kind = "violations" -> Len(forensics)

Count(kind) ==
  CASE kind = "trajectory" -> Len(trajectory)
    [] kind = "forensics"  -> Len(forensics)
    [] kind = "events"     -> Len(TE_events)
    [] kind = "coefficients" -> Len(points) - Len(forensics)
    [] kind = "violations" -> Len(forensics)

\* What is sent from the cursor on: past the end there is nothing to send.
Items(kind, count, at) ==
  LET list == List(kind)
      n == IF Got(kind) < Len(list) THEN Got(kind) ELSE count
  IN  [i \in 1..n |-> IF at + i \in DOMAIN list THEN list[at + i] ELSE Empty]

send_list(kind) ==
  /\ Runs /\ listings < Listings /\ listings' = listings + 1
  /\ ~poisoned /\ Sound
  /\ listing' = [of |-> kind, count |-> Count(kind), list |-> List(kind), items |-> Items(kind, Count(kind), 0)]
  /\ cursor' = [cursor EXCEPT ![Cursor(kind)] = Count(kind)]
  /\ TE_events' = Destroyed(kind)
  /\ Model_Error' = (Model_Error \/ Got(kind) < Len(List(kind)))
  /\ UNCHANGED <<sealed, points, trajectory, forensics, poisoned, trustVars, taken, mode, killed, output>>

\* The enclave gives no size: that of the points is then what is on the stack,
\* the others are zero.
send_list_fails(kind) ==
  /\ Runs /\ listings < Listings /\ listings' = listings + 1
  /\ Fault \/ Broken
  /\ poisoned' = TRUE
  /\ \E n \in IF kind \in {"coefficients", "violations"} /\ poisoned THEN 0..1 ELSE {0} :
       /\ listing' = [of |-> kind, count |-> n, items |-> <<>>, list |-> List(kind)]
       /\ Model_Error' = (Model_Error \/ n > 0)
  /\ UNCHANGED <<modelVars, trustVars, taken, mode, killed, output>>

\* get_measurement and get_state, which poison the object when they fail.
get_measurement ==
  /\ Runs /\ ~poisoned /\ (Fault \/ Broken)
  /\ poisoned' = TRUE /\ Model_Error' = TRUE
  /\ UNCHANGED <<modelVars, trustVars, taken, mode, killed, listing, output, listings>>

\* The console is told OK whatever the enclave did.
seal ==
  /\ Runs /\ ~sealed /\ ~poisoned
  /\ Sound \/ Fault \/ Broken
  /\ sealed' = ~broken' /\ poisoned' = broken'
  /\ UNCHANGED <<points, trajectory, forensics, TE_events, cursor, trustVars, loopVars, listing, output, listings>>

-----------------------------------------------------------------------------
(* Its end.                                                                *)

\* The workload ends, and the loop with it; output_trajectory writes all that
\* it has written before with each event: what empties the buffer is the branch
\* of a get_event that fails.
Written(list) ==
  LET bufr[i \in 0..Len(list)] ==
        IF i = 0 THEN <<>> ELSE IF list[i] \in Long THEN <<Empty>> ELSE Append(bufr[i - 1], list[i])
  IN  FlattenSeq([i \in DOMAIN list |-> bufr[i]])

output_trajectory ==
  /\ Runs /\ \A e \in Events : process[e] # "waiting"
  /\ mode' = "wrote_trajectory" /\ ~broken /\ ~poisoned
  /\ cursor' = [cursor EXCEPT !["trajectory"] = Len(trajectory)]
  /\ output' = Written(trajectory)
  /\ UNCHANGED <<sealed, points, trajectory, forensics, TE_events, objectVars, trustVars, taken,
                 Model_Error, killed, listing, boundVars>>

output_model ==
  /\ Runs /\ \A e \in Events : process[e] # "waiting"
  /\ mode' = "wrote_model" /\ ~broken /\ ~poisoned
  /\ cursor' = [cursor EXCEPT !["points"] = Len(points)]
  /\ output' = [i \in DOMAIN points |-> points[i].id]
  /\ UNCHANGED <<sealed, points, trajectory, forensics, TE_events, objectVars, trustVars, taken,
                 Model_Error, killed, listing, boundVars>>

Next ==
  \/ \E e \in Events : kernel_event(e) \/ add_event(e) \/ add_async_event(e) \/ add_event_fails(e) \/ add_empty(e)
  \/ discipline_ocall \/ ocall_fails
  \/ add_ai_event
  \/ \E kind \in Kinds : send_list(kind) \/ send_list_fails(kind)
  \/ get_measurement \/ seal \/ output_trajectory \/ output_model

Spec == Init /\ [][Next]_vars

-----------------------------------------------------------------------------
(* Properties.                                                             *)

\* When update returns for an event of a process that sleeps, the enclave has
\* set its trust status and the process runs (update_model).
UpdatedIsWoken == \A e \in judged \ Async : process[e] # "waiting"

\* A refusal is the only thing that keeps a process from waking once update has
\* returned for its event (discipline_pid_ocall).
WokenUnlessRefused == \A e \in judged \ Async : process[e] = "waiting" <=> e \in refused

\* No process goes on whose event was not judged: when update fails, also after
\* it has changed the model, the process sleeps until the workload is ended
\* (update_model, process_event).
FailedSleeps ==
  \A e \in taken \ judged : process[e] = "waiting" /\ (killed \/ mode = "crashed")

\* The violation of a sealed model by a process that cannot be made to wait ends
\* the workload, when violations are enforced (add_async_event).
AsyncViolationKills ==
  Enforce => \A e \in judged \cap Async : Mapped(e) /\ ~Valid(e) => killed

\* A process is untrusted exactly when its point in the model is invalid: the
\* call out of the enclave carries the verdict the model recorded.
TrustIsModel ==
  \A e \in Events :
    /\ process[e] = "disciplined" => Mapped(e) /\ ~Valid(e)
    /\ process[e] = "released" => Mapped(e) /\ Valid(e)

\* A listing announces a number of elements and sends that many, the list and
\* nothing else (send_trajectory and the others).
ListingIsWhole ==
  listing.of # "none" => listing.items = listing.list /\ listing.count = Len(listing.items)

\* What get_te_event returns with success is a valid event, never memory that
\* was freed.
ReturnedIsValid == Garbage \notin {listing.items[i] : i \in DOMAIN listing.items}

\* The trajectory file has each event of the trajectory once, in order
\* (output_trajectory).
TrajectoryIsWritten == mode = "wrote_trajectory" => output = trajectory

\* An event the orchestrator has processed is in the model (process_event).
EventIsModelled == taken \subseteq judged

=============================================================================
