----------------------------- MODULE SanchoLink -----------------------------
(***************************************************************************)
(* The trust orchestrator of a co-processor, Quixote/quixote-mcu.c, and    *)
(* the interpreter of the commands it sends to the micro-controller,       *)
(* Sancho/Nordic/NRF52840-DK/Sancho/sancho-interpreter.c, with the serial  *)
(* line between them (lib/TTYduct.c).                                      *)
(*                                                                         *)
(* The modeling agent of the micro-controller is module TMA, which TSEM.c  *)
(* implements; it keeps no logs of events (disable_logging).  The monitor  *)
(* process and kill_cartridge are those of quixote-us.c and are looked at  *)
(* in module QuixoteUS: here the exports of the kernel reach the           *)
(* orchestrator in order, and a container that is being killed dies.       *)
(* Memory runs out in the agent only: a handler of the interpreter for     *)
(* which it does replies nothing either.                                   *)
(***************************************************************************)
EXTENDS Naturals, Sequences, FiniteSets

CONSTANTS Points,      \* security state points
          NoVerdict,   \* as in TMA
          Procs,       \* the processes of the workload
          Requests,    \* what the console asks for
          Enforce,     \* was the orchestrator started with -e?
          MaxEvents,   \* bound on the events of the workload
          MaxRequests, \* bound on the requests of the console
          Faults,      \* can the micro-controller run out of memory?
          Interrupts   \* can the orchestrator be interrupted?

ASSUME SanchoAssumption ==
  /\ Requests \subseteq {"seal", "value", "events", "coefficients",
                         "forensics_coefficients", "map", "reset", "illegal"}
  /\ {MaxEvents, MaxRequests} \subseteq Nat
  /\ {Enforce, Faults, Interrupts} \subseteq BOOLEAN
  /\ IsFiniteSet(Points)
  /\ {"running", "dead"} \cap Points = {}

VARIABLES
  \* the agent (module TMA)
  status, sealed, poisoned, verdict,
  \* the kernel and the workload
  proc,        \* each process runs, is dead, or waits with an event
  trust,       \* its trust status
  done,        \* the points of the events it was let through
  jammed,      \* the control file takes no command behind a refused one
  queue,       \* what the kernel exported and the orchestrator has not read
  nevents,     \* events the workload has caused
  runc,        \* a runc is killing the container
  \* the serial line
  down,        \* commands sent and not yet interpreted
  up,          \* replies sent and not yet received
  interpreter, \* the interpreter that was started with the model is at work
  \* the orchestrator
  pc,          \* where it is
  batch,       \* the descriptions its Event object holds
  mgmt,        \* the console has a request
  current,     \* the command it sent last
  cnt,         \* replies that are left of a listing
  output,      \* the workload is over and the model is being written
  duct,        \* the object for the line is usable
  Model_Error,
  nrequests,   \* requests of the console
  violation    \* an event in atomic context violated an enforced model

agentVars    == <<status, sealed, poisoned, verdict>>
workloadVars == <<proc, trust, done, jammed, violation>>
hostVars     == <<pc, batch, mgmt, current, cnt, output, duct, Model_Error>>

vars == <<agentVars, workloadVars, queue, nevents, runc, down, up, interpreter,
          hostVars, nrequests>>

Agent == INSTANCE TMA

Export(type, p, pt) == [type |-> type, pid |-> p, point |-> pt]

Request(type) == [type |-> type]

Exports == [type : {"event", "async_event", "log"}, pid : Procs, point : Points]
             \cup {Request("aggregate")}

Commands == Exports \cup {Request(r) : r \in Requests \cup {"coefficients"}}

\* A reply is known by the command it was made for; the count of a listing
\* comes before its elements.
Reply(to, is) == [to |-> to, is |-> is, count |-> 0]

Count(to, n) == [to |-> to, is |-> "count", count |-> n]

\* Text that is taken for a count is a number beyond any listing.
Beyond == Cardinality(Points) + 1

Awaiting == {"reply", "value", "count", "element"}

TypeOK ==
  /\ Agent!TypeOK
  /\ proc \in [Procs -> {"running", "dead"} \cup Points]
  /\ trust \in [Procs -> {"trusted", "untrusted"}]
  /\ done \in [Procs -> SUBSET Points]
  /\ queue \in Seq(Exports) /\ batch \in Seq(Exports)
  /\ nevents \in 0..MaxEvents /\ nrequests \in 0..MaxRequests
  /\ down \in Seq(Commands) /\ Len(down) <= 1
  /\ \A i \in DOMAIN up :
       /\ up[i].to \in Commands
       /\ up[i].is \in {"OK", "RELEASE", "DISCIPLINE", "value", "count", "element"}
       /\ up[i].count \in 0..Cardinality(Points)
  /\ pc \in Awaiting \cup {"poll", "drain", "mgmt", "killwait", "stopwait",
                           "finished", "failed"}
  /\ current \in Commands
  /\ cnt \in 0..Beyond
  /\ {runc, interpreter, mgmt, output, duct, Model_Error, jammed,
      violation} \subseteq BOOLEAN

\* A model file may have been loaded: its points are valid, and it may end with
\* a seal.  The kernel exports its hardware aggregate first.
Init ==
  /\ \E loaded \in SUBSET Points :
       status = [p \in Points |-> IF p \in loaded THEN "valid" ELSE "unknown"]
  /\ sealed \in BOOLEAN
  /\ poisoned = FALSE
  /\ verdict = NoVerdict
  /\ proc = [p \in Procs |-> "running"]
  /\ trust = [p \in Procs |-> "trusted"]
  /\ done = [p \in Procs |-> {}]
  /\ jammed = FALSE
  /\ queue = <<Request("aggregate")>>
  /\ nevents = 0
  /\ runc = FALSE
  /\ down = <<>>
  /\ up = <<>>
  /\ interpreter = TRUE
  /\ pc = "poll"
  /\ batch = <<>>
  /\ mgmt = FALSE
  /\ current = Request("aggregate")
  /\ cnt = 0
  /\ output = FALSE
  /\ duct = TRUE
  /\ Model_Error = FALSE
  /\ nrequests = 0
  /\ violation = FALSE

-----------------------------------------------------------------------------
(* The kernel and the workload.                                            *)

Waits(p) == proc[p] \in Points

AllDead == \A p \in Procs : proc[p] = "dead"

CausesEvent(type, p, pt) ==
  /\ proc[p] = "running"
  /\ nevents < MaxEvents
  /\ (type = "log") <=> (trust[p] = "untrusted")
  /\ nevents' = nevents + 1
  /\ queue' = Append(queue, Export(type, p, pt))
  /\ proc' = IF type = "event" THEN [proc EXCEPT ![p] = pt] ELSE proc
  /\ UNCHANGED <<agentVars, trust, done, jammed, violation, runc, down, up, interpreter,
                 hostVars, nrequests>>

Kill(dying) ==
  /\ proc' = [p \in Procs |-> IF p \in dying THEN "dead" ELSE proc[p]]
  /\ UNCHANGED <<agentVars, trust, done, jammed, violation, queue, nevents, down, up,
                 interpreter, hostVars, nrequests>>

Die(p) == proc[p] # "dead" /\ Kill({p}) /\ UNCHANGED runc

Runc == runc /\ Kill(Procs) /\ runc' = FALSE

-----------------------------------------------------------------------------
(* The micro-controller: sancho_interpreter.  A command it does not know,  *)
(* or whose handler fails, is not replied to.                              *)

Interprets(types, replies) ==
  /\ interpreter
  /\ down # <<>>
  /\ Head(down).type \in types
  /\ down' = Tail(down)
  /\ up' = up \o replies
  /\ UNCHANGED <<workloadVars, queue, nevents, runc, hostVars, nrequests>>

Interpreted(types, replies) == Interprets(types, replies) /\ UNCHANGED interpreter

EventTypes == {"event", "async_event"}

\* Mutant: the class the point had before the event is told.
VerdictOnBefore(e) == IF status[e.point] = "invalid" THEN "DISCIPLINE" ELSE "RELEASE"

\* What add_event of the interpreter answers once the event is modelled.
VerdictOn(e) == IF verdict'.discipline THEN "DISCIPLINE" ELSE "RELEASE"

InterpretEvent ==
  LET e == Head(down)
  IN  /\ down # <<>> /\ e.type \in EventTypes
      /\ Agent!Judge(e.point)
      /\ Interpreted(EventTypes, <<Reply(e, VerdictOn(e))>>)

InterpretEventFails ==
  LET e == Head(down)
  IN  /\ down # <<>> /\ e.type \in EventTypes
      /\ poisoned \/ Faults
      /\ Agent!Fail(e.point)
      /\ Interpreted(EventTypes, <<>>)

\* add_aggregate, and add_security, which has nothing to keep.
InterpretOther ==
  /\ ~poisoned
  /\ Interpreted({"aggregate", "log"}, <<Reply(Head(down), "OK")>>)
  /\ UNCHANGED agentVars

InterpretOtherFails ==
  /\ Interpreted({"aggregate", "log"}, <<>>)
  /\ \/ poisoned /\ UNCHANGED agentVars
     \/ Faults /\ Head(down).type = "aggregate" /\ Agent!Collapse

InterpretSeal ==
  /\ Interpreted({"seal"}, <<Reply(Head(down), "OK")>>)
  /\ Agent!Seal

\* The state, the measurement, or the OK of "enable cellular".
InterpretValue ==
  /\ Interpreted({"value"}, <<Reply(Head(down), "value")>>)
  /\ UNCHANGED agentVars

\* The number of points whose class is in classes.
Size(classes) == Cardinality({p \in Points : status[p] \in classes})

Listing(to, n, m) == <<Count(to, n)>> \o [i \in 1..m |-> Reply(to, "element")]

\* send_trajectory, send_forensics and send_events: without logs they are empty.
InterpretEvents ==
  /\ Interpreted({"events"}, Listing(Head(down), 0, 0))
  /\ UNCHANGED agentVars

\* The points send_trajectory_coefficients and _counts announce: of all points,
\* as many as the forensics log, which is empty, counts for invalid.
CoefficientsAnnounced(type) == IF type THEN Size({"valid", "invalid"}) ELSE 0

\* The points they send.
CoefficientsSent(type) == Size(IF type THEN {"valid"} ELSE {"invalid"})

InterpretCoefficients ==
  /\ \E type \in BOOLEAN :
       Interpreted({IF type THEN "coefficients" ELSE "forensics_coefficients"},
                   Listing(Head(down), CoefficientsAnnounced(type), CoefficientsSent(type)))
  /\ UNCHANGED agentVars

\* The map is asked for as "show points", which is no command.
InterpretUnknown ==
  /\ Interpreted({"map"}, <<>>)
  /\ UNCHANGED agentVars

\* The interpreter returns; the next one has a model of its own.
InterpretReset ==
  /\ Interprets({"reset"}, <<>>)
  /\ interpreter' = FALSE
  /\ UNCHANGED agentVars

Interpreter ==
  \/ InterpretEvent \/ InterpretEventFails \/ InterpretOther \/ InterpretOtherFails
  \/ InterpretSeal \/ InterpretValue \/ InterpretEvents \/ InterpretCoefficients
  \/ InterpretUnknown \/ InterpretReset

-----------------------------------------------------------------------------
(* The orchestrator: child_monitor of quixote-mcu.c and what it calls.     *)

HostStep(from, to) ==
  /\ pc = from
  /\ pc' = to
  /\ UNCHANGED <<agentVars, nevents, interpreter>>

Outside == UNCHANGED <<workloadVars, nrequests>>

\* The descriptions that were read and a request of the console.
PollReturns(command) ==
  /\ queue # <<>> \/ command
  /\ command => nrequests < MaxRequests
  /\ HostStep("poll", IF queue # <<>> THEN "drain" ELSE "mgmt")
  /\ batch' = queue
  /\ queue' = <<>>
  /\ mgmt' = command
  /\ nrequests' = IF command THEN nrequests + 1 ELSE nrequests
  /\ UNCHANGED <<workloadVars, runc, down, up, current, cnt, output, duct, Model_Error>>

\* A command goes down the line, and its first reply is waited for.
Send(command, from, wait) ==
  /\ HostStep(from, wait)
  /\ duct
  /\ current' = command
  /\ down' = Append(down, command)
  /\ UNCHANGED <<up, queue, runc, duct, Model_Error>>

SendExport ==
  /\ batch # <<>>
  /\ Send(Head(batch), "drain", "reply")
  /\ batch' = Tail(batch)
  /\ UNCHANGED <<mgmt, cnt, output>>
  /\ Outside

\* process_event fails: the loop is left and the container killed.
ProcessingFails(from) ==
  /\ HostStep(from, "failed")
  /\ Model_Error' = TRUE
  /\ runc' = TRUE
  /\ UNCHANGED <<queue, down, batch, mgmt, current, cnt, output>>
  /\ Outside

SendExportFails ==
  /\ batch # <<>>
  /\ ~duct
  /\ ProcessingFails("drain")
  /\ UNCHANGED <<up, duct>>

Receive == up # <<>> /\ up' = Tail(up)

\* Mutant: one description of those that were read is processed.
ContinuePolling == IF Model_Error THEN "failed" ELSE IF mgmt THEN "mgmt" ELSE "poll"

\* The export is processed: to the next one, or, after a batch that was
\* processed in a state of error, out of the loop.
Continue == IF batch # <<>> THEN "drain"
            ELSE IF Model_Error THEN "failed"
            ELSE IF mgmt THEN "mgmt" ELSE "poll"

Processed ==
  /\ HostStep("reply", Continue)
  /\ runc' = (runc \/ Continue = "failed")
  /\ UNCHANGED <<queue, down, batch, mgmt, current, cnt, output, duct, Model_Error, nrequests>>

\* TSEMcontrol: the kernel takes the trust status of a process that waits.
Accepted(p) == Waits(p) /\ ~jammed

\* A command the kernel has refused stays in front of every later one, which
\* the kernel may then refuse.
SetTrust(p, trusted) ==
  /\ UNCHANGED violation
  /\ IF Accepted(p)
       THEN /\ proc' = [proc EXCEPT ![p] = "running"]
            /\ trust' = [trust EXCEPT ![p] = IF trusted THEN "trusted" ELSE "untrusted"]
            /\ done' = [done EXCEPT ![p] = @ \cup {proc[p]}]
            /\ UNCHANGED jammed
       ELSE UNCHANGED <<proc, trust, done>> /\ jammed' \in {jammed, TRUE}

Verdict == Head(up).is \in {"RELEASE", "DISCIPLINE"}

\* After an error of the model the process is released whatever the reply.
ReceiveInError ==
  /\ current.type \in EventTypes
  /\ Model_Error
  /\ Receive
  /\ IF Accepted(current.pid)
       THEN Processed /\ SetTrust(current.pid, TRUE)
       ELSE ProcessingFails("reply") /\ UNCHANGED duct

\* A reply that is none to the command: process_event fails.
Misanswered == ProcessingFails("reply") /\ UNCHANGED duct

\* The pid is taken from the reply; the kernel may refuse it.
ReceiveVerdict ==
  /\ current.type = "event"
  /\ ~Model_Error
  /\ Receive
  /\ IF Verdict
       THEN Processed /\ SetTrust(Head(up).to.pid, Head(up).is = "RELEASE")
       ELSE Misanswered

\* Mutant: the violation is reported and the workload left alone.
ShutWorkloadDownNot == Processed

\* kill_cartridge(true).
ShutWorkloadDown ==
  /\ HostStep("reply", "killwait")
  /\ runc' = TRUE
  /\ UNCHANGED <<queue, down, batch, mgmt, current, cnt, output, duct, Model_Error, nrequests>>

\* A violation in atomic context of an enforced model shuts the workload down.
ReceiveAsyncVerdict ==
  /\ current.type = "async_event"
  /\ ~Model_Error
  /\ Receive
  /\ IF ~Verdict THEN Misanswered
     ELSE /\ IF Head(up).is = "DISCIPLINE" /\ Enforce
               THEN ShutWorkloadDown /\ violation' = TRUE
               ELSE Processed /\ UNCHANGED violation
          /\ UNCHANGED <<proc, trust, done, jammed>>

\* The reply to an aggregate is not looked at.
ReceiveOK ==
  /\ current.type \in {"aggregate", "log"}
  /\ Receive
  /\ IF current.type = "log" => Head(up).is = "OK"
       THEN Processed /\ UNCHANGED workloadVars
       ELSE Misanswered

\* process_command: what kind of answer the request has.
CommandSent ==
  /\ \E r \in Requests \ {"illegal"} :
       Send(Request(r), "mgmt", IF r \in {"seal", "value", "reset"} THEN "value" ELSE "count")
  /\ UNCHANGED <<batch, mgmt, cnt, output>>
  /\ Outside

\* The request is none, or the line is of no use any more.
CommandFails ==
  /\ "illegal" \in Requests \/ ~duct
  /\ HostStep("mgmt", "poll")
  /\ Model_Error' = TRUE
  /\ runc' = TRUE
  /\ UNCHANGED <<queue, down, up, batch, mgmt, current, cnt, output, duct>>
  /\ Outside

Receives(from, to) ==
  /\ Receive
  /\ HostStep(from, to)
  /\ UNCHANGED <<queue, runc, down, batch, mgmt, current, output, duct, Model_Error>>
  /\ Outside

ReceiveValue == Receives("value", "poll") /\ UNCHANGED cnt

AfterListing == IF output THEN "finished" ELSE "poll"

\* Mutant: the listing is taken to be one shorter than announced.
AnnouncedLess == IF Head(up).count = 0 THEN 0 ELSE Head(up).count - 1

\* The four bytes taken for the count.
Announced == IF Head(up).is = "count" THEN Head(up).count ELSE Beyond

ReceiveCount ==
  /\ up # <<>>
  /\ cnt' = Announced
  /\ Receives("count", IF Announced = 0 THEN AfterListing ELSE "element")

ReceiveElement ==
  /\ cnt' = cnt - 1
  /\ Receives("element", IF cnt = 1 THEN AfterListing ELSE "element")

\* A signal interrupts the wait for a reply: the object is poisoned.
ReceiveInterrupted ==
  /\ Interrupts
  /\ up = <<>>
  /\ duct' = FALSE
  /\ UNCHANGED up
  /\ \/ ProcessingFails("reply")
     \/ /\ \E from \in Awaiting \ {"reply"} :
             HostStep(from, IF output THEN "failed" ELSE "poll")
        /\ IF output THEN UNCHANGED <<Model_Error, runc>>
                     ELSE Model_Error' = TRUE /\ runc' = TRUE
        /\ UNCHANGED <<queue, down, batch, mgmt, current, cnt, output>>
        /\ Outside

\* The user stops the orchestrator: kill_cartridge(true).
Stop ==
  /\ Interrupts
  /\ HostStep("poll", "stopwait")
  /\ runc' = TRUE
  /\ UNCHANGED <<queue, down, up, batch, mgmt, current, cnt, output, duct, Model_Error>>
  /\ Outside

WaitForRunc ==
  /\ ~runc
  /\ HostStep("killwait", Continue)
  /\ UNCHANGED <<queue, runc, down, up, batch, mgmt, current, cnt, output, duct, Model_Error>>
  /\ Outside

\* The container is gone: there is a model to write, or there is not.
Over == pc \in {"poll", "stopwait"} /\ AllDead

Finish ==
  /\ Over
  /\ HostStep(pc, "finished")
  /\ UNCHANGED <<queue, runc, down, up, batch, mgmt, current, cnt, output, duct, Model_Error>>
  /\ Outside

output_model ==
  /\ Over
  /\ Send(Request("coefficients"), pc, "count")
  /\ output' = TRUE
  /\ UNCHANGED <<batch, mgmt, cnt>>
  /\ Outside

Orchestrator ==
  \/ PollReturns(FALSE) \/ SendExport \/ SendExportFails
  \/ ReceiveInError \/ ReceiveVerdict \/ ReceiveAsyncVerdict \/ ReceiveOK
  \/ CommandSent \/ CommandFails \/ ReceiveValue \/ ReceiveCount \/ ReceiveElement
  \/ WaitForRunc \/ Finish \/ output_model

Workload ==
  \E p \in Procs :
    \/ Die(p)
    \/ \E pt \in Points, type \in EventTypes \cup {"log"} : CausesEvent(type, p, pt)

Next == \/ Workload \/ Runc \/ Interpreter \/ Orchestrator
        \/ PollReturns(TRUE) \/ ReceiveInterrupted \/ Stop

\* The micro-controller and the orchestrator run, and a runc comes to an end.
\* Nothing is asked of the workload, of the console or of the user.
Fairness == WF_vars(Interpreter) /\ WF_vars(Orchestrator) /\ WF_vars(Runc)

Spec == Init /\ [][Next]_vars /\ Fairness

-----------------------------------------------------------------------------
(* Properties.                                                             *)

\* The reply that is next on the line was made for the command the
\* orchestrator sent last: one command is under way at a time, and a listing
\* is read to its end.
ReplyAnswersCommand ==
  /\ duct => \A i \in DOMAIN up : up[i].to = current
  /\ up # <<>> /\ duct => pc \in Awaiting \cup {"failed"}

\* A process that is still trusted was let through no event but those the
\* micro-controller holds valid, for as long as no error made the orchestrator
\* release processes whatever the reply (process_event).
TrustedMeansValid ==
  ~Model_Error =>
    \A p \in Procs : trust[p] = "trusted" =>
      \A pt \in done[p] : status[pt] = "valid"

\* The reply that is waited for will not come: the agent has failed and its
\* handler does not answer, or the firmware does not know or not announce right
\* what was asked for.
Unanswerable ==
  /\ pc \in Awaiting
  /\ down = <<>> /\ up = <<>>
  /\ \/ poisoned /\ current \in Exports
     \/ current.type = "coefficients" /\ Size({"invalid"}) > 0
     \/ current.type \in {"map", "reset"}

\* A process that waits for a verdict gets one, or dies, or the orchestrator
\* gives up, unless a refused command is in the way or the orchestrator waits
\* for a reply the micro-controller does not send.
WaitingIsAnswered ==
  \A p \in Procs : Waits(p) ~> (~Waits(p) \/ pc \in {"finished", "failed"} \/ jammed \/ Unanswerable)

\* A violation in atomic context of an enforced model brings the workload down.
ViolationStopsWorkload == violation ~> AllDead

\* A request of the console gets its answer: "-M: [t]he current security model
\* definition" (README, quixote-console).
RequestIsAnswered == pc \in {"value", "count", "element"} ~> pc \notin Awaiting
=============================================================================
