----------------------------- MODULE QuixoteUS -----------------------------
(***************************************************************************)
(* The userspace trust orchestrator, Quixote/quixote-us.c, running a       *)
(* container: the orchestrator proper (child_monitor and what it calls),   *)
(* the monitor process it forks, which copies the kernel's event           *)
(* descriptions into a pipe, and the runc that kills the container.        *)
(*                                                                         *)
(* The modeling agent is module TMA, which TSEM.c implements (module TSEM).*)
(* The pipe carries whole descriptions (module TSEMevent is about those    *)
(* that are cut).  The kernel and the workload are external: a process     *)
(* that runs into a security event waits until the orchestrator declares   *)
(* it trusted or untrusted, or until it is killed; an event in atomic      *)
(* context is exported without waiting; the events of an untrusted process *)
(* are logged instead (Documentation/tsem.rst).                            *)
(***************************************************************************)
EXTENDS Naturals, Sequences

CONSTANTS Points,      \* security state points
          NoVerdict,   \* as in TMA
          Procs,       \* the processes of the workload
          Enforce,     \* was the orchestrator started with -e?
          PipeSize,    \* descriptions the pipe holds
          MaxEvents,   \* bound on the events of the workload
          MaxCommands, \* bound on the commands of the console
          RuncFails,   \* can runc fail to kill the container?
          Faults,      \* can the agent run out of memory?
          Interrupts   \* can the user interrupt the orchestrator?

ASSUME BoundsAssumption ==
  /\ PipeSize \in Nat \ {0}
  /\ MaxEvents \in Nat
  /\ MaxCommands \in Nat
  /\ {Enforce, RuncFails, Faults, Interrupts} \subseteq BOOLEAN
  /\ NoVerdict \notin [point : Points, discipline : BOOLEAN, sealed : BOOLEAN]

VARIABLES
  \* the agent (module TMA)
  status, sealed, poisoned, verdict,
  \* the kernel and the workload
  proc,         \* what each process is doing
  trust,        \* its trust status
  done,         \* the points of the events it was let through
  jammed,       \* the control file takes no command behind a refused one
  queue,        \* the kernel's export queue
  nevents,      \* events the workload has caused
  runcs,        \* the runcs that are killing the container
  \* the monitor process
  mon,          \* where it is
  monStop,      \* its Signals.stop
  monChild,     \* its Signals.sigchild
  carried,      \* the description it has read and not yet written
  pipe,
  \* the orchestrator
  pc,           \* where it is
  stop,         \* its Signals.stop
  sigchild,     \* its Signals.sigchild
  batch,        \* the descriptions its Event object holds
  mgmt,         \* poll found the management socket ready
  Model_Error,
  kill_process, \* what is known of the runc it started
  ncommands,    \* commands the console has sent
  violation     \* an event in atomic context violated an enforced model

agentVars    == <<status, sealed, poisoned, verdict>>
workloadVars == <<proc, trust, done, jammed, nevents>>
monVars      == <<mon, monStop, monChild, carried>>
signalVars   == <<stop, sigchild>>
killVars     == <<runcs, kill_process>>

vars == <<status, sealed, poisoned, verdict, proc, trust, done, jammed, queue, nevents,
          runcs, mon, monStop, monChild, carried, pipe, pc, stop, sigchild, batch,
          mgmt, Model_Error, kill_process, ncommands, violation>>

Agent == INSTANCE TMA

Export(type, p, pt) == [type |-> type, pid |-> p, point |-> pt]

AggregateExport == [type |-> "aggregate"]

Exports == [type : {"event", "async_event", "log"}, pid : Procs, point : Points]
             \cup {AggregateExport}

TypeOK ==
  /\ Agent!TypeOK
  /\ proc \in [Procs -> {"running", "waiting", "dead"}]
  /\ trust \in [Procs -> {"trusted", "untrusted"}]
  /\ done \in [Procs -> SUBSET Points]
  /\ queue \in Seq(Exports)
  /\ nevents \in 0..MaxEvents
  /\ mon \in {"signals", "poll", "blocked", "read", "write", "reap", "closed", "exited"}
  /\ carried \in Seq(Exports) /\ Len(carried) <= 1
  /\ pipe \in Seq(Exports) /\ Len(pipe) <= PipeSize
  /\ pc \in {"poll", "blocked", "interrupted", "drain", "mgmt", "killwait",
             "stopwait", "reap", "finished", "failed"}
  /\ batch \in Seq(Exports)
  /\ kill_process \in {"none", "running", "succeeded", "failed", "reaped"}
  /\ ncommands \in 0..MaxCommands
  /\ runcs \in Nat
  /\ {monStop, monChild, stop, sigchild, mgmt, Model_Error, jammed,
      violation} \subseteq BOOLEAN

\* A model file may have been loaded: its points are valid, and it may end with
\* a seal.  The kernel exports its hardware aggregate first.
Init ==
  /\ \E loaded \in SUBSET Points :
       status = [p \in Points |-> IF p \in loaded THEN "valid" ELSE "unknown"]
  /\ sealed \in BOOLEAN
  /\ poisoned = FALSE
  /\ verdict = NoVerdict
  /\ proc = [p \in Procs |-> "running"]
  /\ trust = [p \in Procs |-> "trusted"]
  /\ done = [p \in Procs |-> {}]
  /\ jammed = FALSE
  /\ queue = <<AggregateExport>>
  /\ nevents = 0
  /\ runcs = 0
  /\ mon = "signals"
  /\ monStop = FALSE
  /\ monChild = FALSE
  /\ carried = <<>>
  /\ pipe = <<>>
  /\ pc = "poll"
  /\ stop = FALSE
  /\ sigchild = FALSE
  /\ batch = <<>>
  /\ mgmt = FALSE
  /\ Model_Error = FALSE
  /\ kill_process = "none"
  /\ ncommands = 0
  /\ violation = FALSE

-----------------------------------------------------------------------------
(* Signals.  A handler sets a flag; a poll that is asleep is interrupted,  *)
(* one that is about to be called is not.                                  *)

AllDead == \A p \in Procs : proc[p] = "dead"

InterruptMonitor == mon' = IF mon = "blocked" THEN "signals" ELSE mon

InterruptOrchestrator == pc' = IF pc = "blocked" THEN "interrupted" ELSE pc

\* The orchestrator has a child less.
SignalOrchestrator == sigchild' = TRUE /\ InterruptOrchestrator

\* The processes of dying die; the monitor is told when the container has exited.
Kill(dying) ==
  /\ proc' = [p \in Procs |-> IF p \in dying THEN "dead" ELSE proc[p]]
  /\ IF (\A p \in Procs : proc'[p] = "dead") /\ ~AllDead
       THEN monChild' = TRUE /\ InterruptMonitor
       ELSE UNCHANGED <<monChild, mon>>

-----------------------------------------------------------------------------
(* The kernel, the workload and the user.                                  *)

CausesEvent(p, export) ==
  /\ proc[p] = "running"
  /\ nevents < MaxEvents
  /\ nevents' = nevents + 1
  /\ queue' = Append(queue, export)
  /\ UNCHANGED <<agentVars, trust, done, jammed, runcs, monVars, pipe, pc, signalVars,
                 batch, mgmt, Model_Error, kill_process, ncommands, violation>>

\* A trusted process waits for the verdict on its event.
SecurityEvent(p, pt) ==
  /\ trust[p] = "trusted"
  /\ CausesEvent(p, Export("event", p, pt))
  /\ proc' = [proc EXCEPT ![p] = "waiting"]

AtomicEvent(p, pt) ==
  /\ trust[p] = "trusted"
  /\ CausesEvent(p, Export("async_event", p, pt))
  /\ UNCHANGED proc

LoggedEvent(p, pt) ==
  /\ trust[p] = "untrusted"
  /\ CausesEvent(p, Export("log", p, pt))
  /\ UNCHANGED proc

\* A process exits, or is killed from inside the container while it waits.
Die(p) ==
  /\ proc[p] # "dead"
  /\ Kill({p})
  /\ UNCHANGED <<agentVars, trust, done, jammed, queue, nevents, killVars, monStop,
                 carried, pipe, pc, signalVars, batch, mgmt, Model_Error, ncommands, violation>>

\* One of the runcs at work succeeds, or fails, and exits: the latest, which
\* the orchestrator knows of, or an earlier one.
RuncExit(success) ==
  /\ runcs > 0
  /\ success \/ RuncFails
  /\ Kill(IF success THEN Procs ELSE {})
  /\ runcs' = runcs - 1
  /\ \/ /\ kill_process = "running"
        /\ kill_process' = IF success THEN "succeeded" ELSE "failed"
     \/ /\ kill_process = "running" => runcs > 1
        /\ UNCHANGED kill_process
  /\ SignalOrchestrator
  /\ UNCHANGED <<agentVars, trust, done, jammed, queue, nevents, monStop, carried, pipe,
                 stop, batch, mgmt, Model_Error, ncommands, violation>>

\* An interrupt from the terminal reaches both processes.
Interrupt ==
  /\ Interrupts
  /\ ~stop
  /\ stop' = TRUE
  /\ monStop' = TRUE
  /\ InterruptMonitor
  /\ InterruptOrchestrator
  /\ UNCHANGED <<agentVars, workloadVars, queue, killVars, monChild, carried, pipe,
                 sigchild, batch, mgmt, Model_Error, ncommands, violation>>

-----------------------------------------------------------------------------
(* The monitor process: the loop at the end of fire_cartridge.             *)

MonitorStep(from, to) ==
  /\ mon = from
  /\ mon' = to
  /\ UNCHANGED <<agentVars, workloadVars, killVars, monStop, monChild, stop, batch,
                 mgmt, Model_Error, ncommands, violation>>

\* It stops, or it exits because the container has, or it goes on to poll.
MonitorCheck ==
  /\ MonitorStep("signals", IF monStop THEN "reap"
                            ELSE IF monChild /\ AllDead THEN "closed" ELSE "poll")
  /\ UNCHANGED <<queue, carried, pipe, pc, sigchild>>

MonitorPoll ==
  /\ MonitorStep("poll", IF queue # <<>> THEN "read" ELSE "blocked")
  /\ UNCHANGED <<queue, carried, pipe, pc, sigchild>>

MonitorWake ==
  /\ queue # <<>>
  /\ MonitorStep("blocked", "read")
  /\ UNCHANGED <<queue, carried, pipe, pc, sigchild>>

\* A read of the kernel's event file is one description.
MonitorRead ==
  IF queue # <<>>
    THEN /\ MonitorStep("read", "write")
         /\ carried' = <<Head(queue)>>
         /\ queue' = Tail(queue)
         /\ UNCHANGED <<pipe, pc, sigchild>>
    ELSE /\ MonitorStep("read", "signals")
         /\ UNCHANGED <<queue, carried, pipe, pc, sigchild>>

PipeFull == Len(pipe) >= PipeSize

\* write blocks on a full pipe; on a pipe that nobody has open to read it kills.
MonitorWrite ==
  /\ carried' = <<>>
  /\ IF pc \in {"finished", "failed"}
       THEN MonitorStep("write", "closed") /\ UNCHANGED pipe
       ELSE /\ ~PipeFull
            /\ MonitorStep("write", "read")
            /\ pipe' = pipe \o carried
  /\ UNCHANGED <<queue, pc, sigchild>>

\* A monitor that was stopped returns to main, which waits for the container.
MonitorReap ==
  /\ AllDead
  /\ MonitorStep("reap", "closed")
  /\ UNCHANGED <<queue, carried, pipe, pc, sigchild>>

MonitorExit ==
  /\ MonitorStep("closed", "exited")
  /\ SignalOrchestrator
  /\ UNCHANGED <<queue, carried, pipe>>

Monitor == \/ MonitorCheck \/ MonitorPoll \/ MonitorWake \/ MonitorRead
           \/ MonitorWrite \/ MonitorReap \/ MonitorExit

-----------------------------------------------------------------------------
(* kill_cartridge: a runc is forked to kill the container, but not while   *)
(* an earlier one is thought to be at work.  When waitpid has nothing to   *)
(* say of that one, status is read uninitialised and anything may be       *)
(* thought.                                                                *)

ForkRunc == /\ kill_process # "succeeded"
            /\ kill_process' = "running"
            /\ runcs' = runcs + 1

\* Mutant: the pid of the first runc is not initialised either.
SkipRuncUninitialised ==
  /\ \/ kill_process = "succeeded" /\ kill_process' = "none"
     \/ kill_process \in {"none", "running", "reaped"} /\ kill_process' \in {kill_process, "none"}
  /\ UNCHANGED runcs

SkipRunc == /\ \/ kill_process = "succeeded" /\ kill_process' = "none"
               \/ kill_process \in {"running", "reaped"} /\ kill_process' \in {kill_process, "none"}
            /\ UNCHANGED runcs

kill_cartridge == ForkRunc \/ SkipRunc

-----------------------------------------------------------------------------
(* The orchestrator: child_monitor.                                        *)

OrchestratorStep(from, to) ==
  /\ pc = from
  /\ pc' = to
  /\ UNCHANGED <<nevents, queue, monVars, signalVars>>

\* Nothing the modelling of an event changes.
OutsideModelling == UNCHANGED <<agentVars, proc, trust, done, jammed, violation>>

Hangup == mon \in {"closed", "exited"}

\* poll finds nothing and sleeps.
PollBlocks ==
  /\ OrchestratorStep("poll", "blocked")
  /\ pipe = <<>> /\ ~Hangup
  /\ OutsideModelling
  /\ UNCHANGED <<killVars, pipe, batch, mgmt, Model_Error, ncommands>>

\* Mutant: one description of all that was read is kept.
ReadPipeFirst == /\ batch' = IF pipe = <<>> THEN <<>> ELSE <<Head(pipe)>>
                 /\ pipe' = <<>>

\* read_event takes all there is.
ReadPipe == batch' = pipe /\ pipe' = <<>>

\* poll returns because the pipe is readable or closed, or the console has sent
\* a command.  The end of the pipe is looked at before what is left in it.
PollReturns(command) ==
  LET ended == Hangup /\ (stop \/ sigchild)
  IN  /\ command => ncommands < MaxCommands
      /\ pipe # <<>> \/ Hangup \/ command
      /\ \E from \in {"poll", "blocked"} :
           OrchestratorStep(from,
             IF ended THEN (IF stop \/ mon = "exited" THEN "reap" ELSE "poll")
             ELSE IF pipe # <<>> THEN "drain"
             ELSE IF command THEN "mgmt" ELSE "poll")
      /\ IF ended THEN UNCHANGED <<batch, pipe, mgmt, ncommands>>
         ELSE /\ ReadPipe
              /\ mgmt' = command
              /\ ncommands' = IF command THEN ncommands + 1 ELSE ncommands
      /\ OutsideModelling
      /\ UNCHANGED <<killVars, Model_Error>>

\* poll was interrupted.
Interrupted ==
  /\ \/ stop /\ ForkRunc /\ OrchestratorStep("interrupted", "stopwait")
     \/ stop /\ SkipRunc /\ OrchestratorStep("interrupted", "reap")
     \/ /\ ~stop
        /\ OrchestratorStep("interrupted", IF mon = "exited" THEN "reap" ELSE "poll")
        /\ UNCHANGED killVars
  /\ OutsideModelling
  /\ UNCHANGED <<pipe, batch, mgmt, Model_Error, ncommands>>

\* Where child_monitor goes when the rest of the batch is left: after a batch
\* that was processed in a state of error it gives up.
Continue(rest) == IF rest # <<>> THEN "drain"
                  ELSE IF Model_Error THEN "failed"
                  ELSE IF mgmt THEN "mgmt" ELSE "poll"

\* kill_cartridge(true) waits for its runc.
WaitForRunc ==
  /\ kill_process # "running"
  /\ kill_process' = "reaped"
  /\ \/ OrchestratorStep("killwait", Continue(batch))
     \/ OrchestratorStep("stopwait", "reap")
  /\ OutsideModelling
  /\ UNCHANGED <<runcs, pipe, batch, mgmt, Model_Error, ncommands>>

\* The event is processed.
Processed ==
  /\ batch' = Tail(batch)
  /\ OrchestratorStep("drain", Continue(Tail(batch)))
  /\ IF Tail(batch) = <<>> /\ Model_Error THEN kill_cartridge ELSE UNCHANGED killVars
  /\ UNCHANGED Model_Error

\* process_event fails: the loop is left with the rest of the batch.
ProcessingFails ==
  /\ OrchestratorStep("drain", "failed")
  /\ Model_Error' = TRUE
  /\ kill_cartridge
  /\ batch' = Tail(batch)

\* TSEMcontrol: the kernel refuses a pid that is not waiting any more.
Accepted(p) == proc[p] = "waiting" /\ ~jammed

\* _write_cmd clears its buffer after a write that succeeded only: the refused
\* command stays in front of every later one, which the kernel may then refuse.
SetTrust(p, pt, status_of_process) ==
  IF Accepted(p)
    THEN /\ proc' = [proc EXCEPT ![p] = "running"]
         /\ trust' = [trust EXCEPT ![p] = status_of_process]
         /\ done' = [done EXCEPT ![p] = @ \cup {pt}]
         /\ UNCHANGED jammed
    ELSE /\ UNCHANGED <<proc, trust, done>>
         /\ jammed' \in {jammed, TRUE}

release(p, pt) == SetTrust(p, pt, "trusted")

discipline(p, pt) == SetTrust(p, pt, "untrusted")

InBatch(type) == /\ pc = "drain"
                 /\ batch # <<>>
                 /\ Head(batch).type = type
                 /\ UNCHANGED <<pipe, mgmt, ncommands>>

add_aggregate ==
  /\ InBatch("aggregate")
  /\ \/ /\ UNCHANGED agentVars
        /\ Processed
     \/ /\ Faults
        /\ Agent!Collapse
        /\ ProcessingFails
  /\ UNCHANGED <<proc, trust, done, jammed, violation>>

\* add_event after a modelling error: the process is released unmodelled.
AddEventInError ==
  LET e == Head(batch)
  IN  /\ InBatch("event")
      /\ Model_Error
      /\ release(e.pid, e.point)
      /\ IF Accepted(e.pid) THEN Processed ELSE ProcessingFails
      /\ UNCHANGED <<agentVars, violation>>

\* Mutants: the point is looked up before the event is modelled; the kernel is
\* not told of a violation.
AnswerFirst(e) == IF sealed /\ status[e.point] = "invalid"
                    THEN discipline(e.pid, e.point) ELSE release(e.pid, e.point)
AnswerTrusted(e) == IF verdict'.sealed /\ verdict'.discipline
                      THEN UNCHANGED <<proc, trust, done, jammed>> ELSE release(e.pid, e.point)

\* What the kernel is told of the process, once its event has been modelled.
Answer(e) == IF verdict'.sealed /\ verdict'.discipline
               THEN discipline(e.pid, e.point) ELSE release(e.pid, e.point)

\* add_event: the process is released as the agent's verdict says.  Only with a
\* sealed model does it matter that the kernel takes the release.
AddEvent ==
  LET e == Head(batch)
  IN  /\ InBatch("event")
      /\ ~Model_Error
      /\ Agent!Judge(e.point)
      /\ Answer(e)
      /\ IF verdict'.sealed /\ ~Accepted(e.pid) THEN ProcessingFails ELSE Processed
      /\ UNCHANGED violation

\* Mutant: the violation is reported and the workload left alone.
ShutWorkloadDownNot == Processed

\* kill_cartridge(true).
ShutWorkloadDown ==
  /\ batch' = Tail(batch)
  /\ UNCHANGED Model_Error
  /\ \/ ForkRunc /\ OrchestratorStep("drain", "killwait")
     \/ SkipRunc /\ OrchestratorStep("drain", Continue(Tail(batch)))

\* add_async_event: a violation of an enforced model shuts the workload down.
AddAsyncEvent ==
  LET e == Head(batch)
  IN  /\ InBatch("async_event")
      /\ ~Model_Error
      /\ Agent!Judge(e.point)
      /\ IF verdict'.sealed /\ verdict'.discipline /\ Enforce
           THEN ShutWorkloadDown /\ violation' = TRUE
           ELSE Processed /\ UNCHANGED violation
      /\ UNCHANGED <<proc, trust, done, jammed>>

AddAsyncEventInError ==
  /\ InBatch("async_event")
  /\ Model_Error
  /\ ProcessingFails
  /\ OutsideModelling

\* The agent fails to model the event.
ModelUpdateFails ==
  /\ Faults
  /\ \E type \in {"event", "async_event"} : InBatch(type)
  /\ ~Model_Error
  /\ Agent!Fail(Head(batch).point)
  /\ ProcessingFails
  /\ UNCHANGED <<proc, trust, done, jammed, violation>>

add_log ==
  /\ InBatch("log")
  /\ Processed \/ (Faults /\ ProcessingFails)
  /\ OutsideModelling

\* process_command: the model is sealed, or shown.
CommandSeal ==
  /\ OrchestratorStep("mgmt", "poll")
  /\ Agent!Seal
  /\ UNCHANGED <<proc, trust, done, jammed, violation, killVars, pipe, batch, mgmt,
                 Model_Error, ncommands>>

CommandShow ==
  /\ OrchestratorStep("mgmt", "poll")
  /\ OutsideModelling
  /\ UNCHANGED <<killVars, pipe, batch, mgmt, Model_Error, ncommands>>

\* The command is not one, or its answer cannot be sent: a seal is not undone.
CommandFails ==
  /\ OrchestratorStep("mgmt", "poll")
  /\ Model_Error' = TRUE
  /\ kill_cartridge
  /\ Agent!Seal \/ UNCHANGED agentVars
  /\ UNCHANGED <<proc, trust, done, jammed, violation, pipe, batch, mgmt, ncommands>>

\* The model is written, and main waits for the monitor process.
Finish ==
  /\ mon = "exited"
  /\ OrchestratorStep("reap", "finished")
  /\ OutsideModelling
  /\ UNCHANGED <<killVars, pipe, batch, mgmt, Model_Error, ncommands>>

ProcessEvent == \/ add_aggregate \/ AddEventInError \/ AddEvent \/ AddAsyncEvent
                \/ AddAsyncEventInError \/ ModelUpdateFails \/ add_log

Orchestrator == \/ PollBlocks \/ PollReturns(FALSE) \/ Interrupted \/ WaitForRunc
                \/ ProcessEvent \/ CommandSeal \/ CommandShow \/ CommandFails \/ Finish

Workload == \E p \in Procs :
              \/ \E pt \in Points : SecurityEvent(p, pt) \/ AtomicEvent(p, pt) \/ LoggedEvent(p, pt)
              \/ Die(p)

Runc == \E success \in BOOLEAN : RuncExit(success)

Next == Workload \/ Runc \/ Interrupt \/ Monitor \/ Orchestrator \/ PollReturns(TRUE)

\* The processes of the orchestrator are scheduled, and a runc comes to an end.
\* Nothing is asked of the workload, of the console or of the user.
Fairness == WF_vars(Monitor) /\ WF_vars(Orchestrator) /\ WF_vars(Runc)

Spec == Init /\ [][Next]_vars /\ Fairness

-----------------------------------------------------------------------------
(* Properties.                                                             *)

Stopped == pc \in {"reap", "finished", "failed"}

\* A process that is still trusted was let through no event but those the agent
\* holds valid, for as long as no error made the orchestrator release processes
\* unmodelled: neither queues, nor a seal that comes while an event is on its
\* way, nor another process' verdict ever lets one through.
TrustedMeansValid ==
  ~Model_Error =>
    \A p \in Procs : trust[p] = "trusted" =>
      \A pt \in done[p] : status[pt] = "valid"

IsEventOf(e, p) == e.type = "event" /\ e.pid = p

Never(s, p) == \A i \in 1..Len(s) : ~IsEventOf(s[i], p)

Once(s, p) == \E i \in 1..Len(s) : /\ IsEventOf(s[i], p)
                                   /\ \A j \in 1..Len(s) : IsEventOf(s[j], p) => j = i

\* Where an event can be on its way from the kernel to the agent.
Places == <<queue, carried, pipe, batch>>

InOnePlace(p) == \E n \in 1..4 : /\ Once(Places[n], p)
                                 /\ \A m \in 1..4 : m # n => Never(Places[m], p)

\* The event a process waits for is nowhere twice and never nowhere on its way
\* from the kernel through the monitor, the pipe and the batch, until the
\* orchestrator gives up or the kernel refuses what it is told.
WaitingIsInFlight ==
  pc # "failed" /\ ~jammed => \A p \in Procs : proc[p] = "waiting" => InOnePlace(p)

\* A process let through an event that was not modelled, because the agent or
\* the console made an error, does not outlive the runc that was started.
UnmodelledIsKilled ==
  (\E p \in Procs : \E pt \in done[p] : status[pt] = "unknown") ~> AllDead

\* A process that waits for a verdict gets one, or dies, or the orchestrator
\* gives the workload up, unless a refused command is in the way of its own.
WaitingIsAnswered ==
  \A p \in Procs : proc[p] = "waiting" ~> (proc[p] # "waiting" \/ Stopped \/ jammed)

\* A violation in atomic context of a model that is enforced brings the whole
\* workload down.
ViolationStopsWorkload == violation ~> AllDead

\* "[A] security model description [is] output when the modeled workload
\* terminates" (Documentation/tsem.rst, the -o option).
ModelIsOutput == AllDead ~> Stopped
=============================================================================
