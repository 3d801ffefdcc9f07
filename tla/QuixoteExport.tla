--------------------------- MODULE QuixoteExport ---------------------------
(***************************************************************************)
(* The export of the events of a workload, quixote-export.c: the           *)
(* orchestrator (child_monitor, and main after it), the monitor process it *)
(* forks (fire_cartridge), which copies the kernel's event file to a pipe, *)
(* and the workload.  Both processes give up root for an ordinary user.    *)
(*                                                                         *)
(* Events are numbered as they are generated.  A write to the pipe is one  *)
(* event, and one that finds the pipe full blocks (module TSEMevent is     *)
(* about events in pieces).  The kernel, signals and runc are external.    *)
(***************************************************************************)
EXTENDS Naturals, Sequences, SequencesExt

CONSTANTS Events,   \* how many events the workload generates
          PipeSize, \* how many of them the pipe holds
          Mode,     \* "cartridge", "process" or "execute"
          Root,     \* does the option -U keep the processes root?
          Stops,    \* can the orchestrator be told to stop?
          Faults,   \* can a call fail?
          Races     \* can a signal come between a look at the flags and the poll?

ASSUME ExportAssumption ==
  /\ {Events, PipeSize} \subseteq Nat /\ PipeSize > 0
  /\ Mode \in {"cartridge", "process", "execute"}
  /\ {Root, Stops, Faults, Races} \subseteq BOOLEAN

VARIABLES
  workload,  \* what has become of the workload
  generated, \* the events it has generated
  file,      \* those in the kernel's file
  mon,       \* what the monitor is doing
  monStop, monTerm, monChild,  \* its Signals
  carried,   \* the event it has read
  pipe,      \* the events in the pipe
  pc,        \* what the orchestrator is doing
  stop, sigchild,              \* its Signals
  batch,     \* the events read_event has read
  output,    \* the events that were written
  failed,    \* has it failed to become its user, to read or to write?
  killing    \* is there a runc that nobody waits for?

workVars == <<workload, generated>>
monVars == <<mon, monStop, monTerm, monChild, carried>>
mainVars == <<pc, stop, sigchild, batch, output, failed, killing>>
vars == <<workVars, file, monVars, pipe, mainVars>>

TypeOK ==
  /\ workload \in {"none", "running", "ended"}
  /\ generated \in 0..Events
  /\ {file, carried, pipe, batch, output} \subseteq Seq(1..Events)
  /\ Len(carried) <= 1 /\ Len(pipe) <= PipeSize
  /\ mon \in {"setup", "launched", "signals", "poll", "blocked", "read", "write", "reap", "exited", "failed"}
  /\ pc \in {"user", "poll", "blocked", "interrupted", "fetch", "kill", "read_failed", "fetch_failed", "wait",
             "ended", "failed"}
  /\ {monStop, monTerm, monChild, stop, sigchild, failed, killing} \subseteq BOOLEAN
  /\ mon = "setup" => workload = "none"

Init ==
  /\ workload = "none" /\ generated = 0 /\ file = <<>>
  /\ mon = "setup" /\ monStop = FALSE /\ monTerm = FALSE /\ monChild = FALSE
  /\ carried = <<>> /\ pipe = <<>>
  /\ pc = "user" /\ stop = FALSE /\ sigchild = FALSE
  /\ batch = <<>> /\ output = <<>> /\ failed = FALSE /\ killing = FALSE

\* A signal ends a poll; anything else goes on after it.
Woken(p) == IF p = "blocked" THEN "interrupted" ELSE p
MonWoken(m) == IF m = "blocked" THEN "signals" ELSE m

\* A monitor that has ended has done so after its workload, or has failed.
MonitorEnded == mon \in {"exited", "failed"}

-----------------------------------------------------------------------------
(* The workload.                                                           *)

generate ==
  /\ workload = "running" /\ generated < Events
  /\ generated' = generated + 1
  /\ file' = Append(file, generated + 1)
  /\ UNCHANGED <<workload, monVars, pipe, mainVars>>

WorkloadEnds ==
  /\ workload = "running" /\ (Races \/ mon # "poll")
  /\ workload' = "ended"
  /\ monChild' = TRUE /\ mon' = MonWoken(mon)
  /\ UNCHANGED <<generated, file, monStop, monTerm, carried, pipe, mainVars>>

exit == generated = Events /\ WorkloadEnds

-----------------------------------------------------------------------------
(* The monitor process.                                                    *)

MonitorStep(from, to) ==
  /\ mon = from /\ mon' = to
  /\ UNCHANGED <<workVars, monStop, monTerm, monChild, mainVars>>

\* setup_namespace and the fork of the workload, while still root.
launch ==
  /\ mon = "setup" /\ mon' = "launched"
  /\ workload' = "running"
  /\ UNCHANGED <<generated, file, monStop, monTerm, monChild, carried, pipe, mainVars>>

set_user == MonitorStep("launched", "signals") /\ UNCHANGED <<file, carried, pipe>>

\* The monitor ends, and its end is signalled.
MonitorEnds(from, to) ==
  /\ mon = from /\ mon' = to
  /\ sigchild' = TRUE /\ pc' = Woken(pc)
  /\ UNCHANGED <<workVars, monStop, monTerm, monChild, stop, batch, output, failed, killing>>

\* A namespace that cannot be set up has no workload.
launch_fails == Faults /\ MonitorEnds("setup", "exited") /\ UNCHANGED <<file, carried, pipe>>

\* A user the monitor cannot become, a read that fails and a file that cannot
\* be rewound end it, and the workload goes on.
set_user_fails == Faults /\ MonitorEnds("launched", "failed") /\ UNCHANGED <<file, carried, pipe>>
monitor_read_fails == Faults /\ MonitorEnds("read", "failed") /\ UNCHANGED <<file, carried, pipe>>

\* A process that is to be signalled has to be the signalling one's user's.
\* SIGTERM does not end a shell that is not there any more.
MonitorKills == Root /\ Mode = "process" /\ workload = "running"

\* A monitor that is told to stop leaves the loop ...
monitor_stop ==
  /\ monStop
  /\ MonitorStep("signals", "reap")
  /\ UNCHANGED <<file, carried, pipe>>

\* ... that is told to terminate signals its process group, itself and the
\* orchestrator included, ...
monitor_term ==
  /\ ~monStop /\ monTerm /\ MonitorKills
  /\ mon = "signals" /\ mon' = "signals"
  /\ workload' = "ended" /\ monChild' = TRUE /\ pc' = Woken(pc)
  /\ UNCHANGED <<generated, file, monStop, monTerm, carried, pipe, stop, sigchild, batch, output, failed, killing>>

\* Mutant: an exit that is noticed is not the end.
MonitorExitNot ==
  /\ ~monStop /\ ~(monTerm /\ MonitorKills)
  /\ MonitorStep("signals", "poll")
  /\ UNCHANGED <<file, carried, pipe>>

\* ... and exits when its workload has, whatever is left in the file.
monitor_exit ==
  /\ ~monStop /\ ~(monTerm /\ MonitorKills)
  /\ IF monChild /\ workload = "ended"
     THEN MonitorEnds("signals", "exited")
     ELSE MonitorStep("signals", "poll")
  /\ UNCHANGED <<file, carried, pipe>>

monitor_poll ==
  /\ MonitorStep("poll", IF file # <<>> THEN "read" ELSE "blocked")
  /\ UNCHANGED <<file, carried, pipe>>

monitor_wake ==
  /\ file # <<>>
  /\ MonitorStep("blocked", "read")
  /\ UNCHANGED <<file, carried, pipe>>

\* Each read is one event; when there is none the signals are looked at again.
monitor_read ==
  IF file # <<>>
  THEN /\ MonitorStep("read", "write")
       /\ carried' = <<Head(file)>> /\ file' = Tail(file)
       /\ UNCHANGED pipe
  ELSE MonitorStep("read", "signals") /\ UNCHANGED <<file, carried, pipe>>

\* The write blocks as long as the pipe is full, and the orchestrator, which
\* has the pipe open until it ends, may have ceased to read it; when it has
\* ended the write is the monitor's end.
monitor_write ==
  /\ \/ /\ pc \notin {"ended", "failed"} /\ Len(pipe) < PipeSize
        /\ MonitorStep("write", "read") /\ pipe' = pipe \o carried /\ carried' = <<>>
     \/ /\ pc \in {"ended", "failed"}
        /\ MonitorStep("write", "failed") /\ UNCHANGED <<carried, pipe>>
  /\ UNCHANGED file

\* Back in main the pid waited for is zero, that is any child: the workload.
monitor_reap ==
  /\ workload = "ended"
  /\ MonitorEnds("reap", "exited")
  /\ UNCHANGED <<file, carried, pipe>>

Monitor ==
  \/ launch \/ set_user \/ monitor_stop \/ monitor_term \/ monitor_exit \/ monitor_poll
  \/ monitor_wake \/ monitor_read \/ monitor_write \/ monitor_reap

MonitorFails == launch_fails \/ set_user_fails \/ monitor_read_fails

-----------------------------------------------------------------------------
(* The orchestrator.                                                       *)

MainStep(from, to) ==
  /\ pc = from /\ pc' = to
  /\ UNCHANGED <<stop, sigchild>>

Others == UNCHANGED <<workVars, file, monVars>>

drop_root == MainStep("user", "poll") /\ Others /\ UNCHANGED <<pipe, batch, output, failed, killing>>

\* An orchestrator that cannot become its user ends, and waits for nobody.
drop_root_fails ==
  /\ Faults /\ MainStep("user", "failed") /\ failed' = TRUE
  /\ Others /\ UNCHANGED <<pipe, batch, output, killing>>

\* The pipe's other end is closed, by the monitor and the workload it forked.
Hangup == MonitorEnded /\ workload # "running"

poll_blocks ==
  /\ pipe = <<>> /\ ~Hangup
  /\ MainStep("poll", "blocked")
  /\ Others /\ UNCHANGED <<pipe, batch, output, failed, killing>>

\* A signal has ended the poll: a stop kills the workload, the end of the
\* monitor is the end of the export, any other signal is an error.
Interrupted ==
  CASE stop -> "kill"
    [] ~stop /\ sigchild -> IF MonitorEnded THEN "wait" ELSE "poll"
    [] ~stop /\ ~sigchild -> "kill"

poll_interrupted ==
  /\ MainStep("interrupted", Interrupted)
  /\ Others /\ UNCHANGED <<pipe, batch, output, failed, killing>>

\* The end of the pipe is looked at first: what is in the pipe is not read.
poll_hangup ==
  /\ pc \in {"poll", "blocked"} /\ Hangup
  /\ stop \/ sigchild
  /\ pc' = "wait"
  /\ Others /\ UNCHANGED <<stop, sigchild, pipe, batch, output, failed, killing>>

\* Mutant: what the object held is replaced.
ReadEventFresh ==
  /\ pc \in {"poll", "blocked"} /\ pipe # <<>> /\ ~(Hangup /\ (stop \/ sigchild))
  /\ pc' = "fetch"
  /\ batch' = <<Last(pipe)>> /\ pipe' = <<>>
  /\ Others /\ UNCHANGED <<stop, sigchild, output, failed, killing>>

read_event ==
  /\ pc \in {"poll", "blocked"} /\ pipe # <<>> /\ ~(Hangup /\ (stop \/ sigchild))
  /\ pc' = "fetch"
  /\ batch' = batch \o pipe /\ pipe' = <<>>
  /\ Others /\ UNCHANGED <<stop, sigchild, output, failed, killing>>

\* A read that fails, or an event that cannot be fetched, kills the workload: the
\* one ends the orchestrator, which waits for nobody, the other not even its loop.
read_event_fails ==
  /\ Faults /\ pc \in {"poll", "blocked"} /\ pipe # <<>> /\ ~(Hangup /\ (stop \/ sigchild))
  /\ pc' = "read_failed" /\ failed' = TRUE
  /\ Others /\ UNCHANGED <<stop, sigchild, pipe, batch, output, killing>>

fetch_event_fails ==
  /\ Faults /\ MainStep("fetch", "fetch_failed") /\ failed' = TRUE /\ batch' = Tail(batch)
  /\ Others /\ UNCHANGED <<pipe, output, killing>>

\* fetch_event and output_event, as long as there are more.
output_event ==
  /\ pc = "fetch"
  /\ output' = Append(output, Head(batch)) /\ batch' = Tail(batch)
  /\ MainStep("fetch", IF Len(batch) > 1 THEN "fetch" ELSE "poll")
  /\ Others /\ UNCHANGED <<pipe, failed, killing>>

\* An output that fails only leaves the loop.
output_fails ==
  /\ Faults /\ pc = "fetch"
  /\ failed' = TRUE /\ batch' = Tail(batch)
  /\ MainStep("fetch", "poll")
  /\ Others /\ UNCHANGED <<pipe, output, killing>>

\* What follows kill_cartridge, where it is called.
Then == [kill |-> "wait", read_failed |-> "failed", fetch_failed |-> "poll"]

\* kill_cartridge: a shell's monitor is sent a signal, which it is allowed to
\* be as long as both have the same user; otherwise runc is run, which takes
\* root and the name of a container.
SameUser == Root \/ mon \notin {"setup", "launched"}

kill_process ==
  /\ Mode = "process"
  /\ pc \in DOMAIN Then /\ MainStep(pc, Then[pc]) /\ (Races \/ mon # "poll")
  /\ IF SameUser /\ ~MonitorEnded
     THEN monTerm' = TRUE /\ mon' = MonWoken(mon)
     ELSE UNCHANGED <<monTerm, mon>>
  /\ UNCHANGED <<workVars, file, monStop, monChild, carried, pipe, batch, output, failed, killing>>

RuncKills ==
  /\ Races \/ mon # "poll"
  /\ IF Root /\ Mode = "cartridge" /\ workload = "running"
     THEN workload' = "ended" /\ monChild' = TRUE /\ mon' = MonWoken(mon)
     ELSE UNCHANGED <<workload, monChild, mon>>
  /\ UNCHANGED <<generated, file, monStop, monTerm, carried, pipe, batch, output, failed>>

\* A stop waits for runc.
kill_runc ==
  /\ Mode # "process"
  /\ MainStep("kill", "wait") /\ RuncKills /\ UNCHANGED killing

\* A failure does not; while that runc runs, whether another is forked depends
\* on a status that was not set.
kill_runc_later ==
  /\ Mode # "process"
  /\ \/ pc \in DOMAIN Then \ {"kill"} /\ killing' = TRUE
     \/ pc = "kill" /\ killing /\ UNCHANGED killing
  /\ MainStep(pc, Then[pc])
  /\ Others /\ UNCHANGED <<pipe, batch, output, failed>>

runc_kills ==
  /\ killing /\ killing' = FALSE
  /\ RuncKills /\ UNCHANGED <<pc, stop, sigchild>>

\* Mutant: main does not wait for the monitor.
WaitNot ==
  /\ MainStep("wait", "ended")
  /\ Others /\ UNCHANGED <<pipe, batch, output, failed, killing>>

\* main waits for the monitor.
wait ==
  /\ MonitorEnded
  /\ MainStep("wait", "ended")
  /\ Others /\ UNCHANGED <<pipe, batch, output, failed, killing>>

Main ==
  \/ drop_root \/ poll_blocks \/ poll_interrupted \/ poll_hangup \/ read_event \/ output_event
  \/ kill_process \/ kill_runc \/ kill_runc_later \/ wait

MainFails == drop_root_fails \/ read_event_fails \/ fetch_event_fails \/ output_fails

\* A stop is sent to the orchestrator, or from the terminal to both processes.
signal ==
  /\ Stops /\ ~stop /\ pc \notin {"ended", "failed"} /\ (Races \/ "poll" \notin {pc, mon})
  /\ stop' = TRUE /\ pc' = Woken(pc)
  /\ \/ monStop' = TRUE /\ mon' = MonWoken(mon)
     \/ UNCHANGED <<monStop, mon>>
  /\ UNCHANGED <<workVars, file, monTerm, monChild, carried, pipe, sigchild, batch, output, failed, killing>>

Next == generate \/ exit \/ Monitor \/ MonitorFails \/ Main \/ MainFails \/ runc_kills \/ signal

Spec == Init /\ [][Next]_vars

\* Both processes run; the workload need not come to an end.
FairSpec == Spec /\ WF_vars(Monitor) /\ WF_vars(Main)

-----------------------------------------------------------------------------
(* Properties.                                                             *)

Numbers(a, b) == [i \in 1..(b - a + 1) |-> a + i - 1]

\* Nothing is lost on the way from the kernel to the output, nothing comes
\* twice or out of order: while the orchestrator has not failed, what was written,
\* what was read, what is in the pipe, in the monitor's hands and in the file are,
\* one after the other, the events of the workload.
NothingLostOnTheWay ==
  ~failed => output \o batch \o pipe \o carried \o file = Numbers(1, generated)

\* An output that fails may lose events, but never brings them out of order.
OutputInOrder ==
  \A i, j \in DOMAIN output : i < j => output[i] < output[j]

\* The orchestrator does not end before its workload: an orchestrator that has
\* waited has no workload left (main), unless its monitor failed, which nothing
\* tells from a monitor that has ended.  An orchestrator that fails itself
\* (drop_root_fails, read_event_fails) does not wait, and is left out.
LeavesNoWorkload == pc = "ended" /\ workload = "running" => mon = "failed"

\* README:264: the orchestrator writes the events that the kernel exports.
EveryEventIsExported ==
  pc = "ended" /\ ~stop /\ ~failed => output = Numbers(1, generated)

\* When the workload has come to its end, the orchestrator ends: the end is
\* carried by a signal to the monitor, by the pipe to the orchestrator.
EndIsNoticed == workload = "ended" ~> pc = "ended"

\* quixote-export.c: kill_cartridge is responsible for shutting down the
\* workload, when there is one.
KilledEnds == (pc = "kill" /\ workload = "running") ~> workload = "ended"

\* quixote-export.c: a failure of the orchestrator is followed by the end of the
\* workload.
FailureKills == failed ~> workload = "ended"
=============================================================================
