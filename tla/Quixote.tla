------------------------------- MODULE Quixote -------------------------------
(***************************************************************************)
(* The orchestrator of a namespace whose model is in the kernel,           *)
(* Quixote/quixote.c.  The program is three processes: main, which waits;  *)
(* the monitor, which sets the namespace up, loads the model, serves the   *)
(* console and outputs the model; and the workload.  A pipe leads from the *)
(* monitor to main, and the workload inherits its writing side.            *)
(*                                                                         *)
(* The kernel models while a list is sent, so a list is read twice: to     *)
(* count its lines and to send them.  The lists only grow: a list is its   *)
(* length.  The connection of a console is module LocalDuct.               *)
(***************************************************************************)
EXTENDS Naturals, Sequences, FiniteSets

CONSTANTS Modes,     \* "cartridge", "process", "execute"
          Outputs,   \* what is output at the end: "none", "model", "trajectory"
          Files,     \* the model files, as sequences of lines; <<>> for none
          Commands,  \* the commands of the consoles
          MaxEvents, \* bound on the events of the workload
          MaxAsks,   \* bound on the commands
          Stops,     \* is the workload stopped and continued?
          Daemons    \* does it leave processes behind?

ASSUME QuixoteAssumption ==
  /\ Modes \subseteq {"cartridge", "process", "execute"}
  /\ Outputs \subseteq {"none", "model", "trajectory"}
  /\ Files \subseteq Seq({"#", "key", "base", "aggregate", "state", "pseudonym", "seal",
                          "signature", "forged", "end", "unknown"})
  /\ Commands \subseteq {"state", "trajectory", "coefficients", "forensics", "map",
                         "events", "seal"}
  /\ {MaxEvents, MaxAsks} \subseteq Nat
  /\ {Stops, Daemons} \subseteq BOOLEAN

VARIABLES
  opt,       \* the options: mode, output and model file
  kernel,    \* the model: points, trajectory and forensics, as lengths, and sealed
  events,    \* events of the workload so far
  workload,  \* "none", "running", "stopped", "dying", "ended"
  daemon,    \* a process it left behind: "none", "running", "gone"
  pc, status,           \* the monitor, and its exit status
  stop, sigchild, woken, \* its signals; woken if it was in poll
  next,      \* the next line of the file, to be loaded or to be written
  key,       \* is there a key of the model?
  conn,      \* is a console connected?
  console, cmd, asks,   \* the console, what it asks, and how often
  count, lines,         \* its answer: the lines that are announced and those sent
  mpc,       \* main
  pid,       \* does it know the pid of the workload?
  pipe,      \* what is in the pipe
  str, out   \* the line main reads, and the file it has written

monitorVars == <<pc, status, stop, sigchild, woken, next, key>>
consoleVars == <<conn, console, cmd, asks, count, lines>>
workVars    == <<workload, daemon, events>>
mainVars    == <<mpc, pid, str, out>>
vars == <<opt, kernel, monitorVars, consoleVars, workVars, mainVars, pipe>>

Pause      == opt.output # "none"
Trajectory == opt.output = "trajectory"
Mode       == opt.mode

Sym(text, n) == [text |-> text, n |-> n]

Feed == Sym("feed", 0)

Alive == workload \in {"running", "stopped", "dying"}

\* Mutant: the workload does not inherit the pipe.
PipeOpenMonitor == pc # "exited"

\* The writing side of the pipe is open as long as a process has it.
PipeOpen == pc # "exited" \/ Alive \/ daemon = "running"

-----------------------------------------------------------------------------
TypeOK ==
  /\ opt \in [mode : Modes, output : Outputs, file : Files]
  /\ kernel \in [points : Nat, trajectory : Nat, forensics : Nat, sealed : BOOLEAN]
  /\ kernel.trajectory + kernel.forensics <= events
  /\ events \in 0..MaxEvents
  /\ workload \in {"none", "running", "stopped", "dying", "ended"}
  /\ daemon \in {"none", "running", "gone"}
  /\ pc \in {"setup", "load", "fork", "check", "poll", "blocked", "serve", "count", "send",
             "upload", "exited"}
  /\ status \in 0..1
  /\ {stop, sigchild, woken, key, conn, pid} \subseteq BOOLEAN
  /\ (woken => pc = "blocked") /\ (pc = "exited" \/ status = 0)
  /\ console \in {"none", "asked", "received", "answered", "failed"}
  /\ cmd \in Commands \cup {"none"} /\ asks \in 0..MaxAsks
  /\ mpc \in {"pid", "receive", "pausing", "paused", "check", "exit0", "exit1", "failed",
              "killed"}
  /\ count \in Nat /\ lines \in Seq(Nat \ {0})
  /\ {str, out, pipe} \subseteq Seq([text : STRING, n : Nat])

Init ==
  /\ opt \in [mode : Modes, output : Outputs, file : Files]
  /\ kernel = [points |-> 0, trajectory |-> 0, forensics |-> 0, sealed |-> FALSE]
  /\ events = 0 /\ workload = "none" /\ daemon = "none"
  /\ pc = "setup" /\ status = 0
  /\ stop = FALSE /\ sigchild = FALSE /\ woken = FALSE
  /\ next = 1 /\ key = FALSE
  /\ conn = FALSE /\ console = "none" /\ cmd = "none" /\ asks = 0
  /\ count = 0 /\ lines = <<>>
  /\ mpc = "pid" /\ pid = FALSE
  /\ pipe = <<>> /\ str = <<>> /\ out = <<>>

-----------------------------------------------------------------------------
(* The workload and the kernel.                                            *)

Quiet == UNCHANGED <<opt, monitorVars, consoleVars, mainVars, pipe>>

\* An event with a new coefficient is modelled.
Event ==
  /\ workload = "running" \/ daemon = "running"
  /\ events < MaxEvents
  /\ events' = events + 1
  /\ kernel' = IF kernel.sealed
                 THEN [kernel EXCEPT !.forensics = @ + 1]
                 ELSE [kernel EXCEPT !.points = @ + 1, !.trajectory = @ + 1]
  /\ Quiet
  /\ UNCHANGED <<workload, daemon>>

\* signal_handler of the monitor: SIGCHLD.  Only poll is interrupted by it.
SigChild ==
  /\ sigchild' = TRUE
  /\ woken' = (pc = "blocked")
  /\ UNCHANGED <<opt, kernel, events, pc, status, stop, next, key, consoleVars, mainVars, pipe>>

WorkloadEnds ==
  /\ workload \in {"running", "dying"}
  /\ workload' = "ended"
  /\ daemon' \in IF Daemons /\ Mode # "cartridge" THEN {"none", "running"} ELSE {"none"}
  /\ SigChild

DaemonEnds ==
  /\ daemon = "running"
  /\ daemon' = "gone"
  /\ Quiet
  /\ UNCHANGED <<kernel, workload, events>>

\* The handlers are installed without SA_NOCLDSTOP.
WorkloadStops ==
  /\ Stops
  /\ workload = "running"
  /\ workload' = "stopped"
  /\ UNCHANGED daemon
  /\ SigChild

WorkloadContinues ==
  /\ workload = "stopped"
  /\ workload' = "running"
  /\ UNCHANGED daemon
  /\ SigChild

\* The user interrupts the orchestrator: main and the monitor are signalled.
Interrupt ==
  /\ ~stop /\ pc # "exited"
  /\ stop' = TRUE
  /\ woken' = (pc = "blocked")
  /\ mpc' = IF mpc = "paused" THEN "check" ELSE mpc
  /\ UNCHANGED <<opt, kernel, workVars, pc, status, sigchild, next, key, consoleVars,
                 pid, str, out, pipe>>

-----------------------------------------------------------------------------
(* The monitor, before the workload starts.                                *)

Monitor(from, to) ==
  /\ pc = from
  /\ pc' = to
  /\ UNCHANGED <<opt, stop, sigchild>>

\* The monitor exits; main gets a SIGCHLD, which it only notices in pause.
Exit(from, code) ==
  /\ Monitor(from, "exited")
  /\ status' = code
  /\ mpc' = IF mpc = "paused" THEN "check" ELSE mpc
  /\ woken' = FALSE
  /\ UNCHANGED <<next, key, pid, str, out>>

Fail(from) == Exit(from, 1) /\ UNCHANGED <<kernel, workVars, consoleVars, pipe>>

setup_namespace ==
  \/ /\ Monitor("setup", "load")
     /\ UNCHANGED <<kernel, status, woken, next, key, workVars, consoleVars, mainVars, pipe>>
  \/ Fail("setup")

Loadable(line) ==
  CASE line = "key"                  -> ~key
    [] line = "signature"            -> key
    [] line \in {"forged", "unknown"} -> FALSE
    [] OTHER                         -> TRUE

\* Whatever reaches the kernel can be refused there.
NeedsKernel == {"base", "state", "pseudonym", "seal"}

load ==
  /\ pc = "load" /\ next <= Len(opt.file)
  /\ LET line == opt.file[next]
     IN  \/ /\ Loadable(line)
            /\ Monitor("load", "load")
            /\ kernel' = CASE line = "state" -> [kernel EXCEPT !.points = @ + 1]
                           [] line = "seal"  -> [kernel EXCEPT !.sealed = TRUE]
                           [] OTHER          -> kernel
            /\ key' = CASE line = "key"       -> TRUE
                        [] line = "signature" -> FALSE
                        [] OTHER              -> key
            /\ next' = next + 1
            /\ UNCHANGED <<status, woken, workVars, consoleVars, mainVars, pipe>>
         \/ /\ ~Loadable(line) \/ line \in NeedsKernel
            /\ Fail("load")

\* Mutant: loading ends with the line of the seal.
LoadedSealed == IF next > Len(opt.file) THEN TRUE ELSE opt.file[next] = "seal"

Loaded == next > Len(opt.file)

load_model ==
  /\ pc = "load" /\ Loaded
  /\ Monitor("load", "fork")
  /\ UNCHANGED <<kernel, status, woken, next, key, workVars, consoleVars, mainVars, pipe>>

\* The workload is forked and main is told its pid.
fire_cartridge ==
  \/ /\ Monitor("fork", "poll")
     /\ workload' = "running"
     /\ pipe' = Append(pipe, Sym("pid", 0))
     /\ UNCHANGED <<kernel, daemon, events, status, woken, next, key, consoleVars, mainVars>>
  \/ Fail("fork")

-----------------------------------------------------------------------------
(* The loop of the monitor.                                                *)

poll ==
  /\ Monitor("poll", "blocked")
  /\ UNCHANGED <<kernel, status, woken, next, key, workVars, consoleVars, mainVars, pipe>>

\* Something to read: a connection, a command or the end of transmission.
Ready == IF conn THEN console \in {"asked", "answered", "failed"} ELSE console = "asked"

poll_returns ==
  /\ woken \/ Ready
  /\ Monitor("blocked", "check")
  /\ woken' = FALSE
  /\ UNCHANGED <<kernel, status, next, key, workVars, consoleVars, mainVars, pipe>>

\* kill_cartridge: runc kills a cartridge, or fails; in execute mode there is
\* no cartridge for it to kill.
kill_cartridge ==
  \/ /\ Mode # "execute"
     /\ workload' = IF Alive THEN "dying" ELSE workload
  \/ /\ Mode # "process"
     /\ UNCHANGED workload

Terminate == kill_cartridge

check_stop ==
  /\ stop
  /\ Exit("check", 0)
  /\ Terminate
  /\ UNCHANGED <<kernel, daemon, events, consoleVars, pipe>>

\* Mutant: any SIGCHLD is taken for the end of the workload.
ChildExitedAlways == TRUE

child_exited == workload = "ended"

check_sigchild ==
  /\ ~stop /\ sigchild
  /\ \/ /\ ~child_exited
        /\ Monitor("check", "poll")
        /\ UNCHANGED <<kernel, status, woken, next, key, workVars, consoleVars, mainVars, pipe>>
     \/ /\ child_exited /\ Pause
        /\ Monitor("check", "upload")
        /\ next' = 0
        /\ UNCHANGED <<kernel, status, woken, key, workVars, consoleVars, mainVars, pipe>>
     \/ /\ child_exited /\ ~Pause
        /\ Exit("check", 0)
        /\ UNCHANGED <<kernel, workVars, consoleVars, pipe>>

check_poll ==
  /\ ~stop /\ ~sigchild
  /\ Monitor("check", IF Ready THEN "serve" ELSE "poll")
  /\ UNCHANGED <<kernel, status, woken, next, key, workVars, consoleVars, mainVars, pipe>>

\* A line of the output, as it is written to the pipe.
Write(text, n) == pipe' = pipe \o <<Sym(text, n), Feed>>

upload_model ==
  /\ ~Trajectory
  /\ \/ /\ next <= kernel.points
        /\ IF next = 0 THEN Write("aggregate", 0) ELSE Write("state", next)
        /\ Monitor("upload", "upload")
        /\ next' = next + 1
        /\ UNCHANGED <<kernel, status, woken, key, workVars, consoleVars, mainVars>>
     \/ /\ next > kernel.points
        /\ Exit("upload", 0)
        /\ pipe' = pipe \o <<Sym("seal", 0), Feed, Sym("end", 0), Feed>>
        /\ UNCHANGED <<kernel, workVars, consoleVars>>

\* A description is of one character here, or of two.
upload_trajectory ==
  /\ Trajectory
  /\ \/ /\ next < kernel.trajectory
        /\ pipe' = pipe \o <<Sym("event", next + 1)>>
                        \o (IF next % 2 = 0 THEN <<>> ELSE <<Sym("more", next + 1)>>) \o <<Feed>>
        /\ Monitor("upload", "upload")
        /\ next' = next + 1
        /\ UNCHANGED <<kernel, status, woken, key, workVars, consoleVars, mainVars>>
     \/ /\ next >= kernel.trajectory
        /\ Exit("upload", 0)
        /\ UNCHANGED <<kernel, workVars, consoleVars, pipe>>

\* A file of the kernel cannot be opened, or there is no memory for a line.  Who
\* calls does not look; the tag of a line that is left without it is dropped by main.
upload_fails ==
  /\ Exit("upload", 0)
  /\ UNCHANGED <<kernel, workVars, consoleVars, pipe>>

\* child_monitor: poll, a connection that cannot be accepted, a list that cannot be
\* opened, a message that cannot be sent.
monitor_fails == \E at \in {"blocked", "serve", "count", "send"} : Fail(at)

-----------------------------------------------------------------------------
(* The console.                                                            *)

Serve(to) ==
  /\ Monitor("serve", to)
  /\ UNCHANGED <<status, woken, next, key, workVars, mainVars, pipe>>

accept_connection ==
  /\ ~conn
  /\ conn' = TRUE
  /\ Serve("poll")
  /\ UNCHANGED <<kernel, console, cmd, asks, count, lines>>

receive_end ==
  /\ conn /\ console \in {"answered", "failed"}
  /\ conn' = FALSE /\ console' = "none"
  /\ Serve("poll")
  /\ UNCHANGED <<kernel, cmd, asks, count, lines>>

Received == conn /\ console = "asked" /\ console' = "received"

\* The commands that are answered with a list, and the file of the list.
File(command) ==
  CASE command \in {"coefficients", "map"} -> kernel.points
    [] command = "trajectory"              -> kernel.trajectory
    [] command = "forensics"               -> kernel.forensics

process_command ==
  /\ pc = "serve"
  /\ Received
  /\ UNCHANGED <<conn, cmd, asks, kernel>>
  /\ CASE cmd = "state" -> Serve("send") /\ count' = 0 /\ lines' = <<>>
       [] cmd \in {"coefficients", "map", "trajectory", "forensics"} ->
            Serve("count") /\ UNCHANGED <<count, lines>>
       [] OTHER -> FALSE

\* show_events has no case of its own.
illegal_command ==
  /\ cmd = "events"
  /\ Received
  /\ Exit("serve", 1)
  /\ UNCHANGED <<kernel, workVars, conn, cmd, asks, count, lines, pipe>>

seal_domain ==
  /\ cmd = "seal"
  /\ Received
  /\ UNCHANGED <<conn, cmd, asks>>
  /\ \/ /\ Serve("send")
        /\ kernel' = [kernel EXCEPT !.sealed = TRUE]
        /\ count' = 0 /\ lines' = <<>>
     \/ /\ Exit("serve", 1)
        /\ UNCHANGED <<kernel, workVars, count, lines, pipe>>

\* The first pass over a list: its lines are counted.
send_count ==
  /\ Monitor("count", "send")
  /\ count' = File(cmd) /\ lines' = <<>>
  /\ UNCHANGED <<kernel, status, woken, next, key, workVars, mainVars, pipe,
                 conn, console, cmd, asks>>

MoreToSend == Len(lines) < count

\* The second pass: a line is read and sent.
send_line ==
  /\ Monitor("send", "send")
  /\ MoreToSend
  /\ lines' = Append(lines, IF Len(lines) < File(cmd) THEN Len(lines) + 1 ELSE 0)
  /\ UNCHANGED <<kernel, status, woken, next, key, workVars, mainVars, pipe,
                 conn, console, cmd, asks, count>>

sent ==
  /\ Monitor("send", "poll")
  /\ ~MoreToSend
  /\ console' = "answered"
  /\ UNCHANGED <<kernel, status, woken, next, key, workVars, mainVars, pipe,
                 conn, cmd, asks, count, lines>>

Ask ==
  /\ console = "none" /\ asks < MaxAsks
  /\ workload # "none" /\ pc # "exited"
  /\ console' = "asked" /\ asks' = asks + 1
  /\ cmd' \in Commands
  /\ UNCHANGED <<opt, kernel, monitorVars, workVars, mainVars, pipe, conn, count, lines>>

\* The monitor has exited, and the connection with it.
AskFails ==
  /\ pc = "exited"
  /\ console \in {"asked", "received"}
  /\ console' = "failed"
  /\ UNCHANGED <<opt, kernel, monitorVars, workVars, mainVars, pipe, conn, cmd, asks, count, lines>>

-----------------------------------------------------------------------------
(* main.                                                                   *)

Main(from, to) ==
  /\ mpc = from
  /\ mpc' = to
  /\ UNCHANGED <<opt, kernel, monitorVars, consoleVars, daemon, events>>

AfterPid == IF Pause THEN "receive" ELSE "pausing"

\* The pid is read, or the pipe has ended and it is taken to be 0.
read_pid ==
  /\ \/ pipe # <<>> /\ pid' = TRUE /\ pipe' = Tail(pipe)
     \/ pipe = <<>> /\ ~PipeOpen /\ UNCHANGED <<pid, pipe>>
  /\ Main("pid", AfterPid)
  /\ UNCHANGED <<workload, str, out>>

\* One character at a time.
receive_model ==
  /\ ~Trajectory
  /\ pipe # <<>>
  /\ Main("receive", "receive")
  /\ pipe' = Tail(pipe)
  /\ IF Head(pipe) = Feed
       THEN str' = <<>> /\ out' = out \o Append(str, Feed)
       ELSE str' = Append(str, Head(pipe)) /\ UNCHANGED out
  /\ UNCHANGED <<workload, pid>>

\* Two characters at a time, of which the first is looked at and both are
\* added, with what follows them in memory.
receive_trajectory ==
  /\ Trajectory
  /\ pipe # <<>>
  /\ Main("receive", "receive")
  /\ \E n \in 1..2 : \E garbage \in {<<>>, <<Sym("garbage", 0)>>} :
       /\ n <= Len(pipe)
       /\ pipe' = SubSeq(pipe, n + 1, Len(pipe))
       /\ IF Head(pipe) = Feed
            THEN str' = <<>> /\ out' = out \o Append(str, Feed)
            ELSE str' = str \o SubSeq(pipe, 1, n) \o garbage /\ UNCHANGED out
  /\ UNCHANGED <<workload, pid>>

receive_ends ==
  /\ pipe = <<>> /\ ~PipeOpen
  /\ Main("receive", "exit0")
  /\ UNCHANGED <<workload, pid, str, out, pipe>>

\* The file cannot be opened or written, or the pipe not be read: main ends, and
\* waits for nothing and kills nothing.
receive_fails ==
  /\ Main("receive", "failed")
  /\ UNCHANGED <<workload, pid, str, out, pipe>>

pause ==
  /\ Main("pausing", "paused")
  /\ UNCHANGED <<workload, pid, str, out, pipe>>

ErrorNoticed == status > 0

\* After a signal.  Without its pid a process is killed with all of the group.
check_monitor ==
  /\ UNCHANGED <<pid, str, out, pipe>>
  /\ \/ pc # "exited" /\ Main("check", "pausing") /\ UNCHANGED workload
     \/ pc = "exited" /\ ~ErrorNoticed /\ Main("check", "exit1") /\ UNCHANGED workload
     \/ /\ pc = "exited" /\ ErrorNoticed
        /\ IF Mode = "process" /\ ~pid
             THEN Main("check", "killed") /\ UNCHANGED workload
             ELSE Main("check", "exit1") /\ kill_cartridge

-----------------------------------------------------------------------------
MonitorNext ==
  \/ setup_namespace \/ load \/ load_model \/ fire_cartridge
  \/ poll \/ poll_returns \/ check_stop \/ check_sigchild \/ check_poll
  \/ upload_model \/ upload_trajectory
  \/ accept_connection \/ receive_end \/ process_command \/ illegal_command \/ seal_domain
  \/ send_count \/ send_line \/ sent

MainNext ==
  \/ read_pid \/ receive_model \/ receive_trajectory \/ receive_ends
  \/ pause \/ check_monitor

Next ==
  \/ MonitorNext \/ MainNext
  \/ Event \/ WorkloadEnds \/ DaemonEnds \/ WorkloadStops \/ WorkloadContinues \/ Interrupt
  \/ Ask \/ AskFails
  \/ monitor_fails \/ upload_fails \/ receive_fails

\* The processes run, and what has been killed ends.  What fails need not fail.
Fairness ==
  /\ WF_vars(MonitorNext) /\ WF_vars(MainNext) /\ WF_vars(AskFails)
  /\ WF_vars(workload = "dying" /\ WorkloadEnds)

Spec == Init /\ [][Next]_vars /\ Fairness
-----------------------------------------------------------------------------
(* Properties.                                                             *)

LinesOf(text) == {i \in DOMAIN opt.file : opt.file[i] = text}

\* load_model: a workload never runs under a part of its model, whichever line
\* cannot be loaded and whatever the kernel refuses.
WholeModelIsLoaded ==
  workload # "none" =>
    /\ kernel.points >= Cardinality(LinesOf("state"))
    /\ LinesOf("seal") # {} => kernel.sealed

\* send_coefficients, send_trajectory, send_forensics, send_map: the kernel goes
\* on modelling between the two passes over a list, and yet as many lines are
\* sent as were announced, each of them a line of the list, in order.
AnswersAreSnapshots ==
  /\ lines = [i \in 1..Len(lines) |-> i] /\ Len(lines) <= count
  /\ console = "answered" => Len(lines) = count

\* The model file of a kernel model with n points: each line and its end.
ModelLine(n, i) ==
  CASE i = 0     -> Sym("aggregate", 0)
    [] i \in 1..n -> Sym("state", i)
    [] i = n + 1 -> Sym("seal", 0)
    [] i = n + 2 -> Sym("end", 0)

ModelOf(n) == [i \in 1..(2 * n + 6) |-> IF i % 2 = 0 THEN Feed ELSE ModelLine(n, i \div 2)]

\* upload_model and receive_model: the file that main has written when it exits
\* is a whole model, and it has every point of a workload that left nothing
\* behind: the monitor is not misled by the other reasons for a SIGCHLD.  When
\* the upload fails, or has not begun, it is the first lines of one, without its
\* end, and never half a line.
OutputIsWhole ==
  (mpc = "exit0" /\ opt.output = "model") =>
    \/ \E n \in 0..kernel.points : /\ out = ModelOf(n)
                                   /\ daemon = "none" => n = kernel.points
    \/ \E k \in 0..(kernel.points + 1) : out = SubSeq(ModelOf(kernel.points), 1, 2 * k)

Exited == mpc \in {"exit0", "exit1", "killed"}

\* main waits for the end of the pipe, which the workload has inherited, or kills
\* it when the monitor fails: whatever goes wrong in the monitor, it does not exit
\* and leave a workload without an orchestrator.  (runc can fail to kill a
\* cartridge, and nothing kills a command line.  A main that fails at its own
\* file does leave it: "failed" is not among the ends this is about.)
LeavesNoWorkload ==
  (Exited /\ (Pause \/ Mode = "process")) => workload \notin {"running", "stopped"}

\* "Wait for a security event map to be generated." (main): with an output file
\* the orchestrator outlives the workload, whatever fails.
WaitsForTheMap ==
  (Pause /\ (Exited \/ mpc = "failed")) => workload \notin {"running", "stopped"}

\* child_monitor: a console is answered, or the orchestrator exits.
AskedIsAnswered == console \in {"asked", "received"} ~> console \in {"answered", "failed"}

\* "If the -t command-line option is also specified, the security execution
\* trajectory ... is written to the output file" (tsem.rst), of a workload that
\* has ended by itself and has left nothing behind.
TrajectoryIsOutput ==
  (mpc = "exit0" /\ Trajectory /\ ~stop /\ status = 0) =>
    Len(SelectSeq(out, LAMBDA s : s.text = "event")) = kernel.trajectory

\* "a security model description be output when the modeled workload terminates"
\* (tsem.rst): when main says that it has written the file, there is a model in it.
ModelIsOutput == (mpc = "exit0" /\ opt.output = "model") => out # <<>>

\* "-E: Security event denials." (README): the orchestrator does not end at the
\* command of a console that asks for them.
DenialsDoNoHarm ==
  [][cmd = "events" /\ console = "asked" /\ console' = "received" => pc' # "exited"]_vars

\* "Orchestrator error %d, terminating workload" (main).
ErrorTerminatesWorkload == (pc = "exited" /\ status = 1) ~> workload \notin {"running", "stopped"}

\* "Cartridge terminated." (child_monitor, of a stop).
StopTerminatesWorkload == (pc = "exited" /\ status = 0) => workload \notin {"running", "stopped"}
=============================================================================
