----------------------------- MODULE QuixoteProofs -----------------------------
(***************************************************************************)
(* Theorems about the orchestrator of module Quixote, for any model files, *)
(* any number of events and of commands, every mode and every output, and  *)
(* about the consoles and the orchestrator of module ConsoleLink, together *)
(* with it in MCOrchestrators, for any number of consoles and of points.   *)
(***************************************************************************)
EXTENDS MCOrchestrators, SequenceTheorems, FiniteSetTheorems, TLAPS

-----------------------------------------------------------------------------
(* The phases of the monitor and of main.                                  *)

Kernels == [points : Nat, trajectory : Nat, forensics : Nat, sealed : BOOLEAN]

\* What is done to the kernel's model takes nothing away.
Updated(k, l) ==
  \/ l = [k EXCEPT !.points = @ + 1]
  \/ l = [k EXCEPT !.points = @ + 1, !.trajectory = @ + 1]
  \/ l = [k EXCEPT !.forensics = @ + 1]
  \/ l = [k EXCEPT !.sealed = TRUE]
  \/ l = k

Grown(k, l) ==
  /\ l \in Kernels
  /\ l.points >= k.points /\ l.trajectory >= k.trajectory /\ l.forensics >= k.forensics
  /\ k.sealed => l.sealed

LEMMA KernelFields ==
  ASSUME NEW k \in Kernels
  PROVE  k.points \in Nat /\ k.trajectory \in Nat /\ k.forensics \in Nat /\ k.sealed \in BOOLEAN
BY DEF Kernels

LEMMA KernelGrows ==
  ASSUME NEW k \in Kernels, NEW l, Updated(k, l)
  PROVE  Grown(k, l)
<1>0. k.points \in Nat /\ k.trajectory \in Nat /\ k.forensics \in Nat
  BY KernelFields
<1>1. ASSUME l \in Kernels,
             l.points \in {k.points, k.points + 1}, l.trajectory \in {k.trajectory, k.trajectory + 1},
             l.forensics \in {k.forensics, k.forensics + 1}, k.sealed => l.sealed
      PROVE  Grown(k, l)
  BY <1>0, <1>1 DEF Grown
<1>2. CASE l = [k EXCEPT !.points = @ + 1]
  <2>1. /\ l \in Kernels /\ l.points = k.points + 1 /\ l.sealed = k.sealed
        /\ l.trajectory = k.trajectory /\ l.forensics = k.forensics
    BY <1>2 DEF Kernels
  <2>2. QED
    BY <1>1, <2>1
<1>3. CASE l = [k EXCEPT !.points = @ + 1, !.trajectory = @ + 1]
  <2> DEFINE m == [k EXCEPT !.points = @ + 1]
  <2>1. m \in Kernels /\ m.trajectory = k.trajectory
    BY DEF Kernels
  <2>2. l = [m EXCEPT !.trajectory = @ + 1]
    BY <1>3 DEF Kernels
  <2>3. l \in Kernels
    <3> HIDE DEF m
    <3>1. QED
      BY <2>1, <2>2 DEF Kernels
  <2>4. /\ l.points = k.points + 1 /\ l.sealed = k.sealed
        /\ l.trajectory = k.trajectory + 1 /\ l.forensics = k.forensics
    BY <1>3 DEF Kernels
  <2>5. QED
    BY <1>1, <2>3, <2>4
<1>4. CASE l = [k EXCEPT !.forensics = @ + 1]
  <2>1. /\ l \in Kernels /\ l.points = k.points /\ l.sealed = k.sealed
        /\ l.trajectory = k.trajectory /\ l.forensics = k.forensics + 1
    BY <1>4 DEF Kernels
  <2>2. QED
    BY <1>1, <2>1
<1>5. CASE l = [k EXCEPT !.sealed = TRUE]
  <2>1. /\ l \in Kernels /\ l.points = k.points /\ l.sealed
        /\ l.trajectory = k.trajectory /\ l.forensics = k.forensics
    BY <1>5 DEF Kernels
  <2>2. QED
    BY <1>1, <2>1
<1>6. CASE l = k
  BY <1>1, <1>6
<1>7. QED
  BY <1>2, <1>3, <1>4, <1>5, <1>6 DEF Updated

Choices == [mode : Modes, output : Outputs, file : Files]

Types ==
  /\ opt \in Choices
  /\ kernel \in Kernels
  /\ status \in 0..1 /\ pid \in BOOLEAN

LEMMA TypesStep == Types /\ [Next]_vars => Types'
<1> SUFFICES ASSUME Types, [Next]_vars PROVE Types'
  OBVIOUS
<1> USE DEF Types
<1>1. CASE MonitorNext
  <2>1. CASE setup_namespace \/ load_model \/ fire_cartridge \/ poll \/ poll_returns \/ check_stop
             \/ check_sigchild \/ check_poll \/ upload_model \/ upload_trajectory
    BY <2>1 DEF setup_namespace, load_model, fire_cartridge, poll, poll_returns, check_stop,
       check_sigchild, check_poll, upload_model, upload_trajectory, Monitor, Fail, Exit, Terminate,
       kill_cartridge,
       consoleVars, mainVars
  <2>2. CASE load
    <3>1. /\ Updated(kernel, kernel')
          /\ UNCHANGED <<opt, pid>> /\ status' \in {status, 1}
      BY <2>2 DEF load, Monitor, Fail, Exit, mainVars, Updated
    <3>2. kernel' \in Kernels
      BY <3>1, KernelGrows DEF Grown
    <3>3. QED
      BY <3>1, <3>2
  <2>3. CASE seal_domain
    <3>1. /\ Updated(kernel, kernel')
          /\ UNCHANGED <<opt, pid>> /\ status' \in {status, 1}
      BY <2>3 DEF seal_domain, Received, Serve, Monitor, Exit, mainVars, Updated
    <3>2. kernel' \in Kernels
      BY <3>1, KernelGrows DEF Grown
    <3>3. QED
      BY <3>1, <3>2
  <2>4. CASE accept_connection \/ receive_end \/ process_command \/ illegal_command
             \/ send_count \/ send_line \/ sent
    BY <2>4 DEF accept_connection, receive_end, process_command, illegal_command, send_count, send_line, sent,
       Received, Serve, Monitor, Exit, mainVars
  <2>5. QED
    BY <1>1, <2>1, <2>2, <2>3, <2>4 DEF MonitorNext
<1>2. CASE MainNext
  BY <1>2 DEF MainNext, read_pid, receive_model, receive_trajectory, receive_ends, pause, check_monitor, Main,
     monitorVars, consoleVars
<1>3. CASE Event
  <2>1. UNCHANGED <<opt, status, pid>>
    BY <1>3 DEF Event, Quiet, monitorVars, mainVars
  <2>2. Updated(kernel, kernel')
    BY <1>3 DEF Event, Updated
  <2>3. QED
    BY <2>1, <2>2, KernelGrows DEF Grown
<1>4. CASE WorkloadEnds \/ DaemonEnds \/ WorkloadStops \/ WorkloadContinues \/ Interrupt \/ Ask \/ AskFails
  BY <1>4 DEF WorkloadEnds, DaemonEnds, WorkloadStops, WorkloadContinues, Interrupt, Ask, AskFails, SigChild,
     Quiet, monitorVars, consoleVars, mainVars
<1>5. CASE UNCHANGED vars
  BY <1>5 DEF vars, monitorVars, consoleVars, mainVars
<1>6. CASE monitor_fails \/ upload_fails \/ receive_fails
  BY <1>6 DEF monitor_fails, upload_fails, receive_fails, Fail, Exit, Monitor, Main, monitorVars
<1>7. QED
  BY <1>1, <1>2, <1>3, <1>4, <1>5, <1>6 DEF Next

\* Before the workload is forked main waits for its pid; without a pid main has
\* gone on because there is nobody left who writes; a main that has got to the
\* end of the output, or of its waiting, has no workload that runs.
PhaseInv ==
  /\ pc \in {"setup", "load", "fork"} => /\ workload = "none" /\ daemon = "none"
                                         /\ mpc = "pid" /\ ~pid /\ pipe = <<>>
  /\ (mpc # "pid" /\ ~pid) => pc = "exited" /\ ~Alive
  /\ Pause => mpc \in {"pid", "receive", "exit0", "failed"}
  /\ mpc = "exit0" => pc = "exited" /\ ~Alive /\ pipe = <<>>
  /\ mpc \in {"exit1", "killed"} =>
       pc = "exited" /\ (Mode = "process" => workload \notin {"running", "stopped"})
  /\ (pc = "exited" /\ status = 0 /\ Mode = "process") => workload \notin {"running", "stopped"}
  /\ pc = "upload" => workload = "ended"

LEMMA PhaseStep ==
  ASSUME Types, PhaseInv, [Next]_vars PROVE PhaseInv'
<1> USE DEF Types, PhaseInv, Pause, Mode, Alive
<1>1. CASE MonitorNext
  <2>1. CASE setup_namespace \/ load_model \/ load
    <3>1. pc \in {"setup", "load"} /\ UNCHANGED <<opt, workload, daemon, pid, pipe>>
      BY <2>1 DEF setup_namespace, load_model, load, Monitor, Fail, Exit, workVars, mainVars
    <3>2. \/ pc' \in {"load", "fork"} /\ UNCHANGED mpc
          \/ pc' = "exited" /\ status' = 1 /\ mpc' = IF mpc = "paused" THEN "check" ELSE mpc
      BY <2>1 DEF setup_namespace, load_model, load, Monitor, Fail, Exit, mainVars
    <3>3. QED
      BY <3>1, <3>2
  <2>2. CASE fire_cartridge
    BY <2>2 DEF fire_cartridge, Monitor, Fail, Exit, workVars, consoleVars, mainVars
  <2>3. CASE check_stop
    BY <2>3 DEF check_stop, Monitor, Exit, Terminate, kill_cartridge, consoleVars
  <2>4. CASE check_sigchild
    <3>1. pc = "check" /\ UNCHANGED <<opt, workload, daemon, pid, pipe>>
      BY <2>4 DEF check_sigchild, Monitor, Exit, workVars, mainVars
    <3>2. \/ pc' = "poll" /\ UNCHANGED <<mpc, status>>
          \/ pc' = "upload" /\ workload = "ended" /\ UNCHANGED <<mpc, status>>
          \/ /\ pc' = "exited" /\ workload = "ended" /\ ~Pause
             /\ mpc' = IF mpc = "paused" THEN "check" ELSE mpc
      BY <2>4 DEF check_sigchild, child_exited, Monitor, Exit, mainVars
    <3>3. QED
      BY <3>1, <3>2
  <2>5. CASE poll \/ poll_returns \/ check_poll
    BY <2>5 DEF poll, poll_returns, check_poll, Monitor, workVars, consoleVars, mainVars
  <2>6. CASE upload_model
    BY <2>6 DEF upload_model, Write, Monitor, Exit, workVars, consoleVars, mainVars
  <2>7. CASE upload_trajectory
    BY <2>7 DEF upload_trajectory, Monitor, Exit, workVars, consoleVars, mainVars
  <2>8. CASE illegal_command \/ seal_domain
    BY <2>8 DEF illegal_command, seal_domain, Received, Serve, Monitor, Exit, workVars, mainVars
  <2>9. CASE accept_connection \/ receive_end \/ process_command \/ send_count \/ send_line \/ sent
    BY <2>9 DEF accept_connection, receive_end, process_command, send_count, send_line, sent,
       Received, Serve, Monitor, workVars, mainVars
  <2>10. QED
    BY <1>1, <2>1, <2>2, <2>3, <2>4, <2>5, <2>6, <2>7, <2>8, <2>9 DEF MonitorNext
<1>2. CASE MainNext
  <2>1. CASE read_pid
    BY <2>1 DEF read_pid, Main, AfterPid, PipeOpen, monitorVars
  <2>2. CASE receive_model
    BY <2>2 DEF receive_model, Main, monitorVars
  <2>3. CASE receive_trajectory
    BY <2>3 DEF receive_trajectory, Main, monitorVars
  <2>4. CASE receive_ends
    BY <2>4 DEF receive_ends, Main, PipeOpen, monitorVars
  <2>5. CASE pause
    BY <2>5 DEF pause, Main, monitorVars
  <2>6. CASE check_monitor
    BY <2>6 DEF check_monitor, Main, ErrorNoticed, kill_cartridge, monitorVars
  <2>7. QED
    BY <1>2, <2>1, <2>2, <2>3, <2>4, <2>5, <2>6 DEF MainNext
<1>3. CASE Event \/ DaemonEnds
  BY <1>3 DEF Event, DaemonEnds, Quiet, monitorVars, mainVars
<1>4. CASE WorkloadEnds \/ WorkloadStops \/ WorkloadContinues
  BY <1>4 DEF WorkloadEnds, WorkloadStops, WorkloadContinues, SigChild, mainVars
<1>5. CASE Interrupt
  BY <1>5 DEF Interrupt, workVars
<1>6. CASE Ask \/ AskFails
  BY <1>6 DEF Ask, AskFails, monitorVars, workVars, mainVars
<1>7. CASE UNCHANGED vars
  BY <1>7 DEF vars, monitorVars, workVars, mainVars
<1>8. CASE monitor_fails
  BY <1>8 DEF monitor_fails, Fail, Exit, Monitor, workVars
<1>9. CASE upload_fails
  BY <1>9 DEF upload_fails, Exit, Monitor, workVars
<1>10. CASE receive_fails
  BY <1>10 DEF receive_fails, Main, monitorVars
<1>11. QED
  BY <1>1, <1>2, <1>3, <1>4, <1>5, <1>6, <1>7, <1>8, <1>9, <1>10 DEF Next

LEMMA InitPhases == Init => Types /\ PhaseInv
<1> SUFFICES ASSUME Init PROVE Types /\ PhaseInv
  OBVIOUS
<1>1. Types
  <2>1. kernel = [points |-> 0, trajectory |-> 0, forensics |-> 0, sealed |-> FALSE]
    BY DEF Init
  <2>2. kernel \in Kernels
    BY <2>1 DEF Kernels
  <2>3. opt \in Choices /\ status \in 0..1
    BY DEF Init, Choices
  <2>4. pid \in BOOLEAN
    BY DEF Init
  <2>5. QED
    BY <2>2, <2>3, <2>4 DEF Types
<1>2. PhaseInv
  BY DEF Init, PhaseInv, Alive
<1>3. QED
  BY <1>1, <1>2

-----------------------------------------------------------------------------
(* The model that is loaded.                                               *)

LinesLoaded(text) == {i \in LinesOf(text) : i < next}

WholeLoaded ==
  /\ kernel.points >= Cardinality(LinesOf("state"))
  /\ LinesOf("seal") # {} => kernel.sealed

\* Each line that has been loaded has its effect, and what is loaded stays.
LoadInv ==
  /\ pc \in {"setup", "load"} =>
       /\ next \in Nat \ {0}
       /\ kernel.points >= Cardinality(LinesLoaded("state"))
       /\ LinesLoaded("seal") # {} => kernel.sealed
  /\ (pc = "fork" \/ workload # "none") => WholeLoaded

LEMMA FileLines ==
  ASSUME Types
  PROVE  /\ DOMAIN opt.file = 1..Len(opt.file) /\ Len(opt.file) \in Nat
         /\ \A text : IsFiniteSet(LinesOf(text)) /\ LinesOf(text) \subseteq 1..Len(opt.file)
<1>1. opt.file \in Files
  BY DEF Types, Choices
<1>2. PICK L : opt.file \in Seq(L)
  BY <1>1, QuixoteAssumption
<1>3. DOMAIN opt.file = 1..Len(opt.file) /\ Len(opt.file) \in Nat
  BY <1>2, LenProperties
<1>4. ASSUME NEW text PROVE IsFiniteSet(LinesOf(text)) /\ LinesOf(text) \subseteq 1..Len(opt.file)
  <2>1. LinesOf(text) \subseteq 1..Len(opt.file)
    BY <1>3 DEF LinesOf
  <2>2. IsFiniteSet(1..Len(opt.file))
    BY <1>3, FS_Interval
  <2>3. QED
    BY <2>1, <2>2, FS_Subset
<1>5. QED
  BY <1>3, <1>4

\* The steps that load nothing and let nothing begin.
LEMMA NothingLoaded ==
  ASSUME Types, LoadInv, UNCHANGED opt, Grown(kernel, kernel'),
         pc' \in {"setup", "load"} => pc \in {"setup", "load"} /\ UNCHANGED next,
         (pc' = "fork" \/ workload' # "none") => (pc = "fork" \/ workload # "none")
  PROVE  LoadInv'
<1>1. \A text : Cardinality(LinesOf(text)) \in Nat /\ Cardinality(LinesLoaded(text)) \in Nat
  <2> TAKE text
  <2>1. IsFiniteSet(LinesOf(text))
    BY FileLines
  <2>2. IsFiniteSet(LinesLoaded(text))
    BY <2>1, FS_Subset DEF LinesLoaded
  <2>3. QED
    BY <2>1, <2>2, FS_CardinalityType
<1>2. /\ kernel.points \in Nat /\ kernel'.points \in Nat /\ kernel'.points >= kernel.points
      /\ kernel.sealed => kernel'.sealed
  BY KernelFields DEF Types, Grown
<1>3. \A text : LinesOf(text)' = LinesOf(text)
  BY DEF LinesOf
<1>4. ASSUME pc' \in {"setup", "load"}
      PROVE  /\ next' \in Nat \ {0}
             /\ kernel'.points >= Cardinality(LinesLoaded("state")')
             /\ LinesLoaded("seal")' # {} => kernel'.sealed
  <2>1. /\ next' = next /\ next \in Nat \ {0}
        /\ kernel.points >= Cardinality(LinesLoaded("state"))
        /\ LinesLoaded("seal") # {} => kernel.sealed
    BY <1>4 DEF LoadInv
  <2>2. \A text : LinesLoaded(text)' = LinesLoaded(text)
    BY <1>3, <2>1 DEF LinesLoaded
  <2>3. QED
    BY <1>1, <1>2, <2>1, <2>2
<1>5. ASSUME pc' = "fork" \/ workload' # "none"
      PROVE  /\ kernel'.points >= Cardinality(LinesOf("state")')
             /\ LinesOf("seal")' # {} => kernel'.sealed
  BY <1>1, <1>2, <1>3, <1>5 DEF LoadInv, WholeLoaded
<1>6. QED
  BY <1>4, <1>5 DEF LoadInv, WholeLoaded

\* A line is loaded.
LEMMA LineLoaded ==
  ASSUME Types, LoadInv, load, pc' = "load" PROVE LoadInv'
<1>1. /\ pc = "load" /\ next <= Len(opt.file) /\ next' = next + 1
      /\ UNCHANGED <<opt, workload>>
      /\ kernel' = CASE opt.file[next] = "state" -> [kernel EXCEPT !.points = @ + 1]
                      [] opt.file[next] = "seal"  -> [kernel EXCEPT !.sealed = TRUE]
                      [] OTHER                    -> kernel
  BY DEF load, Monitor, Fail, Exit, workVars
<1>2. /\ next \in Nat \ {0} /\ kernel.points \in Nat
      /\ kernel.points >= Cardinality(LinesLoaded("state"))
      /\ LinesLoaded("seal") # {} => kernel.sealed
  BY <1>1, KernelFields DEF LoadInv, Types
<1>3. \A text : LinesOf(text)' = LinesOf(text)
  BY <1>1 DEF LinesOf
<1>4. next \in DOMAIN opt.file
  BY <1>1, <1>2, FileLines
<1>5. \A text : LinesLoaded(text)' = IF opt.file[next] = text THEN LinesLoaded(text) \cup {next}
                                                             ELSE LinesLoaded(text)
  <2> TAKE text
  <2>1. \A i \in LinesOf(text) : i \in Nat
    BY FileLines
  <2>2. \A i \in LinesOf(text) : i < next + 1 <=> i < next \/ i = next
    BY <1>2, <2>1
  <2>3. next \in LinesOf(text) <=> opt.file[next] = text
    BY <1>4 DEF LinesOf
  <2>4. LinesLoaded(text)' = {i \in LinesOf(text) : i < next + 1}
    BY <1>1, <1>3 DEF LinesLoaded
  <2>5. QED
    BY <1>2, <2>2, <2>3, <2>4 DEF LinesLoaded
<1>6. IsFiniteSet(LinesLoaded("state")) /\ next \notin LinesLoaded("state")
      /\ Cardinality(LinesLoaded("state")) \in Nat
  <2>1. IsFiniteSet(LinesLoaded("state"))
    BY FileLines, FS_Subset DEF LinesLoaded
  <2>2. next \notin LinesLoaded("state")
    BY <1>2 DEF LinesLoaded
  <2>3. QED
    BY <2>1, <2>2, FS_CardinalityType
<1>7. Grown(kernel, kernel') /\ kernel'.points \in Nat
  <2>1. Updated(kernel, kernel')
    BY <1>1 DEF Updated
  <2>2. QED
    BY <2>1, KernelGrows, KernelFields DEF Types, Grown
<1>8. kernel'.points >= Cardinality(LinesLoaded("state")')
  <2>1. CASE opt.file[next] = "state"
    <3>1. kernel'.points = kernel.points + 1
      BY <1>1, <2>1 DEF Types, Kernels
    <3>2. Cardinality(LinesLoaded("state")') = Cardinality(LinesLoaded("state")) + 1
      BY <1>5, <1>6, <2>1, FS_AddElement
    <3>3. QED
      BY <1>2, <1>6, <3>1, <3>2
  <2>2. CASE opt.file[next] # "state"
    <3>1. LinesLoaded("state")' = LinesLoaded("state")
      BY <1>5, <2>2
    <3>2. QED
      BY <1>2, <1>6, <1>7, <3>1 DEF Grown
  <2>3. QED
    BY <2>1, <2>2
<1>9. LinesLoaded("seal")' # {} => kernel'.sealed
  <2>1. CASE opt.file[next] = "seal"
    BY <1>1, <2>1 DEF Types, Kernels
  <2>2. CASE opt.file[next] # "seal"
    BY <1>2, <1>5, <1>7, <2>2 DEF Grown
  <2>3. QED
    BY <2>1, <2>2
<1>10. workload' # "none" => WholeLoaded'
  <2>1. /\ workload # "none" => WholeLoaded
        /\ kernel'.points >= kernel.points /\ kernel.sealed => kernel'.sealed
    BY <1>7 DEF LoadInv, Grown
  <2>2. Cardinality(LinesOf("state")) \in Nat
    BY FileLines, FS_CardinalityType
  <2>3. QED
    BY <1>1, <1>2, <1>3, <1>7, <2>1, <2>2 DEF WholeLoaded, Grown
<1>11. QED
  BY <1>1, <1>2, <1>8, <1>9, <1>10 DEF LoadInv

\* The steps that let the kernel's model be, or add to it.
LEMMA KernelStep == Types /\ [Next]_vars => Grown(kernel, kernel') /\ UNCHANGED opt
<1> SUFFICES ASSUME Types, [Next]_vars PROVE Grown(kernel, kernel') /\ UNCHANGED opt
  OBVIOUS
<1>0. UNCHANGED kernel => Grown(kernel, kernel')
  BY KernelGrows DEF Types, Updated
<1>1. CASE MonitorNext
  <2>1. CASE load \/ seal_domain
    <3>1. Updated(kernel, kernel') /\ UNCHANGED opt
      BY <2>1 DEF load, Monitor, Fail, Exit, seal_domain, Serve, Updated
    <3>2. QED
      BY <3>1, KernelGrows DEF Types
  <2>2. CASE setup_namespace \/ load_model \/ fire_cartridge \/ poll \/ poll_returns \/ check_stop
             \/ check_sigchild \/ check_poll \/ upload_model \/ upload_trajectory
    BY <1>0, <2>2 DEF setup_namespace, load_model, fire_cartridge, poll, poll_returns, check_stop,
       check_sigchild, check_poll, upload_model, upload_trajectory, Monitor, Fail, Exit
  <2>3. CASE accept_connection \/ receive_end \/ process_command \/ illegal_command
             \/ send_count \/ send_line \/ sent
    BY <1>0, <2>3 DEF accept_connection, receive_end, process_command, illegal_command, send_count,
       send_line, sent, Serve, Monitor, Exit
  <2>4. QED
    BY <1>1, <2>1, <2>2, <2>3 DEF MonitorNext
<1>2. CASE MainNext
  BY <1>0, <1>2 DEF MainNext, read_pid, receive_model, receive_trajectory, receive_ends, pause, check_monitor,
     Main
<1>3. CASE Event
  <2>1. Updated(kernel, kernel') /\ UNCHANGED opt
    BY <1>3 DEF Event, Quiet, Updated
  <2>2. QED
    BY <2>1, KernelGrows DEF Types
<1>4. CASE WorkloadEnds \/ DaemonEnds \/ WorkloadStops \/ WorkloadContinues \/ Interrupt \/ Ask \/ AskFails
  BY <1>0, <1>4 DEF WorkloadEnds, DaemonEnds, WorkloadStops, WorkloadContinues, Interrupt, Ask, AskFails,
     SigChild, Quiet
<1>5. CASE UNCHANGED vars
  BY <1>0, <1>5 DEF vars
<1>6. CASE monitor_fails \/ upload_fails \/ receive_fails
  BY <1>0, <1>6 DEF monitor_fails, upload_fails, receive_fails, Fail, Exit, Monitor, Main
<1>7. QED
  BY <1>1, <1>2, <1>3, <1>4, <1>5, <1>6 DEF Next

LEMMA LoadStep ==
  ASSUME Types, PhaseInv, LoadInv, [Next]_vars PROVE LoadInv'
<1>0. Grown(kernel, kernel') /\ UNCHANGED opt
  BY KernelStep
<1>1. CASE load /\ pc' = "load"
  BY <1>1, LineLoaded
<1>2. CASE load_model
  <2>1. /\ pc = "load" /\ next > Len(opt.file) /\ pc' = "fork" /\ UNCHANGED <<opt, kernel, workload>>
    BY <1>2 DEF load_model, Loaded, Monitor, workVars
  <2>2. next \in Nat /\ Len(opt.file) \in Nat
    BY <2>1, FileLines DEF LoadInv
  <2>3. \A text : \A i \in LinesOf(text) : i \in Nat /\ i < next
    BY <2>1, <2>2, FileLines
  <2>4. \A text : LinesLoaded(text) = LinesOf(text)
    BY <2>3 DEF LinesLoaded
  <2>5. WholeLoaded
    BY <2>1, <2>4 DEF LoadInv, WholeLoaded
  <2>6. WholeLoaded'
    BY <2>1, <2>5 DEF WholeLoaded, LinesOf
  <2>7. QED
    BY <2>1, <2>6 DEF LoadInv
<1>3. CASE /\ ~(load /\ pc' = "load") /\ ~load_model
  <2>1. pc' \in {"setup", "load"} => pc \in {"setup", "load"} /\ UNCHANGED next
    <3>1. CASE MonitorNext
      <4>1. CASE setup_namespace \/ load
        BY <1>3, <4>1 DEF setup_namespace, load, Monitor, Fail, Exit
      <4>2. CASE fire_cartridge \/ poll \/ poll_returns \/ check_stop \/ check_sigchild \/ check_poll
                 \/ upload_model \/ upload_trajectory
        BY <4>2 DEF fire_cartridge, poll, poll_returns, check_stop, check_sigchild, check_poll,
           upload_model, upload_trajectory, Monitor, Fail, Exit
      <4>3. CASE accept_connection \/ receive_end \/ process_command \/ illegal_command \/ seal_domain
                 \/ send_count \/ send_line \/ sent
        BY <4>3 DEF accept_connection, receive_end, process_command, illegal_command, seal_domain,
           send_count, send_line, sent, Serve, Monitor, Exit
      <4>4. QED
        BY <1>3, <3>1, <4>1, <4>2, <4>3 DEF MonitorNext
    <3>2. CASE MainNext
      BY <3>2 DEF MainNext, read_pid, receive_model, receive_trajectory, receive_ends, pause, check_monitor,
         Main, monitorVars
    <3>3. CASE Event \/ WorkloadEnds \/ DaemonEnds \/ WorkloadStops \/ WorkloadContinues
               \/ Interrupt \/ Ask \/ AskFails
      BY <3>3 DEF Event, WorkloadEnds, DaemonEnds, WorkloadStops, WorkloadContinues, Interrupt, Ask, AskFails,
         SigChild, Quiet, monitorVars
    <3>4. CASE UNCHANGED vars
      BY <3>4 DEF vars, monitorVars
    <3>5. CASE monitor_fails \/ upload_fails \/ receive_fails
      BY <3>5 DEF monitor_fails, upload_fails, receive_fails, Fail, Exit, Monitor, Main, monitorVars
    <3>6. QED
      BY <3>1, <3>2, <3>3, <3>4, <3>5 DEF Next
  <2>2. (pc' = "fork" \/ workload' # "none") => (pc = "fork" \/ workload # "none")
    <3>1. CASE MonitorNext
      <4>1. CASE setup_namespace \/ load \/ fire_cartridge
        BY <1>3, <4>1 DEF setup_namespace, load, fire_cartridge, Monitor, Fail, Exit, workVars
      <4>2. CASE poll \/ poll_returns \/ check_stop \/ check_sigchild \/ check_poll
                 \/ upload_model \/ upload_trajectory
        BY <4>2 DEF poll, poll_returns, check_stop, check_sigchild, check_poll, Terminate, kill_cartridge,
           Alive, upload_model, upload_trajectory, Monitor, Exit, workVars
      <4>3. CASE accept_connection \/ receive_end \/ process_command \/ illegal_command \/ seal_domain
                 \/ send_count \/ send_line \/ sent
        BY <4>3 DEF accept_connection, receive_end, process_command, illegal_command, seal_domain,
           send_count, send_line, sent, Serve, Monitor, Exit, workVars
      <4>4. QED
        BY <1>3, <3>1, <4>1, <4>2, <4>3 DEF MonitorNext
    <3>2. CASE MainNext
      BY <3>2 DEF MainNext, read_pid, receive_model, receive_trajectory, receive_ends, pause, check_monitor,
         Main, monitorVars, kill_cartridge, Alive
    <3>3. CASE Event \/ WorkloadEnds \/ DaemonEnds \/ WorkloadStops \/ WorkloadContinues
               \/ Interrupt \/ Ask \/ AskFails
      BY <3>3 DEF Event, WorkloadEnds, DaemonEnds, WorkloadStops, WorkloadContinues, Interrupt, Ask, AskFails,
         SigChild, Quiet, monitorVars, workVars
    <3>4. CASE UNCHANGED vars
      BY <3>4 DEF vars, monitorVars, workVars
    <3>5. CASE monitor_fails \/ upload_fails \/ receive_fails
      BY <3>5 DEF monitor_fails, upload_fails, receive_fails, Fail, Exit, Monitor, Main, monitorVars,
         workVars
    <3>6. QED
      BY <3>1, <3>2, <3>3, <3>4, <3>5 DEF Next
  <2>3. QED
    BY <1>0, <2>1, <2>2, NothingLoaded
<1>4. QED
  BY <1>1, <1>2, <1>3

LEMMA InitLoad == Init => LoadInv
<1> SUFFICES ASSUME Init PROVE LoadInv
  OBVIOUS
<1>1. Types
  BY InitPhases
<1>2. \A text : \A i \in LinesOf(text) : i \in Nat /\ i >= 1
  BY <1>1, FileLines
<1>3. \A text : LinesLoaded(text) = {}
  BY <1>2 DEF Init, LinesLoaded
<1>4. Cardinality({}) = 0
  BY FS_EmptySet
<1>5. pc = "setup" /\ workload = "none" /\ next = 1 /\ kernel.points = 0
  BY DEF Init
<1>6. QED
  BY <1>3, <1>4, <1>5 DEF LoadInv

-----------------------------------------------------------------------------
(* The answers to a console.                                               *)

Lists == {"coefficients", "map", "trajectory", "forensics"}

\* A list is counted and sent in answer to one command, without another in
\* between, and no shorter when it is sent than when it was counted.
AnswerInv ==
  /\ pc = "count" => cmd \in Lists /\ console = "received"
  /\ pc = "send" => /\ console = "received"
                    /\ count # 0 => cmd \in Lists /\ count <= File(cmd)
  /\ lines \in Seq(Nat) /\ count \in Nat
  /\ AnswersAreSnapshots

LEMMA ListsGrow ==
  ASSUME Types, Grown(kernel, kernel'), NEW c \in Lists
  PROVE  File(c) \in Nat /\ File(c)' \in Nat /\ File(c)' >= File(c)
<1>1. /\ kernel.points \in Nat /\ kernel'.points \in Nat /\ kernel'.points >= kernel.points
      /\ kernel.trajectory \in Nat /\ kernel'.trajectory \in Nat /\ kernel'.trajectory >= kernel.trajectory
      /\ kernel.forensics \in Nat /\ kernel'.forensics \in Nat /\ kernel'.forensics >= kernel.forensics
  BY KernelFields DEF Types, Grown
<1>2. QED
  BY <1>1 DEF File, Lists

\* The steps that are about something else.
LEMMA NothingAnswered ==
  ASSUME Types, Grown(kernel, kernel'), AnswerInv, UNCHANGED <<cmd, count, lines>>,
         pc' \in {"count", "send"} => pc' = pc /\ UNCHANGED console,
         console' = "answered" => console = "answered"
  PROVE  AnswerInv'
<1>1. ASSUME pc' = "send", count # 0 PROVE cmd \in Lists /\ count <= File(cmd)'
  <2>1. cmd \in Lists /\ count <= File(cmd) /\ count \in Nat
    BY <1>1 DEF AnswerInv
  <2>2. File(cmd) \in Nat /\ File(cmd)' \in Nat /\ File(cmd)' >= File(cmd)
    BY SMTT(30), <2>1, ListsGrow
  <2>3. QED
    BY <2>1, <2>2
<1>2. AnswersAreSnapshots'
  BY ZenonT(60) DEF AnswerInv, AnswersAreSnapshots
<1>3. (pc' = "count" => cmd' \in Lists /\ console' = "received") /\ (pc' = "send" => console' = "received")
  BY DEF AnswerInv
<1>4. QED
  BY <1>1, <1>2, <1>3 DEF AnswerInv

LEMMA LineSent ==
  ASSUME Types, AnswerInv, send_line PROVE AnswerInv'
<1>1. /\ pc = "send" /\ pc' = "send" /\ Len(lines) < count
      /\ lines' = Append(lines, IF Len(lines) < File(cmd) THEN Len(lines) + 1 ELSE 0)
      /\ UNCHANGED <<kernel, console, cmd, count>>
  BY SMTT(30) DEF send_line, Monitor, MoreToSend
<1>2. lines \in Seq(Nat) /\ Len(lines) \in Nat /\ count \in Nat /\ lines = [i \in 1..Len(lines) |-> i]
  BY LenProperties DEF AnswerInv, AnswersAreSnapshots
<1>3. cmd \in Lists /\ count <= File(cmd) /\ console = "received"
  BY <1>1, <1>2 DEF AnswerInv
<1>4. File(cmd) \in Nat
  BY <1>3, KernelFields DEF File, Lists, Types
<1>5. lines' = Append(lines, Len(lines) + 1)
  BY <1>1, <1>2, <1>3, <1>4
<1> DEFINE n == Len(lines)  s == Append(lines, n + 1)
<1>6. /\ s \in Seq(Nat) /\ Len(s) = n + 1
      /\ \A i \in 1..n : s[i] = lines[i]
      /\ s[n + 1] = n + 1
  BY <1>2, AppendProperties
<1>7. s = [i \in 1..(n + 1) |-> i]
  <2>1. s = [i \in 1..(n + 1) |-> s[i]]
    BY <1>6, LenProperties
  <2>2. ASSUME NEW i \in 1..(n + 1) PROVE s[i] = i
    <3>1. i \in 1..n \/ i = n + 1
      BY <1>2
    <3>2. \A j \in 1..n : lines[j] = j
      BY <1>2
    <3>3. QED
      BY <1>6, <3>1, <3>2
  <2>3. QED
    BY <2>1, <2>2
<1>8. lines' \in Seq(Nat) /\ Len(lines') = n + 1 /\ lines' = [i \in 1..Len(lines') |-> i]
  BY <1>5, <1>6, <1>7
<1>9. AnswersAreSnapshots'
  BY <1>1, <1>2, <1>3, <1>8 DEF AnswersAreSnapshots
<1>10. File(cmd)' = File(cmd)
  BY <1>1 DEF File
<1>11. QED
  BY <1>1, <1>2, <1>3, <1>8, <1>9, <1>10 DEF AnswerInv

LEMMA NoLines == <<>> = [i \in 1..Len(<<>>) |-> i] /\ <<>> \in Seq(Nat) /\ Len(<<>>) = 0
<1>1. <<>> \in Seq(Nat) /\ Len(<<>>) = 0
  BY EmptySeq
<1>2. QED
  BY <1>1

LEMMA AnswerStep ==
  ASSUME Types, AnswerInv, [Next]_vars PROVE AnswerInv'
<1>0. Grown(kernel, kernel')
  BY KernelStep
<1>1. CASE MonitorNext
  <2>1. CASE send_line
    BY <2>1, LineSent
  <2>2. CASE send_count
    <3>1. /\ pc = "count" /\ pc' = "send" /\ count' = File(cmd) /\ lines' = <<>>
          /\ UNCHANGED <<kernel, console, cmd>>
      BY <2>2 DEF send_count, Monitor
    <3>2. cmd \in Lists /\ console = "received"
      BY <3>1 DEF AnswerInv
    <3>3. File(cmd) \in Nat /\ File(cmd)' = File(cmd)
      BY <3>1, <3>2, KernelFields DEF File, Lists, Types
    <3>4. AnswersAreSnapshots'
      BY <3>1, <3>2, <3>3, NoLines DEF AnswersAreSnapshots
    <3>5. QED
      BY <3>1, <3>2, <3>3, <3>4, NoLines DEF AnswerInv
  <2>3. CASE sent
    <3>1. /\ pc' = "poll" /\ ~(Len(lines) < count) /\ UNCHANGED <<cmd, count, lines>>
      BY SMTT(30), <2>3 DEF sent, Monitor, MoreToSend
    <3>2. lines \in Seq(Nat) /\ count \in Nat /\ Len(lines) <= count /\ Len(lines) \in Nat
      BY LenProperties DEF AnswerInv, AnswersAreSnapshots
    <3>3. AnswersAreSnapshots'
      <4>1. Len(lines) = count
        BY SMTT(30), <3>1, <3>2
      <4>2. lines = [i \in 1..Len(lines) |-> i] /\ Len(lines) <= count
        BY DEF AnswerInv, AnswersAreSnapshots
      <4>3. QED
        BY <3>1, <4>1, <4>2 DEF AnswersAreSnapshots
    <3>4. QED
      BY <3>1, <3>3 DEF AnswerInv
  <2>4. CASE process_command
    <3>1. pc' \in {"send", "count"} /\ console' = "received" /\ UNCHANGED cmd
      BY <2>4 DEF process_command, Received, Serve, Monitor
    <3>2. \/ pc' = "send" /\ count' = 0 /\ lines' = <<>>
          \/ pc' = "count" /\ cmd \in Lists /\ UNCHANGED <<count, lines>>
      BY <2>4 DEF process_command, Serve, Monitor, Lists
    <3>3. CASE pc' = "send" /\ count' = 0 /\ lines' = <<>>
      <4>1. AnswersAreSnapshots'
        BY SMTT(30), <3>1, <3>3, NoLines DEF AnswersAreSnapshots
      <4>2. QED
        BY <3>1, <3>3, <4>1, NoLines DEF AnswerInv
    <3>4. CASE pc' = "count" /\ cmd \in Lists /\ UNCHANGED <<count, lines>>
      BY <3>1, <3>4 DEF AnswerInv, AnswersAreSnapshots
    <3>5. QED
      BY <3>2, <3>3, <3>4
  <2>5. CASE seal_domain
    <3>1. \/ /\ pc' = "send" /\ count' = 0 /\ lines' = <<>> /\ console' = "received"
          \/ pc' = "exited" /\ console' = "received" /\ UNCHANGED <<cmd, count, lines>>
      BY <2>5 DEF seal_domain, Received, Serve, Exit, Monitor
    <3>2. CASE /\ pc' = "send" /\ count' = 0 /\ lines' = <<>> /\ console' = "received"
      <4>1. AnswersAreSnapshots'
        BY <3>2, NoLines DEF AnswersAreSnapshots
      <4>2. QED
        BY <3>2, <4>1, NoLines DEF AnswerInv
    <3>3. CASE pc' = "exited" /\ console' = "received" /\ UNCHANGED <<cmd, count, lines>>
      BY <1>0, <3>3, NothingAnswered
    <3>4. QED
      BY <3>1, <3>2, <3>3
  <2>6. CASE illegal_command \/ accept_connection \/ receive_end
    <3>1. /\ pc' \in {"exited", "poll"} /\ console' \in {"received", "none", console}
          /\ UNCHANGED <<cmd, count, lines>>
      BY <2>6 DEF illegal_command, accept_connection, receive_end, Received, Serve, Monitor, Exit
    <3>2. QED
      BY <1>0, <3>1, NothingAnswered
  <2>7. CASE setup_namespace \/ load \/ load_model \/ fire_cartridge \/ poll \/ poll_returns \/ check_stop
             \/ check_sigchild \/ check_poll \/ upload_model \/ upload_trajectory
    <3>1. pc' \notin {"count", "send"}
      BY <2>7 DEF setup_namespace, load, load_model, fire_cartridge, poll, poll_returns, check_stop,
         check_sigchild, check_poll, upload_model, upload_trajectory, Monitor, Fail, Exit
    <3>2. UNCHANGED <<console, cmd, count, lines>>
      BY <2>7 DEF setup_namespace, load, load_model, fire_cartridge, poll, poll_returns, check_stop,
         check_sigchild, check_poll, upload_model, upload_trajectory, Fail, consoleVars
    <3>3. QED
      BY <1>0, <3>1, <3>2, NothingAnswered
  <2>8. QED
    BY <1>1, <2>1, <2>2, <2>3, <2>4, <2>5, <2>6, <2>7 DEF MonitorNext
<1>2. CASE MainNext
  <2>1. UNCHANGED <<pc, console, cmd, count, lines>>
    BY <1>2 DEF MainNext, read_pid, receive_model, receive_trajectory, receive_ends, pause, check_monitor, Main,
       monitorVars, consoleVars
  <2>2. QED
    BY <1>0, <2>1, NothingAnswered
<1>3. CASE Event \/ WorkloadEnds \/ DaemonEnds \/ WorkloadStops \/ WorkloadContinues \/ Interrupt
  <2>1. UNCHANGED <<pc, console, cmd, count, lines>>
    BY <1>3 DEF Event, WorkloadEnds, DaemonEnds, WorkloadStops, WorkloadContinues, Interrupt, SigChild, Quiet,
       monitorVars, consoleVars
  <2>2. QED
    BY <1>0, <2>1, NothingAnswered
<1>4. CASE Ask
  <2>1. console = "none" /\ console' = "asked" /\ UNCHANGED <<pc, count, lines>>
    BY <1>4 DEF Ask, monitorVars
  <2>2. pc \notin {"count", "send"}
    BY <2>1 DEF AnswerInv
  <2>3. QED
    BY <2>1, <2>2 DEF AnswerInv, AnswersAreSnapshots
<1>5. CASE AskFails
  <2>1. pc = "exited" /\ console' = "failed" /\ UNCHANGED <<pc, cmd, count, lines>>
    BY <1>5 DEF AskFails, monitorVars
  <2>2. QED
    BY <1>0, <2>1, NothingAnswered
<1>6. CASE UNCHANGED vars
  <2>1. UNCHANGED <<pc, console, cmd, count, lines>>
    BY <1>6 DEF vars, monitorVars, consoleVars
  <2>2. QED
    BY <1>0, <2>1, NothingAnswered
<1>7. CASE monitor_fails \/ upload_fails \/ receive_fails
  <2>1. pc' \in {"exited", pc} /\ UNCHANGED <<console, cmd, count, lines>>
    BY <1>7 DEF monitor_fails, upload_fails, receive_fails, Fail, Exit, Monitor, Main, monitorVars,
       consoleVars
  <2>2. QED
    BY <1>0, <2>1, NothingAnswered
<1>8. QED
  BY <1>1, <1>2, <1>3, <1>4, <1>5, <1>6, <1>7 DEF Next

LEMMA InitAnswer == Init => AnswerInv
<1> SUFFICES ASSUME Init PROVE AnswerInv
  OBVIOUS
<1>1. pc = "setup" /\ count = 0 /\ lines = <<>> /\ console = "none"
  BY DEF Init
<1>2. QED
  BY <1>1, NoLines DEF AnswerInv, AnswersAreSnapshots

-----------------------------------------------------------------------------
(* Sequences.                                                              *)

\* Concatenation as a name, whose meaning the provers need not look into.
Cat(x, y) == x \o y

LEMMA CatAssoc ==
  ASSUME NEW S
  PROVE  /\ \A x, y \in Seq(S) : Cat(x, y) \in Seq(S)
         /\ \A x, y, z \in Seq(S) : Cat(Cat(x, y), z) = Cat(x, Cat(y, z))
<1>1. ASSUME NEW x \in Seq(S), NEW y \in Seq(S) PROVE Cat(x, y) \in Seq(S)
  BY ConcatProperties DEF Cat
<1>2. ASSUME NEW x \in Seq(S), NEW y \in Seq(S), NEW z \in Seq(S)
      PROVE  Cat(Cat(x, y), z) = Cat(x, Cat(y, z))
  BY ConcatAssociative DEF Cat
<1>3. QED
  BY <1>1, <1>2

LEMMA CatEmpty ==
  ASSUME NEW S
  PROVE  <<>> \in Seq(S) /\ \A x \in Seq(S) : Cat(x, <<>>) = x /\ Cat(<<>>, x) = x
<1>1. ASSUME NEW x \in Seq(S) PROVE Cat(x, <<>>) = x /\ Cat(<<>>, x) = x
  BY ConcatEmptySeq DEF Cat
<1>2. QED
  BY <1>1

LEMMA CatHead ==
  ASSUME NEW S, NEW s \in Seq(S), s # <<>>
  PROVE  /\ Head(s) \in S /\ Tail(s) \in Seq(S) /\ <<Head(s)>> \in Seq(S)
         /\ s = Cat(<<Head(s)>>, Tail(s)) /\ Len(s) \in Nat /\ Len(Tail(s)) = Len(s) - 1
<1>1. Len(s) \in Nat \ {0} /\ 1 \in 1..Len(s) /\ Len(s) \in 1..Len(s)
  BY EmptySeq
<1>2. SubSeq(s, 1, Len(s)) = <<s[1]>> \o SubSeq(s, 1 + 1, Len(s))
  BY <1>1, SubSeqRecursiveFirst
<1>3. SubSeq(s, 1, Len(s)) = s
  BY SubSeqFull
<1>4. Tail(s) = SubSeq(s, 2, Len(s))
  BY TailIsSubSeq
<1>5. Head(s) = s[1] /\ 1 + 1 = 2
  OBVIOUS
<1>6. Head(s) \in S /\ Tail(s) \in Seq(S) /\ Len(Tail(s)) = Len(s) - 1
  BY HeadTailProperties
<1>7. QED
  BY <1>1, <1>2, <1>3, <1>4, <1>5, <1>6 DEF Cat

LEMMA FrontOf ==
  ASSUME NEW S, NEW x \in S, NEW t \in Seq(S)
  PROVE  LET u == Cat(<<x>>, t)
         IN  u \in Seq(S) /\ u # <<>> /\ Head(u) = x /\ Tail(u) = t
<1> DEFINE h == <<x>>  u == h \o t
<1>1. h \in Seq(S) /\ Len(h) = 1 /\ h[1] = x
  OBVIOUS
<1> HIDE DEF h
<1>2. Len(t) \in Nat
  BY LenProperties
<1>3. /\ u \in Seq(S) /\ Len(u) = 1 + Len(t)
      /\ \A i \in 1..(1 + Len(t)) : u[i] = IF i <= 1 THEN h[i] ELSE t[i - 1]
  <2>1. /\ u \in Seq(S) /\ Len(u) = Len(h) + Len(t)
        /\ \A i \in 1..(Len(h) + Len(t)) : u[i] = IF i <= Len(h) THEN h[i] ELSE t[i - Len(h)]
    BY <1>1, ConcatProperties
  <2>2. QED
    BY <1>1, <2>1
<1> HIDE DEF u
<1>4. u # <<>>
  BY <1>2, <1>3, EmptySeq
<1>5. /\ Tail(u) \in Seq(S) /\ Len(Tail(u)) = Len(u) - 1
      /\ \A i \in 1..Len(Tail(u)) : Tail(u)[i] = u[i + 1]
  BY <1>3, <1>4, HeadTailProperties
<1> DEFINE v == Tail(u)
<1>6. v \in Seq(S) /\ Len(v) = Len(t) /\ \A i \in 1..Len(v) : v[i] = t[i]
  <2>1. Len(v) = Len(t)
    BY <1>2, <1>3, <1>5
  <2>2. ASSUME NEW i \in 1..Len(v) PROVE v[i] = t[i]
    <3>1. i + 1 \in 1..(1 + Len(t)) /\ ~(i + 1 <= 1) /\ i + 1 - 1 = i
      BY <1>2, <2>1
    <3>2. u[i + 1] = t[i]
      BY <1>3, <3>1
    <3>3. QED
      BY <1>5, <3>2
  <2>3. QED
    BY <1>5, <2>1, <2>2
<1> HIDE DEF v
<1>7. v = t
  BY <1>6, SeqEqual
<1>8. Head(u) = x
  <2>1. 1 \in 1..(1 + Len(t)) /\ 1 <= 1
    BY <1>2
  <2>2. u[1] = x
    BY <1>1, <1>3, <2>1
  <2>3. QED
    BY <1>3, <1>4, <2>2
<1>9. QED
  BY <1>3, <1>4, <1>7, <1>8 DEF Cat, u, v, h

LEMMA FrontOfCat ==
  ASSUME NEW S, NEW s \in Seq(S), s # <<>>, NEW t \in Seq(S)
  PROVE  Cat(s, t) # <<>> /\ Head(Cat(s, t)) = Head(s) /\ Tail(Cat(s, t)) = Cat(Tail(s), t)
<1> DEFINE h == <<Head(s)>>  v == Tail(s)  w == Cat(v, t)
<1>1. h \in Seq(S) /\ Head(s) \in S /\ v \in Seq(S) /\ s = Cat(h, v)
  BY CatHead
<1>2. w \in Seq(S)
  BY <1>1, CatAssoc
<1>3. Cat(s, t) = Cat(h, w)
  <2> HIDE DEF h, v
  <2>1. Cat(Cat(h, v), t) = Cat(h, Cat(v, t))
    BY <1>1, CatAssoc
  <2>2. QED
    BY <1>1, <2>1
<1> HIDE DEF w
<1>4. Cat(h, w) # <<>> /\ Head(Cat(h, w)) = Head(s) /\ Tail(Cat(h, w)) = w
  BY <1>1, <1>2, FrontOf
<1>5. QED
  BY <1>3, <1>4 DEF w

LEMMA PrefixOfCat ==
  ASSUME NEW S, NEW s \in Seq(S), NEW t \in Seq(S)
  PROVE  Link!IsPrefix(s, Cat(s, t))
<1>1. Len(s) \in Nat /\ Len(t) \in Nat
  BY LenProperties
<1>2. Len(Cat(s, t)) = Len(s) + Len(t)
  BY ConcatProperties DEF Cat
<1>3. SubSeq(Cat(s, t), 1, Len(s)) = SubSeq(s, 1, Len(s))
  <2>1. CASE Len(s) = 0
    <3>1. SubSeq(Cat(s, t), 1, Len(s)) = <<>> /\ SubSeq(s, 1, Len(s)) = <<>>
      BY <2>1, SubSeqEmpty
    <3>2. QED
      BY <3>1
  <2>2. CASE Len(s) # 0
    <3>1. 1 \in 1..Len(s) /\ Len(s) \in 1..Len(s)
      BY <1>1, <2>2
    <3>2. QED
      BY <3>1, SubSeqOfConcat1 DEF Cat
  <2>3. QED
    BY <2>1, <2>2
<1>4. QED
  BY <1>1, <1>2, <1>3 DEF Link!IsPrefix

-----------------------------------------------------------------------------
(* The output of the model.                                                *)

Texts == {"pid", "feed", "aggregate", "state", "seal", "end"}

Symbols == [text : Texts, n : Nat]

\* What a step does to the pipe, and where the characters are.
InPipe == IF mpc = "pid" /\ pipe # <<>> THEN Tail(pipe) ELSE pipe

Stream == Cat(out, Cat(str, InPipe))

\* The lines that have been written when the k-th is about to be.
WrittenLine(i) == IF i = 0 THEN Sym("aggregate", 0) ELSE Sym("state", i)

Written(k) == [i \in 1..(2 * k) |-> IF i % 2 = 0 THEN Feed ELSE WrittenLine(i \div 2)]

LEMMA SymbolsAre ==
  /\ \A text \in Texts, n \in Nat : Sym(text, n) \in Symbols
  /\ \A x, y \in Symbols : <<x, y>> \in Seq(Symbols)
BY DEF Sym, Symbols

LEMMA LinesAre ==
  /\ Feed \in Symbols
  /\ \A i \in Nat : WrittenLine(i) \in Symbols
  /\ \A n \in Nat : \A i \in 0..(n + 2) :
       ModelLine(n, i) = IF i <= n THEN WrittenLine(i)
                         ELSE IF i = n + 1 THEN Sym("seal", 0) ELSE Sym("end", 0)
  /\ \A n \in Nat : \A i \in 0..(n + 2) : ModelLine(n, i) \in Symbols
<1>1. 0 \in Nat /\ {"feed", "aggregate", "state", "seal", "end"} \subseteq Texts
  BY DEF Texts
<1>2. Feed \in Symbols
  BY <1>1, SymbolsAre DEF Feed
<1>3. ASSUME NEW i \in Nat PROVE WrittenLine(i) \in Symbols
  BY <1>1, SymbolsAre DEF WrittenLine
<1>4. ASSUME NEW n \in Nat, NEW i \in 0..(n + 2)
      PROVE  ModelLine(n, i) = IF i <= n THEN WrittenLine(i)
                               ELSE IF i = n + 1 THEN Sym("seal", 0) ELSE Sym("end", 0)
  <2>1. CASE i = 0
    BY <2>1 DEF ModelLine, WrittenLine
  <2>2. CASE i \in 1..n
    BY <2>2 DEF ModelLine, WrittenLine
  <2>3. CASE i = n + 1
    <3>1. i # 0 /\ i \notin 1..n /\ ~(i <= n)
      BY <2>3
    <3>2. QED
      BY <2>3, <3>1 DEF ModelLine
  <2>4. CASE i = n + 2
    <3>1. i # 0 /\ i \notin 1..n /\ ~(i <= n) /\ i # n + 1
      BY <2>4
    <3>2. QED
      BY <2>4, <3>1 DEF ModelLine
  <2>5. QED
    BY <2>1, <2>2, <2>3, <2>4
<1>5. ASSUME NEW n \in Nat, NEW i \in 0..(n + 2) PROVE ModelLine(n, i) \in Symbols
  <2>1. i \in Nat /\ Sym("seal", 0) \in Symbols /\ Sym("end", 0) \in Symbols
    BY <1>1, SymbolsAre
  <2>2. QED
    BY <1>3, <1>4, <2>1
<1>6. QED
  BY <1>2, <1>3, <1>4, <1>5

LEMMA WrittenIs ==
  ASSUME NEW k \in Nat
  PROVE  /\ Written(k) \in Seq(Symbols) /\ Len(Written(k)) = 2 * k
         /\ \A i \in 1..(2 * k) : Written(k)[i] = IF i % 2 = 0 THEN Feed ELSE WrittenLine(i \div 2)
<1>1. 2 * k \in Nat
  OBVIOUS
<1>2. ASSUME NEW i \in 1..(2 * k) PROVE (IF i % 2 = 0 THEN Feed ELSE WrittenLine(i \div 2)) \in Symbols
  <2>1. i \div 2 \in Nat
    BY <1>1
  <2>2. QED
    BY <2>1, LinesAre
<1>3. Written(k) \in Seq(Symbols)
  BY <1>1, <1>2, IsASeq DEF Written
<1>4. QED
  BY <1>1, <1>3, LenProperties DEF Written

LEMMA ModelOfIs ==
  ASSUME NEW n \in Nat
  PROVE  /\ ModelOf(n) \in Seq(Symbols) /\ Len(ModelOf(n)) = 2 * n + 6
         /\ \A i \in 1..(2 * n + 6) : ModelOf(n)[i] = IF i % 2 = 0 THEN Feed ELSE ModelLine(n, i \div 2)
<1>1. 2 * n + 6 \in Nat
  OBVIOUS
<1>2. ASSUME NEW i \in 1..(2 * n + 6) PROVE (IF i % 2 = 0 THEN Feed ELSE ModelLine(n, i \div 2)) \in Symbols
  <2>1. i % 2 # 0 => i \div 2 \in 0..(n + 2)
    BY <1>1
  <2>2. QED
    BY <2>1, LinesAre
<1>3. ModelOf(n) \in Seq(Symbols)
  BY <1>1, <1>2, IsASeq DEF ModelOf
<1>4. QED
  BY <1>1, <1>3, LenProperties DEF ModelOf

\* One more line, ...
LEMMA WrittenGrows ==
  ASSUME NEW k \in Nat
  PROVE  Cat(Written(k), <<WrittenLine(k), Feed>>) = Written(k + 1)
<1> DEFINE s == Written(k)  t == <<WrittenLine(k), Feed>>  u == s \o t  v == Written(k + 1)
<1>1. /\ s \in Seq(Symbols) /\ Len(s) = 2 * k
      /\ \A i \in 1..(2 * k) : s[i] = IF i % 2 = 0 THEN Feed ELSE WrittenLine(i \div 2)
  BY WrittenIs
<1>2. t \in Seq(Symbols) /\ Len(t) = 2 /\ t[1] = WrittenLine(k) /\ t[2] = Feed
  BY LinesAre, SymbolsAre
<1>3. k + 1 \in Nat /\ 2 * (k + 1) = 2 * k + 2
  OBVIOUS
<1>4. /\ v \in Seq(Symbols) /\ Len(v) = 2 * k + 2
      /\ \A i \in 1..(2 * k + 2) : v[i] = IF i % 2 = 0 THEN Feed ELSE WrittenLine(i \div 2)
  BY <1>3, WrittenIs
<1>5. /\ u \in Seq(Symbols) /\ Len(u) = 2 * k + 2
      /\ \A i \in 1..(2 * k + 2) : u[i] = IF i <= 2 * k THEN s[i] ELSE t[i - 2 * k]
  <2> HIDE DEF s, t
  <2>1. /\ s \o t \in Seq(Symbols) /\ Len(s \o t) = Len(s) + Len(t)
        /\ \A i \in 1..(Len(s) + Len(t)) : (s \o t)[i] = IF i <= Len(s) THEN s[i] ELSE t[i - Len(s)]
    BY <1>1, <1>2, ConcatProperties
  <2>2. QED
    BY <1>1, <1>2, <2>1
<1> HIDE DEF s, t, u, v
<1>6. ASSUME NEW i \in 1..Len(u) PROVE u[i] = v[i]
  <2>1. i \in 1..(2 * k + 2) /\ i \in Nat
    BY <1>5
  <2>2. CASE i <= 2 * k
    <3>1. i \in 1..(2 * k)
      BY <2>1, <2>2
    <3>2. u[i] = s[i]
      BY <1>5, <2>1, <2>2
    <3>3. s[i] = v[i]
      BY <1>1, <1>4, <2>1, <3>1
    <3>4. QED
      BY <3>2, <3>3
  <2>3. CASE i = 2 * k + 1
    <3>1. i % 2 # 0 /\ i \div 2 = k /\ i - 2 * k = 1 /\ ~(i <= 2 * k)
      BY <2>3
    <3>2. QED
      BY <1>2, <1>4, <1>5, <2>1, <3>1
  <2>4. CASE i = 2 * k + 2
    <3>1. i % 2 = 0 /\ i - 2 * k = 2 /\ ~(i <= 2 * k)
      BY <2>4
    <3>2. QED
      BY <1>2, <1>4, <1>5, <2>1, <3>1
  <2>5. QED
    BY <2>1, <2>2, <2>3, <2>4
<1>7. u = v
  BY <1>4, <1>5, <1>6, SeqEqual
<1>8. QED
  BY <1>7 DEF Cat, s, t, u, v

\* ... and the last two.
LEMMA WrittenEnds ==
  ASSUME NEW n \in Nat
  PROVE  Cat(Written(n + 1), <<Sym("seal", 0), Feed, Sym("end", 0), Feed>>) = ModelOf(n)
<1> DEFINE s == Written(n + 1)  t == <<Sym("seal", 0), Feed, Sym("end", 0), Feed>>  u == s \o t  v == ModelOf(n)
<1>1. /\ s \in Seq(Symbols) /\ Len(s) = 2 * n + 2
      /\ \A i \in 1..(2 * n + 2) : s[i] = IF i % 2 = 0 THEN Feed ELSE WrittenLine(i \div 2)
  <2>1. n + 1 \in Nat /\ 2 * (n + 1) = 2 * n + 2
    OBVIOUS
  <2>2. QED
    BY <2>1, WrittenIs
<1>2. /\ t \in Seq(Symbols) /\ Len(t) = 4
      /\ t[1] = Sym("seal", 0) /\ t[2] = Feed /\ t[3] = Sym("end", 0) /\ t[4] = Feed
  <2>1. Sym("seal", 0) \in Symbols /\ Sym("end", 0) \in Symbols /\ Feed \in Symbols
    BY SymbolsAre, LinesAre
  <2>2. QED
    BY <2>1
<1>3. /\ v \in Seq(Symbols) /\ Len(v) = 2 * n + 6
      /\ \A i \in 1..(2 * n + 6) : v[i] = IF i % 2 = 0 THEN Feed ELSE ModelLine(n, i \div 2)
  BY ModelOfIs
<1>4. /\ u \in Seq(Symbols) /\ Len(u) = 2 * n + 6
      /\ \A i \in 1..(2 * n + 6) : u[i] = IF i <= 2 * n + 2 THEN s[i] ELSE t[i - (2 * n + 2)]
  <2> HIDE DEF s, t
  <2>1. /\ s \o t \in Seq(Symbols) /\ Len(s \o t) = Len(s) + Len(t)
        /\ \A i \in 1..(Len(s) + Len(t)) : (s \o t)[i] = IF i <= Len(s) THEN s[i] ELSE t[i - Len(s)]
    BY <1>1, <1>2, ConcatProperties
  <2>2. QED
    BY <1>1, <1>2, <2>1
<1> HIDE DEF s, t, u, v
<1>5. ASSUME NEW i \in 1..Len(u) PROVE u[i] = v[i]
  <2>1. i \in 1..(2 * n + 6) /\ i \in Nat
    BY <1>4
  <2>2. CASE i <= 2 * n + 2
    <3>1. u[i] = IF i % 2 = 0 THEN Feed ELSE WrittenLine(i \div 2)
      BY <1>1, <1>4, <2>1, <2>2
    <3>2. i % 2 # 0 => i \div 2 \in 0..(n + 2) /\ i \div 2 <= n
      BY <2>1, <2>2
    <3>3. i % 2 # 0 => ModelLine(n, i \div 2) = WrittenLine(i \div 2)
      BY <3>2, LinesAre
    <3>4. QED
      BY <1>3, <2>1, <3>1, <3>3
  <2>3. CASE i = 2 * n + 3
    <3>1. i % 2 # 0 /\ i \div 2 = n + 1 /\ i - (2 * n + 2) = 1 /\ ~(i <= 2 * n + 2)
      BY <2>3
    <3>2. ModelLine(n, n + 1) = Sym("seal", 0)
      BY DEF ModelLine
    <3>3. QED
      BY <1>2, <1>3, <1>4, <2>1, <3>1, <3>2
  <2>4. CASE i = 2 * n + 5
    <3>1. i % 2 # 0 /\ i \div 2 = n + 2 /\ i - (2 * n + 2) = 3 /\ ~(i <= 2 * n + 2)
      BY <2>4
    <3>2. ModelLine(n, n + 2) = Sym("end", 0)
      BY DEF ModelLine
    <3>3. QED
      BY <1>2, <1>3, <1>4, <2>1, <3>1, <3>2
  <2>5. CASE i = 2 * n + 4 \/ i = 2 * n + 6
    <3>1. i % 2 = 0 /\ i - (2 * n + 2) \in {2, 4} /\ ~(i <= 2 * n + 2)
      BY <2>5
    <3>2. QED
      BY <1>2, <1>3, <1>4, <2>1, <3>1
  <2>6. QED
    BY <2>1, <2>2, <2>3, <2>4, <2>5
<1>6. u = v
  BY <1>3, <1>4, <1>5, SeqEqual
<1>7. QED
  BY <1>6 DEF Cat, s, t, u, v

Whole ==
  \E n \in 0..kernel.points : /\ Stream = ModelOf(n) /\ workload = "ended"
                              /\ daemon = "none" => n = kernel.points

Begun == \E k \in 0..(kernel.points + 1) : Stream = Written(k)

\* What main has written, the line it reads and what is in the pipe are, one
\* after the other, what the monitor has written, line by line; the first lines,
\* or all of a model, when the monitor has exited.
StreamInv ==
  opt.output = "model" =>
    /\ pipe \in Seq(Symbols) /\ str \in Seq(Symbols) /\ out \in Seq(Symbols)
    /\ \A i \in 1..Len(str) : str[i] # Feed
    /\ mpc = "pid" => (pipe # <<>> <=> workload # "none")
    /\ pc \notin {"upload", "exited"} => Stream = <<>>
    /\ pc = "upload" => next \in Nat /\ next <= kernel.points + 1 /\ Stream = Written(next)
    /\ pc = "exited" => Begun \/ Whole

LEMMA NoneWritten == Written(0) = <<>>
BY WrittenIs, EmptySeq

\* The steps that write nothing.
LEMMA StreamKept ==
  ASSUME Types, Grown(kernel, kernel'), StreamInv, opt.output = "model", UNCHANGED opt,
         pipe' \in Seq(Symbols), str' \in Seq(Symbols), out' \in Seq(Symbols),
         \A i \in 1..Len(str') : str'[i] # Feed,
         mpc' = "pid" => (pipe' # <<>> <=> workload' # "none"),
         Stream' = Stream,
         \/ pc' = pc /\ (pc = "upload" => UNCHANGED next)
         \/ pc \notin {"upload", "exited"} /\ (pc' = "upload" => next' = 0),
         pc = "exited" /\ workload = "ended" =>
           workload' = "ended" /\ (daemon' = "none" => daemon = "none" /\ kernel'.points = kernel.points)
  PROVE  StreamInv'
<1>1. kernel.points \in Nat /\ kernel'.points \in Nat /\ kernel'.points >= kernel.points
  BY KernelFields DEF Types, Grown
<1>2. ASSUME pc' \notin {"upload", "exited"} PROVE Stream' = <<>>
  BY <1>2 DEF StreamInv
<1>3. ASSUME pc' = "upload" PROVE next' \in Nat /\ next' <= kernel'.points + 1 /\ Stream' = Written(next')
  <2>1. CASE pc = "upload"
    BY <1>1, <1>3, <2>1 DEF StreamInv
  <2>2. CASE pc # "upload"
    <3>1. next' = 0 /\ Stream' = <<>>
      BY <1>3, <2>2 DEF StreamInv
    <3>2. QED
      BY <1>1, <3>1, NoneWritten
  <2>3. QED
    BY <2>1, <2>2
<1>4. ASSUME pc' = "exited" PROVE Begun' \/ Whole'
  <2>1. CASE pc = "exited" /\ Whole
    <3>1. PICK n \in 0..kernel.points : /\ Stream = ModelOf(n) /\ workload = "ended"
                                        /\ daemon = "none" => n = kernel.points
      BY <2>1 DEF Whole
    <3>2. n \in 0..kernel'.points /\ Stream' = ModelOf(n) /\ workload' = "ended"
      BY <1>1, <2>1, <3>1
    <3>3. daemon' = "none" => n = kernel'.points
      BY <2>1, <3>1
    <3>4. QED
      BY <3>2, <3>3 DEF Whole
  <2>2. CASE pc = "exited" /\ ~Whole
    <3>1. PICK k \in 0..(kernel.points + 1) : Stream = Written(k)
      BY <2>2 DEF StreamInv, Begun
    <3>2. k \in 0..(kernel'.points + 1) /\ Stream' = Written(k)
      BY <1>1, <3>1
    <3>3. QED
      BY <3>2 DEF Begun
  <2>3. CASE pc # "exited"
    <3>1. Stream' = Written(0) /\ 0 \in 0..(kernel'.points + 1)
      BY <1>1, <1>4, <2>3, NoneWritten DEF StreamInv
    <3>2. QED
      BY <3>1 DEF Begun
  <2>4. QED
    BY <2>1, <2>2, <2>3
<1>5. QED
  BY <1>2, <1>3, <1>4 DEF StreamInv

\* What is appended to the pipe is appended to the stream.
LEMMA StreamAppended ==
  ASSUME StreamInv, opt.output = "model", NEW t \in Seq(Symbols), pipe' = pipe \o t,
         UNCHANGED <<str, out>>, mpc' = "pid" <=> mpc = "pid", mpc = "pid" => pipe # <<>>
  PROVE  /\ pipe' \in Seq(Symbols) /\ Stream' = Cat(Stream, t)
         /\ mpc = "pid" => pipe' # <<>>
<1>1. pipe \in Seq(Symbols) /\ str \in Seq(Symbols) /\ out \in Seq(Symbols)
  BY DEF StreamInv
<1>2. pipe' = Cat(pipe, t) /\ pipe' \in Seq(Symbols)
  BY <1>1, CatAssoc DEF Cat
<1>3. InPipe \in Seq(Symbols) /\ InPipe' = Cat(InPipe, t) /\ (mpc = "pid" => pipe' # <<>>)
  <2>1. CASE mpc = "pid"
    <3>1. Cat(pipe, t) # <<>> /\ Tail(Cat(pipe, t)) = Cat(Tail(pipe), t) /\ Tail(pipe) \in Seq(Symbols)
      BY <1>1, <2>1, FrontOfCat, CatHead
    <3>2. QED
      BY <1>2, <2>1, <3>1 DEF InPipe
  <2>2. CASE mpc # "pid"
    BY <1>1, <1>2, <2>2 DEF InPipe
  <2>3. QED
    BY <2>1, <2>2
<1>4. Stream' = Cat(out, Cat(str, Cat(InPipe, t)))
  BY <1>3 DEF Stream
<1>5. Cat(str, Cat(InPipe, t)) = Cat(Cat(str, InPipe), t) /\ Cat(str, InPipe) \in Seq(Symbols)
  BY <1>1, <1>3, CatAssoc
<1>6. Cat(out, Cat(Cat(str, InPipe), t)) = Cat(Cat(out, Cat(str, InPipe)), t)
  BY <1>1, <1>5, CatAssoc
<1>7. QED
  BY <1>2, <1>3, <1>4, <1>5, <1>6 DEF Stream

\* A character is received.
LEMMA StreamReceived ==
  ASSUME StreamInv, opt.output = "model", receive_model
  PROVE  /\ pipe' \in Seq(Symbols) /\ str' \in Seq(Symbols) /\ out' \in Seq(Symbols)
         /\ \A i \in 1..Len(str') : str'[i] # Feed
         /\ Stream' = Stream
<1>1. /\ pipe # <<>> /\ mpc = "receive" /\ mpc' = "receive" /\ pipe' = Tail(pipe)
      /\ IF Head(pipe) = Feed
           THEN str' = <<>> /\ out' = out \o Append(str, Feed)
           ELSE str' = Append(str, Head(pipe)) /\ UNCHANGED out
  BY DEF receive_model, Main
<1>2. pipe \in Seq(Symbols) /\ str \in Seq(Symbols) /\ out \in Seq(Symbols)
  BY DEF StreamInv
<1> DEFINE h == <<Head(pipe)>>  t == Tail(pipe)
<1>3. /\ h \in Seq(Symbols) /\ t \in Seq(Symbols) /\ Head(pipe) \in Symbols /\ pipe = Cat(h, t)
      /\ Append(str, Head(pipe)) = Cat(str, h) /\ Cat(str, h) \in Seq(Symbols)
  BY <1>1, <1>2, CatHead, AppendIsConcat, AppendProperties DEF Cat
<1>4. Stream = Cat(out, Cat(str, Cat(h, t)))
  BY <1>1, <1>3 DEF Stream, InPipe
<1>5. InPipe' = t
  BY <1>1 DEF InPipe
<1>6. CASE Head(pipe) = Feed
  <2>1. str' = <<>> /\ out' = Cat(out, Cat(str, h))
    BY <1>1, <1>3, <1>6 DEF Cat
  <2> HIDE DEF h, t
  <2>2. Stream' = Cat(Cat(out, Cat(str, h)), Cat(<<>>, t))
    BY <1>5, <2>1 DEF Stream
  <2>3. Cat(<<>>, t) = t
    BY <1>3, CatEmpty
  <2>4. Cat(Cat(out, Cat(str, h)), t) = Cat(out, Cat(Cat(str, h), t))
    BY <1>2, <1>3, CatAssoc
  <2>5. Cat(Cat(str, h), t) = Cat(str, Cat(h, t))
    BY <1>2, <1>3, CatAssoc
  <2>6. Stream' = Stream
    BY <1>4, <2>2, <2>3, <2>4, <2>5
  <2>7. pipe' \in Seq(Symbols) /\ out' \in Seq(Symbols) /\ str' \in Seq(Symbols) /\ Len(str') = 0
    BY <1>1, <1>2, <1>3, <2>1, CatAssoc, CatEmpty DEF t
  <2>8. QED
    BY <2>6, <2>7
<1>7. CASE Head(pipe) # Feed
  <2>1. str' = Cat(str, h) /\ out' = out
    BY <1>1, <1>3, <1>7
  <2>2. \A i \in 1..Len(str') : str'[i] # Feed
    <3>1. str' = Append(str, Head(pipe)) /\ \A i \in 1..Len(str) : str[i] # Feed
      BY <1>1, <1>7 DEF StreamInv
    <3>2. /\ Len(str') = Len(str) + 1 /\ Len(str) \in Nat /\ str'[Len(str) + 1] = Head(pipe)
          /\ \A i \in 1..Len(str) : str'[i] = str[i]
      BY <1>2, <1>3, <3>1, AppendProperties, LenProperties
    <3>3. \A i \in 1..Len(str') : i \in 1..Len(str) \/ i = Len(str) + 1
      BY <3>2
    <3>4. QED
      BY <1>7, <3>1, <3>2, <3>3
  <2> HIDE DEF h, t
  <2>3. Stream' = Cat(out, Cat(Cat(str, h), t))
    BY <1>5, <2>1 DEF Stream
  <2>4. Cat(Cat(str, h), t) = Cat(str, Cat(h, t))
    BY <1>2, <1>3, CatAssoc
  <2>5. pipe' \in Seq(Symbols) /\ out' \in Seq(Symbols) /\ str' \in Seq(Symbols)
    BY <1>1, <1>2, <1>3, <2>1 DEF t
  <2>6. QED
    BY <1>4, <2>2, <2>3, <2>4, <2>5
<1>8. QED
  BY <1>6, <1>7

LEMMA NothingWritten ==
  ASSUME Types, Grown(kernel, kernel'), StreamInv, opt.output = "model", UNCHANGED <<opt, pipe, str, out>>,
         mpc' = "pid" <=> mpc = "pid", workload' = "none" <=> workload = "none",
         \/ pc' = pc /\ (pc = "upload" => UNCHANGED next)
         \/ pc \notin {"upload", "exited"} /\ (pc' = "upload" => next' = 0),
         pc = "exited" /\ workload = "ended" =>
           workload' = "ended" /\ (daemon' = "none" => daemon = "none" /\ kernel'.points = kernel.points)
  PROVE  StreamInv'
<1>1. InPipe' = InPipe
  BY DEF InPipe
<1>2. Stream' = Stream
  BY <1>1 DEF Stream
<1>3. /\ pipe' \in Seq(Symbols) /\ str' \in Seq(Symbols) /\ out' \in Seq(Symbols)
      /\ \A i \in 1..Len(str') : str'[i] # Feed
      /\ mpc' = "pid" => (pipe' # <<>> <=> workload' # "none")
  BY DEF StreamInv
<1>4. QED
  BY <1>2, <1>3, StreamKept

\* The workload is forked and its pid is written.
LEMMA PidWritten ==
  ASSUME Types, PhaseInv, StreamInv, opt.output = "model", fire_cartridge PROVE StreamInv'
<1>1. CASE Fail("fork")
  <2>1. /\ pc = "fork" /\ pc' = "exited" /\ UNCHANGED <<opt, kernel, workload, daemon, pipe, str, out>>
        /\ mpc' = IF mpc = "paused" THEN "check" ELSE mpc
    BY <1>1 DEF Fail, Exit, Monitor, workVars
  <2>2. Grown(kernel, kernel')
    BY <2>1, KernelGrows DEF Types, Updated
  <2>3. QED
    BY <2>1, <2>2, NothingWritten
<1>2. CASE ~Fail("fork")
  <2>1. /\ pc = "fork" /\ pc' = "poll" /\ workload' = "running" /\ pipe' = Append(pipe, Sym("pid", 0))
        /\ UNCHANGED <<opt, kernel, daemon, str, out, mpc>>
    BY <1>2 DEF fire_cartridge, Monitor, consoleVars, mainVars
  <2>2. Grown(kernel, kernel')
    BY <2>1, KernelGrows DEF Types, Updated
  <2>3. mpc = "pid" /\ pipe = <<>>
    BY <2>1 DEF PhaseInv
  <2>4. Sym("pid", 0) \in Symbols
    BY SymbolsAre DEF Texts
  <2>5. pipe' \in Seq(Symbols) /\ pipe' # <<>> /\ Tail(pipe') = <<>>
    BY <2>1, <2>3, <2>4, CatEmpty, AppendProperties, HeadTailAppend
  <2>6. InPipe' = <<>> /\ InPipe = <<>>
    BY <2>1, <2>3, <2>5 DEF InPipe
  <2>7. Stream' = Stream
    BY <2>1, <2>6 DEF Stream
  <2>8. /\ str' \in Seq(Symbols) /\ out' \in Seq(Symbols) /\ \A i \in 1..Len(str') : str'[i] # Feed
    BY <2>1 DEF StreamInv
  <2>9. QED
    BY <2>1, <2>2, <2>5, <2>7, <2>8, StreamKept
<1>3. QED
  BY <1>1, <1>2

\* A line of the model is written, or its end.
LEMMA ModelWritten ==
  ASSUME Types, PhaseInv, StreamInv, opt.output = "model", upload_model PROVE StreamInv'
<1>1. /\ pc = "upload" /\ UNCHANGED <<opt, kernel, workload, daemon, str, out>>
      /\ mpc' = "pid" <=> mpc = "pid"
  BY DEF upload_model, Monitor, Exit, workVars, consoleVars, mainVars
<1>2. /\ workload = "ended" /\ next \in Nat /\ next <= kernel.points + 1 /\ Stream = Written(next)
      /\ kernel.points \in Nat /\ (mpc = "pid" => pipe # <<>>)
      /\ \A i \in 1..Len(str') : str'[i] # Feed
      /\ str' \in Seq(Symbols) /\ out' \in Seq(Symbols)
  BY <1>1, KernelFields DEF PhaseInv, StreamInv, Types
<1>3. CASE next <= kernel.points
  <2> DEFINE t == <<WrittenLine(next), Feed>>
  <2>1. pipe' = pipe \o t /\ pc' = "upload" /\ next' = next + 1
    <3>1. ~(next > kernel.points)
      BY <1>2, <1>3
    <3>2. /\ IF next = 0 THEN Write("aggregate", 0) ELSE Write("state", next)
          /\ pc' = "upload" /\ next' = next + 1
      BY <3>1 DEF upload_model, Monitor
    <3>3. CASE next = 0
      BY <3>2, <3>3 DEF Write, WrittenLine
    <3>4. CASE next # 0
      BY <3>2, <3>4 DEF Write, WrittenLine
    <3>5. QED
      BY <3>2, <3>3, <3>4
  <2>2. t \in Seq(Symbols)
    <3>1. next \in Nat
      BY <1>2
    <3>2. WrittenLine(next) \in Symbols /\ Feed \in Symbols
      BY <3>1, LinesAre
    <3>3. QED
      BY <3>2, SymbolsAre
  <2>3. pipe' \in Seq(Symbols) /\ Stream' = Cat(Stream, t) /\ (mpc = "pid" => pipe' # <<>>)
    <3> HIDE DEF t
    <3>1. QED
      BY <1>1, <1>2, <2>1, <2>2, StreamAppended
  <2>4. Stream' = Written(next')
    BY <1>2, <2>1, <2>3, WrittenGrows
  <2>5. next' \in Nat /\ next' <= kernel'.points + 1
    BY <1>1, <1>2, <1>3, <2>1
  <2>6. QED
    BY <1>1, <1>2, <2>1, <2>3, <2>4, <2>5 DEF StreamInv
<1>4. CASE next > kernel.points
  <2> DEFINE t == <<Sym("seal", 0), Feed, Sym("end", 0), Feed>>
  <2>1. pipe' = pipe \o t /\ pc' = "exited"
    BY SMTT(30), <1>1, <1>2, <1>4 DEF upload_model, Monitor, Exit
  <2>2. t \in Seq(Symbols)
    <3>1. Sym("seal", 0) \in Symbols /\ Sym("end", 0) \in Symbols /\ Feed \in Symbols
      BY SymbolsAre, LinesAre DEF Texts
    <3>2. QED
      BY <3>1
  <2>3. pipe' \in Seq(Symbols) /\ Stream' = Cat(Stream, t) /\ (mpc = "pid" => pipe' # <<>>)
    <3> HIDE DEF t
    <3>1. QED
      BY <1>1, <1>2, <2>1, <2>2, StreamAppended
  <2>4. next = kernel.points + 1
    BY <1>2, <1>4
  <2>5. Stream' = ModelOf(kernel.points)
    BY <1>2, <2>3, <2>4, WrittenEnds
  <2>6. kernel.points \in 0..kernel'.points
    BY <1>1, <1>2
  <2>7. Whole'
    BY <1>1, <1>2, <2>5, <2>6 DEF Whole
  <2>8. QED
    BY <1>1, <1>2, <2>1, <2>3, <2>7 DEF StreamInv
<1>5. QED
  BY <1>2, <1>3, <1>4

\* An upload that fails leaves what it has written.
LEMMA UploadFailed ==
  ASSUME Types, StreamInv, opt.output = "model", upload_fails PROVE StreamInv'
<1>1. /\ pc = "upload" /\ pc' = "exited" /\ UNCHANGED <<opt, kernel, workload, daemon, pipe, str, out>>
      /\ mpc' = "pid" <=> mpc = "pid"
  BY DEF upload_fails, Exit, Monitor, workVars
<1>2. /\ next \in Nat /\ next <= kernel.points + 1 /\ Stream = Written(next)
      /\ kernel.points \in Nat
  BY <1>1, KernelFields DEF StreamInv, Types
<1>3. Stream' = Stream
  BY <1>1 DEF Stream, InPipe
<1>4. next \in 0..(kernel'.points + 1)
  BY <1>1, <1>2
<1>5. Begun'
  BY <1>2, <1>3, <1>4 DEF Begun
<1>6. QED
  BY <1>1, <1>5 DEF StreamInv

LEMMA StreamStep ==
  ASSUME Types, PhaseInv, StreamInv, [Next]_vars PROVE StreamInv'
<1>0. Grown(kernel, kernel') /\ UNCHANGED opt
  BY KernelStep
<1> SUFFICES ASSUME opt.output = "model" PROVE StreamInv'
  BY <1>0 DEF StreamInv
<1>1. CASE MonitorNext
  <2>1. CASE fire_cartridge
    BY <2>1, PidWritten
  <2>2. CASE upload_model
    BY <2>2, ModelWritten
  <2>3. CASE upload_trajectory
    BY <2>3 DEF upload_trajectory, Trajectory
  <2>4. CASE setup_namespace \/ load \/ load_model \/ poll \/ poll_returns \/ check_stop
             \/ check_sigchild \/ check_poll
    <3>1. /\ UNCHANGED <<pipe, str, out>> /\ (mpc' = "pid" <=> mpc = "pid")
          /\ workload' = "none" <=> workload = "none"
      BY <2>4 DEF setup_namespace, load, load_model, poll, poll_returns, check_stop, check_sigchild, check_poll,
         Terminate, kill_cartridge, Alive, Monitor, Fail, Exit, workVars, mainVars
    <3>2. pc \notin {"upload", "exited"} /\ (pc' = "upload" => next' = 0)
      BY <2>4 DEF setup_namespace, load, load_model, poll, poll_returns, check_stop, check_sigchild, check_poll,
         Monitor, Fail, Exit
    <3>3. QED
      BY <1>0, <3>1, <3>2, NothingWritten
  <2>5. CASE accept_connection \/ receive_end \/ process_command \/ illegal_command \/ seal_domain
             \/ send_count \/ send_line \/ sent
    <3>1. /\ UNCHANGED <<pipe, str, out>> /\ (mpc' = "pid" <=> mpc = "pid")
          /\ UNCHANGED workload
      BY <2>5 DEF accept_connection, receive_end, process_command, illegal_command, seal_domain,
         send_count, send_line, sent, Serve, Monitor, Exit, workVars, mainVars
    <3>2. pc \notin {"upload", "exited"} /\ pc' # "upload"
      BY <2>5 DEF accept_connection, receive_end, process_command, illegal_command, seal_domain,
         send_count, send_line, sent, Serve, Monitor, Exit
    <3>3. QED
      BY <1>0, <3>1, <3>2, NothingWritten
  <2>6. QED
    BY <1>1, <2>1, <2>2, <2>3, <2>4, <2>5 DEF MonitorNext
<1>2. CASE MainNext
  <2>0. /\ UNCHANGED <<kernel, pc, next, daemon>> /\ UNCHANGED <<pc, next>>
        /\ workload' \in {workload, IF Alive THEN "dying" ELSE workload}
    BY <1>2 DEF MainNext, read_pid, receive_model, receive_trajectory, receive_ends, pause, check_monitor,
       kill_cartridge, Main, monitorVars
  <2>1. pc = "exited" /\ workload = "ended" =>
          workload' = "ended" /\ (daemon' = "none" => daemon = "none" /\ kernel'.points = kernel.points)
    BY <2>0 DEF Alive
  <2>2. CASE read_pid
    <3>1. /\ mpc = "pid" /\ mpc' = "receive" /\ UNCHANGED <<str, out>>
          /\ pipe' = IF pipe # <<>> THEN Tail(pipe) ELSE pipe
      BY <2>2 DEF read_pid, Main, AfterPid, Pause
    <3>2. InPipe' = InPipe /\ pipe' = InPipe
      BY <3>1 DEF InPipe
    <3>3. Stream' = Stream
      BY <3>1, <3>2 DEF Stream
    <3>4. /\ pipe' \in Seq(Symbols) /\ str' \in Seq(Symbols) /\ out' \in Seq(Symbols)
          /\ \A i \in 1..Len(str') : str'[i] # Feed
      BY <3>1, CatHead DEF StreamInv
    <3>5. QED
      BY <1>0, <2>0, <2>1, <3>1, <3>3, <3>4, StreamKept
  <2>3. CASE receive_model
    <3>1. /\ pipe' \in Seq(Symbols) /\ str' \in Seq(Symbols) /\ out' \in Seq(Symbols)
          /\ \A i \in 1..Len(str') : str'[i] # Feed
          /\ Stream' = Stream
      BY <2>3, StreamReceived
    <3>2. mpc' # "pid"
      BY <2>3 DEF receive_model, Main
    <3>3. QED
      BY <1>0, <2>0, <2>1, <3>1, <3>2, StreamKept
  <2>4. CASE receive_trajectory
    BY <2>4 DEF receive_trajectory, Trajectory
  <2>5. CASE receive_ends \/ pause \/ check_monitor
    <3>1. /\ UNCHANGED <<pipe, str, out>> /\ (mpc' = "pid" <=> mpc = "pid")
      BY <2>5 DEF receive_ends, pause, check_monitor, Main
    <3>2. workload' = "none" <=> workload = "none"
      BY <2>0 DEF Alive
    <3>3. QED
      BY <1>0, <2>0, <2>1, <3>1, <3>2, NothingWritten
  <2>6. QED
    BY <1>2, <2>2, <2>3, <2>4, <2>5 DEF MainNext
<1>3. CASE Event \/ WorkloadEnds \/ DaemonEnds \/ WorkloadStops \/ WorkloadContinues
           \/ Interrupt \/ Ask \/ AskFails
  <2>1. /\ UNCHANGED <<pipe, str, out, pc, next>> /\ (mpc' = "pid" <=> mpc = "pid")
        /\ workload' = "none" <=> workload = "none"
    BY <1>3 DEF Event, WorkloadEnds, DaemonEnds, WorkloadStops, WorkloadContinues, Interrupt, Ask, AskFails,
       SigChild, Quiet, monitorVars, workVars, mainVars
  <2>2. workload = "ended" =>
          workload' = "ended" /\ (daemon' = "none" => daemon = "none" /\ kernel' = kernel)
    BY <1>3 DEF Event, WorkloadEnds, DaemonEnds, WorkloadStops, WorkloadContinues, Interrupt, Ask, AskFails,
       SigChild, Quiet, workVars
  <2>3. QED
    BY <1>0, <2>1, <2>2, NothingWritten
<1>4. CASE UNCHANGED vars
  <2>1. UNCHANGED <<pipe, str, out, mpc, workload, daemon, kernel, pc, next>>
    BY <1>4 DEF vars, monitorVars, workVars, mainVars
  <2>2. QED
    BY <1>0, <2>1, NothingWritten
<1>5. CASE monitor_fails \/ receive_fails
  <2>1. /\ UNCHANGED <<pipe, str, out, workload, daemon, kernel>> /\ (mpc' = "pid" <=> mpc = "pid")
        /\ \/ UNCHANGED <<pc, next>>
           \/ pc \notin {"upload", "exited"} /\ pc' = "exited"
    BY <1>5 DEF monitor_fails, receive_fails, Fail, Exit, Monitor, Main, monitorVars, workVars
  <2>2. QED
    BY <1>0, <2>1, NothingWritten
<1>6. CASE upload_fails
  BY <1>6, UploadFailed
<1>7. QED
  BY <1>1, <1>2, <1>3, <1>4, <1>5, <1>6 DEF Next

LEMMA InitStream == Init => StreamInv
<1> SUFFICES ASSUME Init PROVE StreamInv
  OBVIOUS
<1>1. /\ pipe = <<>> /\ str = <<>> /\ out = <<>> /\ mpc = "pid" /\ workload = "none" /\ pc = "setup"
  BY DEF Init
<1>2. InPipe = <<>>
  BY <1>1 DEF InPipe
<1>3. <<>> \in Seq(Symbols) /\ Len(<<>>) = 0
  BY CatEmpty
<1>4. Stream = <<>>
  BY <1>1, <1>2, <1>3, CatEmpty DEF Stream
<1>5. \A i \in 1..Len(str) : str[i] # Feed
  BY <1>1, <1>3
<1>6. QED
  BY <1>1, <1>3, <1>4, <1>5 DEF StreamInv

-----------------------------------------------------------------------------
(* The lists of the agent.                                                 *)

\* Induction over the naturals, for a set of them: a set that lacks a number has
\* an initial segment of the naturals that is minimal among those it lacks.
LEMMA InductionOverNat ==
  ASSUME NEW S, S \subseteq Nat, 0 \in S, \A n \in S : n + 1 \in S
  PROVE  S = Nat
<1> DEFINE F == {0..n : n \in Nat \ S}
<1>1. ASSUME F # {} PROVE FALSE
  <2>1. F \subseteq FiniteSubsetsOf(Nat)
    <3>1. ASSUME NEW n \in Nat PROVE 0..n \in FiniteSubsetsOf(Nat)
      BY FS_Interval DEF FiniteSubsetsOf
    <3>2. QED
      BY <3>1
  <2>2. PICK x \in F : \A y \in F : <<y, x>> \notin StrictSubsetOrdering(Nat)
    BY <1>1, <2>1, FS_StrictSubsetOrderingWellFounded, WFMin
  <2>3. PICK n \in Nat \ S : x = 0..n
    OBVIOUS
  <2>4. n # 0 /\ n - 1 \in Nat /\ n - 1 + 1 = n
    BY <2>3
  <2>5. n - 1 \notin S
    BY <2>4
  <2>6. 0..(n - 1) \in F
    BY <2>4, <2>5
  <2>7. <<0..(n - 1), 0..n>> \in StrictSubsetOrdering(Nat)
    BY <2>4 DEF StrictSubsetOrdering
  <2>8. QED
    BY <2>2, <2>3, <2>6, <2>7
<1>2. QED
  BY <1>1

\* The k numbers after a.
After(a, k) == [i \in 1..k |-> a + i]

LEMMA AfterIs ==
  ASSUME NEW a \in Nat, NEW k \in Nat
  PROVE  After(a, k) \in Seq(Nat) /\ Len(After(a, k)) = k /\ DOMAIN After(a, k) = 1..k
<1>1. \A i \in 1..k : a + i \in Nat
  OBVIOUS
<1>2. After(a, k) \in [1..k -> Nat]
  BY <1>1 DEF After
<1>3. QED
  BY <1>2 DEF After

LEMMA AfterGrows ==
  ASSUME NEW a \in Nat, NEW k \in Nat
  PROVE  Append(After(a, k), a + k + 1) = After(a, k + 1)
<1> DEFINE s == Append(After(a, k), a + k + 1)  t == After(a, k + 1)
<1>1. /\ After(a, k) \in Seq(Nat) /\ Len(After(a, k)) = k
      /\ t \in Seq(Nat) /\ Len(t) = k + 1
  <2>1. k + 1 \in Nat
    OBVIOUS
  <2>2. QED
    BY <2>1, AfterIs
<1>2. a + k + 1 \in Nat
  OBVIOUS
<1>3. /\ s \in Seq(Nat) /\ Len(s) = k + 1 /\ s[k + 1] = a + k + 1
      /\ \A i \in 1..k : s[i] = After(a, k)[i]
  BY <1>1, <1>2, AppendProperties
<1>4. ASSUME NEW i \in 1..(k + 1) PROVE s[i] = t[i]
  <2>1. t[i] = a + i
    BY DEF After
  <2>2. CASE i \in 1..k
    <3>1. After(a, k)[i] = a + i
      BY <2>2 DEF After
    <3>2. s[i] = After(a, k)[i]
      BY <1>3, <2>2
    <3>3. QED
      BY <2>1, <3>1, <3>2
  <2>3. CASE i = k + 1
    <3>1. s[i] = a + k + 1
      BY <1>3, <2>3
    <3>2. QED
      <4>1. a + i = a + k + 1
        BY <2>3
      <4>2. QED
        BY <2>1, <3>1, <4>1
  <2>4. QED
    <3>1. i \in 1..k \/ i = k + 1
      OBVIOUS
    <3>2. QED
      BY <2>2, <2>3, <3>1
<1> HIDE DEF s, t
<1>5. s = t
  BY <1>1, <1>3, <1>4, SeqEqual
<1>6. QED
  BY <1>5 DEF s, t

\* The loop of a list over the first n points.
Loop(f, type, n) ==
  f = [i \in 0..n |-> IF i = 0 THEN <<>>
                      ELSE IF points[i] = type THEN Append(f[i - 1], i) ELSE f[i - 1]]

LEMMA LoopExists ==
  ASSUME NEW type
  PROVE  \A n \in Nat : \E f : Loop(f, type, n)
<1> DEFINE S == {n \in Nat : \E f : Loop(f, type, n)}
<1>1. 0 \in S
  <2> DEFINE f == [i \in 0..0 |-> <<>>]
  <2>1. Loop(f, type, 0)
    BY DEF Loop
  <2>2. QED
    BY <2>1
<1>2. ASSUME NEW n \in S PROVE n + 1 \in S
  <2>1. PICK f : Loop(f, type, n)
    BY <1>2
  <2> DEFINE last == IF points[n + 1] = type THEN Append(f[n], n + 1) ELSE f[n]
             g == [i \in 0..(n + 1) |-> IF i = n + 1 THEN last ELSE f[i]]
  <2>2. n \in Nat
    OBVIOUS
  <2>3. ASSUME NEW i \in 0..(n + 1)
        PROVE  g[i] = IF i = 0 THEN <<>>
                      ELSE IF points[i] = type THEN Append(g[i - 1], i) ELSE g[i - 1]
    <3>1. CASE i = n + 1
      <4>1. g[i] = last /\ g[i - 1] = f[n] /\ i # 0
        BY <2>2, <3>1
      <4>2. QED
        BY <3>1, <4>1
    <3>2. CASE i # n + 1
      <4>1. i \in 0..n
        BY <2>2, <3>2
      <4>2. g[i] = f[i] /\ (i # 0 => g[i - 1] = f[i - 1])
        BY <2>2, <4>1
      <4>3. f[i] = IF i = 0 THEN <<>>
                   ELSE IF points[i] = type THEN Append(f[i - 1], i) ELSE f[i - 1]
        BY <2>1, <4>1 DEF Loop
      <4>4. QED
        BY <4>2, <4>3
    <3>3. QED
      BY <3>1, <3>2
  <2>4. Loop(g, type, n + 1)
    <3>1. g = [i \in 0..(n + 1) |-> g[i]]
      OBVIOUS
    <3> HIDE DEF g
    <3>2. QED
      BY <2>3, <3>1 DEF Loop
  <2>5. QED
    BY <2>2, <2>4
<1>3. S = Nat
  <2> HIDE DEF S
  <2>1. S \subseteq Nat
    BY DEF S
  <2>2. QED
    BY <1>1, <1>2, <2>1, InductionOverNat
<1>4. QED
  BY <1>3

\* A step of the loop.
LEMMA LoopStep ==
  ASSUME NEW f, NEW type, NEW n \in Nat, Loop(f, type, n)
  PROVE  \A i \in 1..n : f[i] = IF points[i] = type THEN Append(f[i - 1], i) ELSE f[i - 1]
<1>1. \A i \in 1..n : i \in 0..n /\ i # 0
  OBVIOUS
<1>2. QED
  BY <1>1 DEF Loop

\* What has been chosen of the first i points, when the points of the type are
\* those after a up to b.
Chosen(a, b, i) == After(a, IF i <= a THEN 0 ELSE IF i <= b THEN i - a ELSE b - a)

\* The points of a type are listed in order, when they are next to one another.
LEMMA ClassIs ==
  ASSUME points \in Seq(BOOLEAN), NEW type \in BOOLEAN, NEW a \in Nat, NEW b \in Nat, a <= b,
         b <= Len(points), \A i \in 1..Len(points) : points[i] = type <=> a < i /\ i <= b
  PROVE  Link!Class(type) = After(a, b - a)
<1> DEFINE n == Len(points)
<1>1. n \in Nat
  BY LenProperties
<1>2. PICK f : Loop(f, type, n) /\ Link!Class(type) = f[n]
  <2>1. \E f : Loop(f, type, n)
    BY <1>1, LoopExists
  <2>2. QED
    BY <2>1 DEF Link!Class, Loop
<1> HIDE DEF n
<1> DEFINE S == {i \in Nat : i <= n => f[i] = Chosen(a, b, i)}
<1>3. 0 \in S
  <2>1. f[0] = <<>>
    BY <1>1, <1>2 DEF Loop
  <2>2. After(a, 0) = <<>>
    BY DEF After
  <2>3. QED
    BY <2>1, <2>2 DEF Chosen
<1>4. ASSUME NEW i \in S PROVE i + 1 \in S
  <2>1. CASE i + 1 <= n
    <3>1. i \in Nat /\ i <= n /\ i + 1 \in 0..n /\ i + 1 \in 1..n /\ i + 1 - 1 = i /\ i + 1 # 0
      BY <1>1, <2>1
    <3>2. f[i] = Chosen(a, b, i)
      BY <1>4, <3>1
    <3>3. f[i + 1] = IF points[i + 1] = type THEN Append(f[i], i + 1) ELSE f[i]
      <4>1. f[i + 1] = IF points[i + 1] = type THEN Append(f[i + 1 - 1], i + 1) ELSE f[i + 1 - 1]
        BY <1>1, <1>2, <3>1, LoopStep
      <4>2. QED
        BY <3>1, <4>1
    <3>4. points[i + 1] = type <=> a < i + 1 /\ i + 1 <= b
      BY <3>1 DEF n
    <3>5. CASE a < i + 1 /\ i + 1 <= b
      <4>1. /\ Chosen(a, b, i) = After(a, i - a) /\ Chosen(a, b, i + 1) = After(a, i - a + 1)
            /\ i - a \in Nat /\ a + (i - a) + 1 = i + 1
        <5>1. i - a \in Nat /\ a + (i - a) + 1 = i + 1 /\ i + 1 - a = i - a + 1
          BY <3>1, <3>5
        <5>2. i <= a => i - a = 0
          BY <3>1, <3>5
        <5>3. i <= b /\ i + 1 <= b /\ ~(i + 1 <= a)
          BY <3>1, <3>5
        <5>4. QED
          BY <5>1, <5>2, <5>3 DEF Chosen
      <4>2. Append(After(a, i - a), a + (i - a) + 1) = After(a, i - a + 1)
        BY <4>1, AfterGrows
      <4>3. f[i + 1] = After(a, i - a + 1)
        BY <3>2, <3>3, <3>4, <3>5, <4>1, <4>2
      <4>4. QED
        BY <4>1, <4>3, <3>1
    <3>6. CASE ~(a < i + 1 /\ i + 1 <= b)
      <4>1. Chosen(a, b, i + 1) = Chosen(a, b, i)
        <5>1. CASE i + 1 <= a
          BY <3>1, <5>1 DEF Chosen
        <5>2. CASE i >= b
          <6>1. i <= a => b = a /\ i = a /\ b - a = 0
            BY <3>1, <5>2
          <6>2. i <= b => i = b
            BY <3>1, <5>2
          <6>3. ~(i + 1 <= b)
            BY <3>1, <5>2
          <6>4. i + 1 <= a => FALSE
            BY <3>1, <5>2
          <6>5. QED
            BY <6>1, <6>2, <6>3, <6>4 DEF Chosen
        <5>3. QED
          BY <3>1, <3>6, <5>1, <5>2
      <4>2. QED
        BY <3>1, <3>2, <3>3, <3>4, <3>6, <4>1
    <3>7. QED
      BY <3>5, <3>6
  <2>2. CASE ~(i + 1 <= n)
    BY <2>2
  <2>3. QED
    BY <2>1, <2>2
<1>5. S = Nat
  <2> HIDE DEF S
  <2>1. S \subseteq Nat
    BY DEF S
  <2>2. QED
    BY <1>3, <1>4, <2>1, InductionOverNat
<1>6. f[n] = Chosen(a, b, n)
  BY <1>1, <1>5
<1>7. Chosen(a, b, n) = After(a, b - a)
  <2>1. n <= a => b - a = 0
    BY <1>1 DEF n
  <2>2. n <= b => n = b
    BY <1>1 DEF n
  <2>3. QED
    BY <2>1, <2>2 DEF Chosen
<1>8. QED
  BY <1>2, <1>6, <1>7

LEMMA LinkCardinality == \A S : Link!Cardinality(S) = Cardinality(S)
BY DEF Cardinality, Link!Cardinality

\* The numbers of an interval in order.
LEMMA InOrderIs ==
  ASSUME NEW a \in Nat, NEW b \in Nat, a <= b
  PROVE  Link!InOrder((a + 1)..b) = After(a, b - a)
<1> DEFINE set == (a + 1)..b
<1>1. Link!Cardinality(set) = b - a /\ b - a \in Nat
  <2>1. Link!Cardinality((a + 1)..b) = IF a + 1 > b THEN 0 ELSE b - (a + 1) + 1
    BY FS_Interval, LinkCardinality
  <2>2. QED
    BY <2>1
<1>2. ASSUME NEW n \in set PROVE Link!Cardinality({m \in set : m <= n}) = n - a
  <2>1. {m \in set : m <= n} = (a + 1)..n
    OBVIOUS
  <2>2. Link!Cardinality((a + 1)..n) = IF a + 1 > n THEN 0 ELSE n - (a + 1) + 1
    BY FS_Interval, LinkCardinality
  <2>3. QED
    <3>1. ~(a + 1 > n) /\ n - (a + 1) + 1 = n - a
      OBVIOUS
    <3>2. QED
      BY <2>1, <2>2, <3>1
<1>3. ASSUME NEW i \in 1..(b - a)
      PROVE  (CHOOSE n \in set : Link!Cardinality({m \in set : m <= n}) = i) = a + i
  <2>1. a + i \in set /\ a + i - a = i
    BY <1>1
  <2>2. \A n \in set : Link!Cardinality({m \in set : m <= n}) = i <=> n = a + i
    <3>1. \A n \in set : n - a = i <=> n = a + i
      BY <1>1
    <3>2. QED
      BY <1>2, <3>1
  <2> DEFINE P(n) == Link!Cardinality({m \in set : m <= n}) = i
  <2>3. (CHOOSE n \in set : P(n)) = a + i
    <3> HIDE DEF set
    <3>1. \A n \in set : P(n) <=> n = a + i
      BY <2>2
    <3> HIDE DEF P
    <3>2. QED
      BY <2>1, <3>1
  <2>4. QED
    BY <2>3
<1>4. QED
  <2> DEFINE pick(i) == CHOOSE n \in set : Link!Cardinality({m \in set : m <= n}) = i
  <2> HIDE DEF set
  <2>1. Link!InOrder(set) = [i \in 1..Link!Cardinality(set) |-> pick(i)]
    BY DEF Link!InOrder
  <2>2. \A i \in 1..(b - a) : pick(i) = a + i
    BY <1>3
  <2> HIDE DEF pick
  <2>3. Link!InOrder(set) = [i \in 1..(b - a) |-> a + i]
    BY <1>1, <2>1, <2>2
  <2>4. QED
    BY <2>3 DEF After, set

-----------------------------------------------------------------------------
(* The answers.                                                            *)

\* A message of the connection of a console.
Words == {"value", "event", "log", "point", "count", "aggregate", "seal", "end"}

Messages == [count : Nat] \cup [text : Words, n : Nat]

Shown == {"C", "E", "F", "M", "P", "S", "T"}

\* The number of the command of an option.
CommandOf(o) ==
  CASE o = "S" -> 7 [] o = "T" -> 8 [] o = "C" -> 9 [] o = "P" -> 10
    [] o = "F" -> 13 [] o = "E" -> 14 [] o = "M" -> 15

\* The places of the commands in the table.
LEMMA TableIs ==
  /\ DOMAIN Link!Sancho_cmd_list = 0..16
  /\ \A n \in 0..16 : /\ Link!Sancho_cmd_list[n].command = n + 1
                      /\ Link!Sancho_cmd_list[n].syntax = Link!Syntax[n + 1]
<1>1. Len(Link!Syntax) = 17
  BY DEF Link!Syntax
<1>2. QED
  BY <1>1 DEF Link!Sancho_cmd_list

\* No two commands have one name.
LEMMA NamesDiffer ==
  ASSUME NEW n \in 0..16
  PROVE  /\ Link!Syntax[n + 1] = "show state" <=> n = 6
         /\ Link!Syntax[n + 1] = "show trajectory" <=> n = 7
         /\ Link!Syntax[n + 1] = "show counts" <=> n = 8
         /\ Link!Syntax[n + 1] = "show coefficients" <=> n = 9
         /\ Link!Syntax[n + 1] = "show forensics" <=> n = 12
         /\ Link!Syntax[n + 1] = "show events" <=> n = 13
         /\ Link!Syntax[n + 1] = "show map" <=> n = 14
<1>1. \/ n = 0 \/ n = 1 \/ n = 2 \/ n = 3 \/ n = 4 \/ n = 5 \/ n = 6 \/ n = 7 \/ n = 8 \/ n = 9
      \/ n = 10 \/ n = 11 \/ n = 12 \/ n = 13 \/ n = 14 \/ n = 15 \/ n = 16
  OBVIOUS
<1>2. /\ Link!Syntax[0 + 1] = "export" /\ Link!Syntax[1 + 1] = "aggregate"
      /\ Link!Syntax[2 + 1] = "seal" /\ Link!Syntax[3 + 1] = "log" /\ Link!Syntax[4 + 1] = "load"
      /\ Link!Syntax[5 + 1] = "show measurement" /\ Link!Syntax[6 + 1] = "show state"
      /\ Link!Syntax[7 + 1] = "show trajectory" /\ Link!Syntax[8 + 1] = "show counts"
      /\ Link!Syntax[9 + 1] = "show coefficients" /\ Link!Syntax[10 + 1] = "show forensics_counts"
      /\ Link!Syntax[11 + 1] = "show forensics_coefficients" /\ Link!Syntax[12 + 1] = "show forensics"
      /\ Link!Syntax[13 + 1] = "show events" /\ Link!Syntax[14 + 1] = "show map"
      /\ Link!Syntax[15 + 1] = "enable cellular" /\ Link!Syntax[16 + 1] = "reset"
  BY DEF Link!Syntax
<1>3. QED
  BY ZenonT(60), <1>1, <1>2

\* A command is found by its name.
LEMMA FoundByName ==
  ASSUME NEW name, NEW k \in 0..16, \A n \in 0..16 : Link!Syntax[n + 1] = name <=> n = k
  PROVE  Link!Command(name) = k + 1
<1>1. \A n \in 0..16 : Link!Sancho_cmd_list[n].syntax = name <=> n = k
  BY TableIs
<1>2. (CHOOSE n \in DOMAIN Link!Sancho_cmd_list : Link!Sancho_cmd_list[n].syntax = name) = k
  BY <1>1, TableIs
<1>3. QED
  BY <1>2, TableIs DEF Link!Command

\* The table leads an option to the command that shows what is asked for.
LEMMA CommandIs ==
  ASSUME NEW o \in Shown
  PROVE  Link!Command(Link!process_oneshot(o)) = CommandOf(o) /\ CommandOf(o) \in Nat \ {0}
<1> DEFINE k == CommandOf(o) - 1
<1>1. k \in 0..16 /\ k + 1 = CommandOf(o) /\ CommandOf(o) \in Nat \ {0}
  BY DEF CommandOf, Shown
<1>2. Link!process_oneshot(o) = Link!Sancho_cmd_list[k].syntax
  BY DEF CommandOf, Shown, Link!process_oneshot, Link!show_state, Link!show_trajectory,
     Link!show_counts, Link!show_coefficients, Link!show_forensics, Link!show_events, Link!show_map
<1>3. k = 6 \/ k = 7 \/ k = 8 \/ k = 9 \/ k = 12 \/ k = 13 \/ k = 14
  BY DEF CommandOf, Shown
<1> HIDE DEF k
<1>4. Link!process_oneshot(o) = Link!Syntax[k + 1]
  BY <1>1, <1>2, TableIs
<1> DEFINE name(n) == Link!Syntax[n + 1]
<1>5. \A n \in 0..16 : /\ name(n) = "show state" <=> n = 6
                       /\ name(n) = "show trajectory" <=> n = 7
                       /\ name(n) = "show counts" <=> n = 8
                       /\ name(n) = "show coefficients" <=> n = 9
                       /\ name(n) = "show forensics" <=> n = 12
                       /\ name(n) = "show events" <=> n = 13
                       /\ name(n) = "show map" <=> n = 14
  BY NamesDiffer
<1>6. \A n \in 0..16 : Link!Syntax[n + 1] = Link!Syntax[k + 1] <=> n = k
  <2> HIDE DEF name
  <2>1. \E text : name(k) = text /\ \A n \in 0..16 : name(n) = text <=> n = k
    BY ZenonT(60), <1>1, <1>3, <1>5
  <2>2. \A n \in 0..16 : name(n) = name(k) <=> n = k
    BY <2>1
  <2>3. QED
    BY <2>2 DEF name
<1>7. QED
  BY <1>1, <1>4, <1>6, FoundByName

LEMMA LinesSent ==
  ASSUME NEW text \in Words, NEW list \in Seq(Nat)
  PROVE  Link!Lines(text, list) \in Seq(Messages) /\ Len(Link!Lines(text, list)) = Len(list)
<1>1. /\ Len(list) \in Nat /\ DOMAIN list = 1..Len(list)
      /\ \A i \in 1..Len(list) : list[i] \in Nat
  BY LenProperties
<1>2. \A i \in 1..Len(list) : Link!Line(text, list[i]) \in Messages
  BY <1>1 DEF Messages, Link!Line
<1>3. Link!Lines(text, list) = [i \in 1..Len(list) |-> Link!Line(text, list[i])]
  BY <1>1 DEF Link!Lines
<1> DEFINE s == Link!Lines(text, list)
<1>4. s \in [1..Len(list) -> Messages]
  BY <1>2, <1>3
<1> HIDE DEF s
<1>5. s \in Seq(Messages) /\ Len(s) = Len(list)
  BY <1>1, <1>4
<1>6. QED
  BY <1>5 DEF s

\* The points are what was valid before the domain was sealed, and then what was
\* not, and the forensics are the latter.
Parted(p, f, s) ==
  \E n \in 0..Len(p) : /\ \A i \in 1..Len(p) : p[i] <=> i <= n
                       /\ f = After(n, Len(p) - n)
                       /\ ~s => n = Len(p)

AgentInv ==
  /\ points \in Seq(BOOLEAN) /\ sealed \in BOOLEAN /\ tevents \in Nat
  /\ {trajectory, forensics} \subseteq Seq(Nat)
  /\ Parted(points, forensics, sealed)

\* A list as it is sent: its length first.
Counted(m, list) == list \in Seq(Messages) /\ m = Cat(<<Link!Count(Len(list))>>, list)

\* What is chosen of the points is what a reader expects, and as long as it is
\* announced, which is found in another way.
LEMMA PointsListed ==
  ASSUME AgentInv
  PROVE  LET valid == {i \in DOMAIN points : points[i]}
             rest  == (DOMAIN points) \ valid
         IN  /\ Link!InOrder(valid) \in Seq(Nat)
             /\ Link!Class(TRUE) = Link!InOrder(valid)
             /\ Link!Announced(TRUE) = Len(Link!InOrder(valid))
             /\ forensics = Link!InOrder(rest)
<1> DEFINE valid == {i \in DOMAIN points : points[i]}  rest == (DOMAIN points) \ valid  m == Len(points)
<1>1. m \in Nat /\ DOMAIN points = 1..m
  BY LenProperties DEF AgentInv
<1>2. PICK n \in 0..m : /\ \A i \in 1..m : points[i] <=> i <= n
                        /\ forensics = After(n, m - n)
  BY DEF AgentInv, Parted
<1>3. n \in Nat /\ m - n \in Nat /\ n <= m /\ 0 <= n /\ 0 \in Nat
  BY <1>1
<1>4. valid = 1..n /\ rest = (n + 1)..m
  <2>1. valid = 1..n
    BY <1>1, <1>2, <1>3
  <2>2. QED
    BY <1>1, <1>3, <2>1
<1> HIDE DEF m, valid
<1>5. Link!Class(TRUE) = After(0, n - 0)
  <2>1. \A i \in 1..Len(points) : points[i] = TRUE <=> 0 < i /\ i <= n
    <3>1. \A i \in 1..m : points[i] \in BOOLEAN /\ 0 < i
      <4>1. \A i \in 1..Len(points) : points[i] \in BOOLEAN
        BY ElementOfSeq DEF AgentInv
      <4>2. QED
        BY <1>1, <4>1 DEF m
    <3>2. QED
      BY <1>2, <3>1 DEF m
  <2>2. points \in Seq(BOOLEAN) /\ n <= Len(points) /\ TRUE \in BOOLEAN
    BY <1>3 DEF m, AgentInv
  <2>3. QED
    BY <1>3, <2>1, <2>2, ClassIs
<1>6. Link!InOrder((0 + 1)..n) = After(0, n - 0) /\ Link!InOrder((n + 1)..m) = After(n, m - n)
  BY <1>1, <1>3, InOrderIs
<1>7. n - 0 = n /\ 0 + 1 = 1
  BY <1>3
<1>8. After(0, n) \in Seq(Nat) /\ Len(After(0, n)) = n /\ Len(After(n, m - n)) = m - n
  BY <1>3, AfterIs
<1>9. Link!Announced(TRUE) = n
  <2>1. Link!Announced(TRUE) = m - Len(forensics)
    BY DEF Link!Announced, m
  <2>2. Len(forensics) = m - n
    BY <1>2, <1>8
  <2>3. m - (m - n) = n
    BY <1>1, <1>3
  <2>4. QED
    BY <2>1, <2>2, <2>3
<1>10. Link!InOrder(valid) = After(0, n) /\ Link!Class(TRUE) = After(0, n)
  BY <1>4, <1>5, <1>6, <1>7
<1>11. forensics = Link!InOrder(rest)
  BY <1>2, <1>4, <1>6
<1>12. QED
  BY <1>8, <1>9, <1>10, <1>11 DEF valid

\* What is sent of a list, and of the points.
LEMMA ListSent ==
  ASSUME NEW text \in Words, NEW list \in Seq(Nat)
  PROVE  Counted(Link!SendList(text, list), Link!Lines(text, list))
BY LinesSent DEF Counted, Cat, Link!SendList

LEMMA PointsSent ==
  ASSUME AgentInv
  PROVE  LET list == Link!InOrder({i \in DOMAIN points : points[i]})
         IN  /\ Counted(Link!send_trajectory_coefficients(TRUE), Link!Lines("point", list))
             /\ Counted(Link!send_trajectory_counts(TRUE), Link!Lines("count", list))
<1> DEFINE list == Link!InOrder({i \in DOMAIN points : points[i]})
<1>1. list \in Seq(Nat) /\ Link!Class(TRUE) = list /\ Link!Announced(TRUE) = Len(list)
  BY PointsListed
<1> HIDE DEF list
<1>2. \A text \in Words :
        Link!Lines(text, list) \in Seq(Messages) /\ Len(Link!Lines(text, list)) = Len(list)
  BY <1>1, LinesSent
<1>3. "point" \in Words /\ "count" \in Words
  BY DEF Words
<1>4. Counted(Link!send_trajectory_coefficients(TRUE), Link!Lines("point", list))
  BY <1>1, <1>2, <1>3 DEF Counted, Cat, Link!send_trajectory_coefficients
<1>5. Counted(Link!send_trajectory_counts(TRUE), Link!Lines("count", list))
  BY <1>1, <1>2, <1>3 DEF Counted, Cat, Link!send_trajectory_counts
<1>6. QED
  BY <1>4, <1>5 DEF list

Finish == <<Link!Line("seal", 0), Link!Line("end", 0)>>

Aggregate == <<Link!Line("aggregate", 0)>>

\* The answers to the commands.
LEMMA AnswersAre ==
  /\ Link!Answer(7) = <<Link!Line("value", 7)>>
  /\ Link!Answer(8) = Link!SendList("event", trajectory)
  /\ Link!Answer(9) = Link!send_trajectory_counts(TRUE)
  /\ Link!Answer(10) = Link!send_trajectory_coefficients(TRUE)
  /\ Link!Answer(13) = Link!SendList("event", forensics)
  /\ Link!Answer(14) = Link!SendList("log", [i \in 1..tevents |-> i])
  /\ Link!Answer(15) = Cat(Aggregate, Link!send_trajectory_coefficients(TRUE))
<1> USE DEF Link!Answer, Link!Single, Link!seal_event, Link!show_measurement, Link!show_state,
           Link!show_trajectory, Link!show_counts, Link!show_coefficients, Link!show_forensics,
           Link!show_forensics_coefficients, Link!show_forensics_counts, Link!show_events, Link!show_map
<1>1. Link!Answer(7) = <<Link!Line("value", 7)>>
  OBVIOUS
<1>2. Link!Answer(8) = Link!SendList("event", trajectory)
  BY DEF Link!send_trajectory
<1>3. Link!Answer(9) = Link!send_trajectory_counts(TRUE)
  OBVIOUS
<1>4. Link!Answer(10) = Link!send_trajectory_coefficients(TRUE)
  OBVIOUS
<1>5. Link!Answer(13) = Link!SendList("event", forensics)
  BY DEF Link!send_forensics
<1>6. Link!Answer(14) = Link!SendList("log", [i \in 1..tevents |-> i])
  <2>1. Link!Answer(14) = Link!send_events
    OBVIOUS
  <2>2. QED
    BY <2>1 DEF Link!send_events
<1>7. Link!Answer(15) = Cat(Aggregate, Link!send_trajectory_coefficients(TRUE))
  <2>1. Link!Answer(15) = Link!send_map
    OBVIOUS
  <2>2. QED
    BY <2>1 DEF Link!send_map, Cat, Aggregate
<1>8. QED
  BY <1>1, <1>2, <1>3, <1>4, <1>5, <1>6, <1>7

\* What is documented of the options.
LEMMA DocumentedIs ==
  LET valid == {i \in DOMAIN points : points[i]}
  IN  /\ Link!Documented("S") = <<Link!Line("value", 7)>>
      /\ Link!Documented("T") = Link!Lines("event", trajectory)
      /\ Link!Documented("F") = Link!Lines("event", Link!InOrder((DOMAIN points) \ valid))
      /\ Link!Documented("P") = Link!Lines("point", Link!InOrder(valid))
      /\ Link!Documented("C") = Link!Lines("count", Link!InOrder(valid))
      /\ Link!Documented("E") = Link!Lines("log", Link!InOrder(1..tevents))
      /\ Link!Documented("M") =
           Cat(Cat(Aggregate, Link!Lines("point", Link!InOrder(valid))), Finish)
BY DEF Link!Documented, Link!show_state, Cat, Aggregate, Finish

\* The answer m to an option o is what is documented of it, d: as it is, behind its
\* length, or as the points of a map.
Answers(m, o, d) ==
  CASE o = "S" -> m = d /\ d \in Seq(Messages) /\ Len(d) = 1
    [] o = "M" -> \E w, list : /\ Counted(w, list)
                               /\ m = Cat(Aggregate, w)
                               /\ d = Cat(Cat(Aggregate, list), Finish)
    [] OTHER   -> Counted(m, d)

LEMMA AnswerIs ==
  ASSUME AgentInv, NEW o \in Shown
  PROVE  Answers(Link!Answer(CommandOf(o)), o, Link!Documented(o))
<1>0. /\ "event" \in Words /\ "log" \in Words /\ "value" \in Words
      /\ trajectory \in Seq(Nat) /\ forensics \in Seq(Nat) /\ tevents \in Nat
  BY DEF Words, AgentInv
<1>1. CASE o = "S"
  <2>1. CommandOf("S") = 7
    BY DEF CommandOf
  <2>2. Link!Line("value", 7) \in Messages
    BY <1>0 DEF Link!Line, Messages
  <2> DEFINE d == <<Link!Line("value", 7)>>
  <2>3. d \in Seq(Messages) /\ Len(d) = 1
    BY <2>2
  <2>4. Link!Answer(CommandOf("S")) = d /\ Link!Documented("S") = d
    BY <2>1, AnswersAre, DocumentedIs
  <2> HIDE DEF d
  <2>5. QED
    BY <1>1, <2>3, <2>4 DEF Answers
<1>2. CASE o = "T"
  <2>1. CommandOf("T") = 8
    BY DEF CommandOf
  <2>2. Counted(Link!SendList("event", trajectory), Link!Lines("event", trajectory))
    BY <1>0, ListSent
  <2>3. Counted(Link!Answer(CommandOf("T")), Link!Documented("T"))
    BY <2>1, <2>2, AnswersAre, DocumentedIs
  <2>4. QED
    BY <1>2, <2>3 DEF Answers
<1>3. CASE o = "F"
  <2>1. CommandOf("F") = 13
    BY DEF CommandOf
  <2>2. Counted(Link!SendList("event", forensics), Link!Lines("event", forensics))
    BY <1>0, ListSent
  <2>3. Counted(Link!Answer(CommandOf("F")), Link!Documented("F"))
    BY <2>1, <2>2, AnswersAre, DocumentedIs, PointsListed
  <2>4. QED
    BY <1>3, <2>3 DEF Answers
<1>4. CASE o = "P"
  <2>1. CommandOf("P") = 10
    BY DEF CommandOf
  <2>2. Counted(Link!Answer(CommandOf("P")), Link!Documented("P"))
    BY <2>1, AnswersAre, DocumentedIs, PointsSent
  <2>3. QED
    BY <1>4, <2>2 DEF Answers
<1>5. CASE o = "C"
  <2>1. CommandOf("C") = 9
    BY DEF CommandOf
  <2>2. Counted(Link!Answer(CommandOf("C")), Link!Documented("C"))
    BY <2>1, AnswersAre, DocumentedIs, PointsSent
  <2>3. QED
    BY <1>5, <2>2 DEF Answers
<1>6. CASE o = "E"
  <2> DEFINE list == [i \in 1..tevents |-> i]
  <2>1. CommandOf("E") = 14
    BY DEF CommandOf
  <2>2. list = After(0, tevents)
    BY <1>0 DEF After
  <2>3. Link!InOrder(1..tevents) = list
    <3>1. Link!InOrder((0 + 1)..tevents) = After(0, tevents - 0)
      BY <1>0, InOrderIs
    <3>2. 0 + 1 = 1 /\ tevents - 0 = tevents
      BY <1>0
    <3>3. QED
      BY <2>2, <3>1, <3>2
  <2>4. list \in Seq(Nat)
    BY <1>0, <2>2, AfterIs
  <2>5. Link!Answer(CommandOf("E")) = Link!SendList("log", list)
    BY <2>1, AnswersAre
  <2> HIDE DEF list
  <2>6. Counted(Link!SendList("log", list), Link!Lines("log", list))
    BY <1>0, <2>4, ListSent
  <2>7. Counted(Link!Answer(CommandOf("E")), Link!Documented("E"))
    BY <2>3, <2>5, <2>6, DocumentedIs
  <2>8. QED
    BY <1>6, <2>7 DEF Answers
<1>7. CASE o = "M"
  <2>1. CommandOf("M") = 15
    BY DEF CommandOf
  <2> DEFINE w == Link!send_trajectory_coefficients(TRUE)
             list == Link!Lines("point", Link!InOrder({i \in DOMAIN points : points[i]}))
  <2>2. Counted(w, list)
    BY PointsSent
  <2>3. /\ Link!Answer(CommandOf("M")) = Cat(Aggregate, w)
        /\ Link!Documented("M") = Cat(Cat(Aggregate, list), Finish)
    BY <2>1, AnswersAre, DocumentedIs
  <2> HIDE DEF w, list
  <2>4. QED
    BY <1>7, <2>2, <2>3 DEF Answers
<1>8. QED
  BY <1>1, <1>2, <1>3, <1>4, <1>5, <1>6, <1>7 DEF Shown

-----------------------------------------------------------------------------
(* The connection of a console.                                            *)

\* What the orchestrator has yet to send to a console, and with what is on its way.
Rest(c) == IF current = c THEN todo ELSE <<>>

Msgs(c) == Cat(up[c], Rest(c))

\* The lines that end the output of an option.
Last(o) == IF o = "M" THEN Finish ELSE <<>>

\* How far a console is that does x with an option o: its command d, the messages m
\* that are yet to come, the l it expects, what it has written and what it is to write.
Talk(pc_, x, o, d, m, l, written, whole) ==
  /\ x \in {"new", "listed"} => d = 0 /\ m = <<>> /\ written = <<>> /\ whole = <<>>
  /\ x \in {"asked", "counting"} =>
       o \in Shown /\ (d # 0 => /\ d = CommandOf(o) /\ (x = "asked" <=> o \in {"S", "M"})
                               /\ m = <<>> /\ written = <<>> /\ whole = <<>>)
  /\ x = "asked" /\ d = 0 =>
       /\ written = <<>>
       /\ \/ pc_ = "crashed" /\ m = <<>>
          \/ o \in {"S", "M"} /\ Answers(m, o, whole)
  /\ x = "counting" /\ d = 0 =>
       \E list : Counted(m, list) /\ whole = Cat(Cat(written, list), Last(o))
  /\ x = "reading" => d = 0 /\ m # <<>> /\ l = Len(m) /\ whole = Cat(Cat(written, m), Last(o))
  /\ x = "done" => d = 0 /\ m = <<>> /\ written = whole
  /\ x = "failed" => pc_ \in {"crashed", "ended"} /\ Link!IsPrefix(written, whole)

ConsoleInv(c) ==
  /\ Talk(link_pc, link_console[c], option[c], down[c], Msgs(c), left[c], link_out[c], taken[c])
  /\ link_console[c] \in {"new", "listed"} => current # c

Doing == {"new", "listed", "asked", "counting", "reading", "done", "failed"}

LinkTypes ==
  /\ link_pc \in {"poll", "send", "crashed", "ended"}
  /\ current \in Consoles \cup {NoConsole}
  /\ todo \in Seq(Messages)
  /\ link_console \in [Consoles -> Doing]
  /\ option \in [Consoles -> Options]
  /\ down \in [Consoles -> Nat]
  /\ left \in [Consoles -> Nat]
  /\ up \in [Consoles -> Seq(Messages)]
  /\ link_out \in [Consoles -> Seq(Messages)]
  /\ taken \in [Consoles -> Seq(Messages)]
  /\ link_pc = "poll" => todo = <<>>
  /\ link_pc = "send" => todo # <<>> /\ current \in Consoles

LinkInv == AgentInv /\ LinkTypes /\ \A c \in Consoles : ConsoleInv(c)

\* The console of a connection: what it is about is of its types.
LEMMA ConsoleTypes ==
  ASSUME LinkTypes, NEW c \in Consoles
  PROVE  /\ up[c] \in Seq(Messages) /\ Rest(c) \in Seq(Messages) /\ Msgs(c) \in Seq(Messages)
         /\ link_out[c] \in Seq(Messages) /\ taken[c] \in Seq(Messages)
         /\ link_console[c] \in Doing /\ option[c] \in Options /\ down[c] \in Nat /\ left[c] \in Nat
<1>1. /\ up[c] \in Seq(Messages) /\ link_out[c] \in Seq(Messages) /\ taken[c] \in Seq(Messages)
      /\ link_console[c] \in Doing /\ option[c] \in Options /\ down[c] \in Nat /\ left[c] \in Nat
  BY DEF LinkTypes
<1>2. Rest(c) \in Seq(Messages)
  BY EmptySeq DEF LinkTypes, Rest
<1>3. Msgs(c) \in Seq(Messages)
  BY <1>1, <1>2, CatAssoc DEF Msgs
<1>4. QED
  BY <1>1, <1>2, <1>3

\* Of a console nothing has changed for.
LEMMA TalkKept ==
  ASSUME LinkTypes, NEW c \in Consoles, ConsoleInv(c),
         link_pc \in {"crashed", "ended"} => link_pc' = link_pc,
         link_console'[c] = link_console[c], option' = option, down'[c] = down[c],
         left'[c] = left[c], link_out'[c] = link_out[c], taken'[c] = taken[c],
         Msgs(c)' = Msgs(c), link_console[c] \in {"new", "listed"} => current' # c
  PROVE  ConsoleInv(c)'
<1>2. ASSUME NEW x, NEW o, NEW d, NEW m, NEW l, NEW w, NEW t, Talk(link_pc, x, o, d, m, l, w, t)
      PROVE  Talk(link_pc', x, o, d, m, l, w, t)
  BY <1>2 DEF Talk
<1>3. Talk(link_pc', link_console[c], option[c], down[c], Msgs(c), left[c], link_out[c], taken[c])
  BY <1>2 DEF ConsoleInv
<1>4. QED
  BY <1>3 DEF ConsoleInv

\* A step of a console, by what it comes to.
Turn(c, x, d, u, l, w) ==
  /\ link_console' = [link_console EXCEPT ![c] = x]
  /\ down' = [down EXCEPT ![c] = d]
  /\ up' = [up EXCEPT ![c] = u]
  /\ left' = [left EXCEPT ![c] = l]
  /\ link_out' = [link_out EXCEPT ![c] = w]
  /\ UNCHANGED <<points, trajectory, forensics, tevents, sealed, aggregate, link_pc, current, todo,
                 option, taken>>

LEMMA TurnKeeps ==
  ASSUME LinkInv, NEW c \in Consoles, NEW x \in Doing \ {"new"}, NEW d \in Nat,
         NEW u \in Seq(Messages), NEW l \in Nat, NEW w \in Seq(Messages), Turn(c, x, d, u, l, w),
         Talk(link_pc, x, option[c], d, Cat(u, Rest(c)), l, w, taken[c]),
         x = "listed" => current # c
  PROVE  LinkInv'
<1>1. AgentInv /\ LinkTypes /\ \A e \in Consoles : ConsoleInv(e)
  BY DEF LinkInv
<1>2. AgentInv'
  BY <1>1 DEF AgentInv, Turn
<1>3. LinkTypes'
  BY <1>1 DEF LinkTypes, Turn
<1>4. Rest(c)' = Rest(c)
  BY DEF Rest, Turn
<1>5. ConsoleInv(c)'
  <2>1. /\ link_console'[c] = x /\ down'[c] = d /\ up'[c] = u /\ left'[c] = l /\ link_out'[c] = w
        /\ UNCHANGED <<link_pc, current, option, taken>>
    BY <1>1 DEF LinkTypes, Turn
  <2>2. Msgs(c)' = Cat(u, Rest(c))
    BY <1>4, <2>1 DEF Msgs
  <2>3. QED
    BY <2>1, <2>2 DEF ConsoleInv
<1>6. ASSUME NEW e \in Consoles, e # c PROVE ConsoleInv(e)'
  <2>1. /\ link_console'[e] = link_console[e] /\ down'[e] = down[e] /\ up'[e] = up[e]
        /\ left'[e] = left[e] /\ link_out'[e] = link_out[e]
        /\ UNCHANGED <<link_pc, current, option, taken, todo>>
    BY <1>1, <1>6 DEF LinkTypes, Turn
  <2>2. Msgs(e)' = Msgs(e)
    BY <2>1 DEF Rest, Msgs
  <2>3. ConsoleInv(e)
    BY <1>1
  <2>4. link_console[e] \in {"new", "listed"} => current' # e
    BY <2>1, <2>3 DEF ConsoleInv
  <2>5. QED
    BY <1>1, <2>1, <2>2, <2>3, <2>4, TalkKept
<1>7. QED
  BY <1>2, <1>3, <1>5, <1>6 DEF LinkInv

\* A step of Link's consoles is a turn: what it leaves alone it sets to what it is.
LEMMA SameIsSet ==
  ASSUME NEW S, NEW f \in [Consoles -> S], NEW c \in Consoles
  PROVE  f = [f EXCEPT ![c] = f[c]]
OBVIOUS

\* What a message that is received was.
LEMMA Received1 ==
  ASSUME LinkTypes, NEW c \in Consoles, up[c] # <<>>
  PROVE  /\ Tail(up[c]) \in Seq(Messages) /\ Head(up[c]) \in Messages
         /\ Msgs(c) # <<>> /\ Head(Msgs(c)) = Head(up[c])
         /\ Tail(Msgs(c)) = Cat(Tail(up[c]), Rest(c))
BY ConsoleTypes, CatHead, FrontOfCat DEF Msgs

\* It is taken from the connection and out of what is yet to come.
LEMMA Received2 ==
  ASSUME LinkInv, NEW c \in Consoles, NEW new, NEW from, NEW x \in Doing \ {"new", "listed"},
         NEW l \in Nat, new \in Seq(Messages),
         Link!ConsoleStep(c, from, x), Link!Receive(c, new), left' = [left EXCEPT ![c] = l],
         Talk(link_pc, x, option[c], down[c], Tail(Msgs(c)), l, Cat(link_out[c], new), taken[c])
  PROVE  LinkInv'
<1>1. LinkTypes
  BY DEF LinkInv
<1>2. up[c] # <<>>
  BY DEF Link!Receive
<1>3. Tail(up[c]) \in Seq(Messages) /\ Tail(Msgs(c)) = Cat(Tail(up[c]), Rest(c))
  BY <1>1, <1>2, Received1
<1>4. link_out[c] \in Seq(Messages) /\ down[c] \in Nat
  BY <1>1, ConsoleTypes
<1>5. Cat(link_out[c], new) \in Seq(Messages)
  BY <1>4, CatAssoc
<1>6. down \in [Consoles -> Nat]
  BY <1>1 DEF LinkTypes
<1>7. down' = [down EXCEPT ![c] = down[c]]
  BY <1>6, SameIsSet DEF Link!Receive
<1>8. Turn(c, x, down[c], Tail(up[c]), l, Cat(link_out[c], new))
  BY <1>7 DEF Turn, Cat, Link!ConsoleStep, Link!Receive, Link!agentVars
<1>9. QED
  BY <1>3, <1>4, <1>5, <1>8, TurnKeeps

LEMMA FinishIs == Finish \in Seq(Messages) /\ Aggregate \in Seq(Messages) /\ <<>> \in Seq(Messages)
<1>1. Link!Line("seal", 0) \in Messages /\ Link!Line("end", 0) \in Messages
      /\ Link!Line("aggregate", 0) \in Messages
  BY DEF Link!Line, Messages, Words
<1>2. QED
  BY <1>1 DEF Finish, Aggregate

LEMMA ClosingIs == ASSUME NEW c PROVE Link!Closing(c) = Last(option[c]) /\ Last(option[c]) \in Seq(Messages)
BY FinishIs DEF Link!Closing, Last, Finish

\* What is announced, and what follows.
LEMMA CountedIs ==
  ASSUME NEW m, NEW list, Counted(m, list)
  PROVE  /\ m \in Seq(Messages) /\ list \in Seq(Messages) /\ m # <<>> /\ Tail(m) = list
         /\ "count" \in DOMAIN Head(m) /\ Head(m).count = Len(list) /\ Len(list) \in Nat
<1>1. list \in Seq(Messages) /\ m = Cat(<<Link!Count(Len(list))>>, list) /\ Len(list) \in Nat
  BY LenProperties DEF Counted
<1>2. Link!Count(Len(list)) \in Messages
  BY <1>1 DEF Link!Count, Messages
<1>3. m \in Seq(Messages) /\ m # <<>> /\ Head(m) = Link!Count(Len(list)) /\ Tail(m) = list
  BY <1>1, <1>2, FrontOf
<1>4. QED
  BY <1>1, <1>3 DEF Link!Count

LEMMA Regroup ==
  ASSUME NEW x \in Seq(Messages), NEW y \in Seq(Messages), NEW z \in Seq(Messages)
  PROVE  /\ Cat(Cat(x, y), z) = Cat(x, Cat(y, z))
         /\ Cat(x, y) \in Seq(Messages) /\ Cat(y, z) \in Seq(Messages)
BY CatAssoc

LEMMA ReceiveFirstStep ==
  ASSUME LinkInv, NEW c \in Consoles, Link!ReceiveFirst(c)
  PROVE  LinkInv'
<1> DEFINE o == option[c]  m == Msgs(c)  w == link_out[c]  t == taken[c]  h == <<Head(up[c])>>
           x == IF o = "M" THEN "counting" ELSE "done"
<1>1. LinkTypes /\ ConsoleInv(c)
  BY DEF LinkInv
<1>2. /\ Link!ConsoleStep(c, "asked", x) /\ Link!Receive(c, h) /\ left' = [left EXCEPT ![c] = 0]
      /\ up[c] # <<>> /\ link_console[c] = "asked"
  BY DEF Link!ReceiveFirst, Link!Receive, Link!ConsoleStep
<1>3. /\ m \in Seq(Messages) /\ m # <<>> /\ Head(m) = Head(up[c]) /\ h \in Seq(Messages)
      /\ w \in Seq(Messages) /\ t \in Seq(Messages)
  BY <1>1, <1>2, Received1, ConsoleTypes
<1>4. down[c] = 0 /\ o \in Shown /\ w = <<>> /\ o \in {"S", "M"} /\ Answers(m, o, t)
  BY <1>1, <1>2, <1>3 DEF ConsoleInv, Talk
<1>5. Cat(w, h) = h
  BY <1>3, <1>4, CatEmpty
<1> HIDE DEF m, h
<1>6. Talk(link_pc, x, o, down[c], Tail(m), 0, Cat(w, h), t)
  <2>1. CASE o = "S"
    <3>1. m = t /\ Len(m) = 1
      BY <1>4, <2>1 DEF Answers
    <3>2. m = Cat(<<Head(m)>>, Tail(m)) /\ Tail(m) \in Seq(Messages) /\ Len(Tail(m)) = 0
      BY <1>3, <3>1, CatHead
    <3>3. Tail(m) = <<>>
      BY <3>2, EmptySeq
    <3>4. m = <<Head(m)>>
      <4>1. <<Head(m)>> \in Seq(Messages)
        BY <1>3, CatHead
      <4>2. QED
        BY <3>2, <3>3, <4>1, CatEmpty
    <3>5. Cat(w, h) = t
      BY <1>3, <1>5, <3>1, <3>4 DEF h
    <3>6. x = "done"
      BY <2>1
    <3>7. QED
      BY <1>4, <3>3, <3>5, <3>6 DEF Talk
  <2>2. CASE o = "M"
    <3>1. PICK v, list : Counted(v, list) /\ m = Cat(Aggregate, v) /\ t = Cat(Cat(Aggregate, list), Finish)
      BY <1>4, <2>2 DEF Answers
    <3>2. Link!Line("aggregate", 0) \in Messages
      BY DEF Link!Line, Messages, Words
    <3>3. v \in Seq(Messages)
      BY <3>1, CountedIs
    <3>4. Head(m) = Link!Line("aggregate", 0) /\ Tail(m) = v
      BY <3>1, <3>2, <3>3, FrontOf DEF Aggregate
    <3>5. Cat(w, h) = Aggregate
      BY <1>3, <1>5, <3>4 DEF Aggregate, h
    <3>6. x = "counting" /\ Last(o) = Finish
      BY <2>2 DEF Last
    <3>7. QED
      BY <1>4, <3>1, <3>4, <3>5, <3>6 DEF Talk
  <2>3. QED
    BY <1>4, <2>1, <2>2
<1>7. QED
  BY <1>2, <1>3, <1>6, Received2 DEF m, Doing

LEMMA ReceiveCountStep ==
  ASSUME LinkInv, NEW c \in Consoles, Link!ReceiveCount(c)
  PROVE  LinkInv'
<1> DEFINE o == option[c]  m == Msgs(c)  w == link_out[c]  t == taken[c]
<1>1. LinkTypes /\ ConsoleInv(c)
  BY DEF LinkInv
<1>2. up[c] # <<>> /\ link_console[c] = "counting"
  BY DEF Link!ReceiveCount, Link!ConsoleStep
<1>3. /\ m \in Seq(Messages) /\ m # <<>> /\ Head(m) = Head(up[c])
      /\ w \in Seq(Messages) /\ t \in Seq(Messages)
  BY <1>1, <1>2, Received1, ConsoleTypes
<1>4. down[c] = 0 /\ \E list : Counted(m, list) /\ t = Cat(Cat(w, list), Last(o))
  BY <1>1, <1>2, <1>3 DEF ConsoleInv, Talk
<1>5. PICK list : Counted(m, list) /\ t = Cat(Cat(w, list), Last(o))
  BY <1>4
<1> DEFINE n == Len(list)  x == IF n = 0 THEN "done" ELSE "reading"
           new == IF n = 0 THEN Link!Closing(c) ELSE <<>>
<1>6. /\ list \in Seq(Messages) /\ Tail(m) = list /\ n \in Nat
      /\ "count" \in DOMAIN Head(up[c]) /\ Head(up[c]).count = n
  BY <1>3, <1>5, CountedIs
<1>7. /\ Link!ConsoleStep(c, "counting", x) /\ Link!Receive(c, new)
      /\ left' = [left EXCEPT ![c] = n]
  BY <1>6 DEF Link!ReceiveCount
<1>8. new \in Seq(Messages)
  BY ClosingIs, FinishIs
<1> HIDE DEF m, new
<1>9. Talk(link_pc, x, o, down[c], Tail(m), n, Cat(w, new), t)
  <2>1. CASE n = 0
    <3>1. list = <<>>
      BY <1>6, <2>1, EmptySeq
    <3>2. new = Last(o)
      BY <2>1, ClosingIs DEF new
    <3>3. Cat(w, list) = w
      BY <1>3, <3>1, CatEmpty
    <3>4. Cat(w, new) = t
      BY <1>5, <3>2, <3>3
    <3>5. x = "done"
      BY <2>1
    <3>6. QED
      BY <1>4, <1>6, <3>1, <3>4, <3>5 DEF Talk
  <2>2. CASE n # 0
    <3>1. list # <<>>
      BY <2>2, EmptySeq
    <3>2. Cat(w, new) = w
      BY <1>3, <2>2, CatEmpty DEF new
    <3>3. x = "reading"
      BY <2>2
    <3>4. QED
      BY <1>4, <1>5, <1>6, <3>1, <3>2, <3>3 DEF Talk
  <2>3. QED
    BY <2>1, <2>2
<1>10. QED
  BY <1>6, <1>7, <1>8, <1>9, Received2 DEF m, Doing

LEMMA ReceiveLineStep ==
  ASSUME LinkInv, NEW c \in Consoles, Link!ReceiveLine(c)
  PROVE  LinkInv'
<1> DEFINE o == option[c]  m == Msgs(c)  w == link_out[c]  t == taken[c]  h == <<Head(up[c])>>
           x == IF left[c] = 1 THEN "done" ELSE "reading"  l == left[c] - 1
           closing == IF left[c] = 1 THEN Link!Closing(c) ELSE <<>>  new == Cat(h, closing)
<1>1. LinkTypes /\ ConsoleInv(c)
  BY DEF LinkInv
<1>2. up[c] # <<>> /\ link_console[c] = "reading"
  BY DEF Link!ReceiveLine, Link!ConsoleStep, Link!Receive
<1>3. /\ m \in Seq(Messages) /\ m # <<>> /\ Head(m) = Head(up[c]) /\ h \in Seq(Messages)
      /\ w \in Seq(Messages) /\ t \in Seq(Messages)
  BY <1>1, <1>2, Received1, ConsoleTypes
<1>4. down[c] = 0 /\ left[c] = Len(m) /\ t = Cat(Cat(w, m), Last(o))
  BY <1>1, <1>2 DEF ConsoleInv, Talk
<1>5. /\ m = Cat(h, Tail(m)) /\ Tail(m) \in Seq(Messages) /\ Len(m) \in Nat
      /\ Len(Tail(m)) = Len(m) - 1
  BY <1>3, CatHead
<1>6. Len(m) \in Nat \ {0}
  BY <1>3, EmptySeq
<1>7. l \in Nat /\ l = Len(Tail(m))
  BY <1>4, <1>5, <1>6
<1>8. closing \in Seq(Messages) /\ Last(o) \in Seq(Messages)
  BY ClosingIs, FinishIs
<1>9. new \in Seq(Messages)
  BY <1>3, <1>8, CatAssoc
<1>10. /\ Link!ConsoleStep(c, "reading", x) /\ Link!Receive(c, new)
       /\ left' = [left EXCEPT ![c] = l]
  <2>1. left \in [Consoles -> Nat]
    BY <1>1 DEF LinkTypes
  <2>2. QED
    BY <2>1 DEF Link!ReceiveLine, Cat
<1> HIDE DEF m, h, closing
<1>11. Talk(link_pc, x, o, down[c], Tail(m), l, Cat(w, new), t)
  <2>1. Cat(w, m) = Cat(Cat(w, h), Tail(m))
    <3>1. Cat(Cat(w, h), Tail(m)) = Cat(w, Cat(h, Tail(m)))
      BY ZenonT(60), <1>3, <1>5, Regroup
    <3>2. QED
      BY <1>5, <3>1
  <2>2. Cat(w, h) \in Seq(Messages)
    BY <1>3, CatAssoc
  <2>3. Cat(w, new) = Cat(Cat(w, h), closing)
    BY <1>3, <1>8, Regroup
  <2>4. CASE left[c] = 1
    <3>1. Tail(m) = <<>>
      <4>1. Len(Tail(m)) = 0
        BY <1>7, <2>4
      <4>2. QED
        BY <1>5, <4>1, EmptySeq
    <3>2. Cat(w, m) = Cat(w, h)
      BY <2>1, <2>2, <3>1, CatEmpty
    <3>3. closing = Last(o)
      BY <2>4, ClosingIs DEF closing
    <3>4. Cat(w, new) = t
      BY <1>4, <2>3, <3>2, <3>3
    <3>5. x = "done"
      BY <2>4
    <3>6. QED
      BY <1>4, <3>1, <3>4, <3>5 DEF Talk
  <2>5. CASE left[c] # 1
    <3>1. Tail(m) # <<>>
      <4>1. Len(Tail(m)) # 0
        BY <1>4, <1>5, <1>6, <2>5
      <4>2. QED
        BY <4>1, EmptySeq
    <3>2. Cat(w, new) = Cat(w, h)
      BY <2>2, <2>3, <2>5, CatEmpty DEF closing
    <3>3. t = Cat(Cat(Cat(w, new), Tail(m)), Last(o))
      BY <1>4, <2>1, <3>2
    <3>4. x = "reading"
      BY <2>5
    <3>5. QED
      BY <1>4, <1>7, <3>1, <3>3, <3>4 DEF Talk
  <2>6. QED
    BY <2>4, <2>5
<1>12. QED
  BY <1>7, <1>9, <1>10, <1>11, Received2 DEF m, Doing

\* What has been new is a beginning, wherever the connection ends.
LEMMA WrittenBegins ==
  ASSUME LinkTypes, NEW c \in Consoles, ConsoleInv(c)
  PROVE  Link!IsPrefix(link_out[c], taken[c])
<1> DEFINE o == option[c]  m == Msgs(c)  w == link_out[c]  t == taken[c]
<1>1. m \in Seq(Messages) /\ w \in Seq(Messages) /\ t \in Seq(Messages) /\ link_console[c] \in Doing
  BY ConsoleTypes
<1>2. Last(o) \in Seq(Messages)
  BY FinishIs DEF Last
<1> HIDE DEF m
<1>3. ASSUME NEW s \in Seq(Messages), t = Cat(Cat(w, s), Last(o)) PROVE Link!IsPrefix(w, t)
  <2>1. t = Cat(w, Cat(s, Last(o))) /\ Cat(s, Last(o)) \in Seq(Messages)
    BY <1>1, <1>2, <1>3, Regroup
  <2>2. QED
    BY <1>1, <2>1, PrefixOfCat
<1>4. ASSUME w = <<>> PROVE Link!IsPrefix(w, t)
  <2>1. t = Cat(w, t)
    BY <1>1, <1>4, CatEmpty
  <2>2. QED
    BY <1>1, <2>1, PrefixOfCat
<1>5. ASSUME w = t PROVE Link!IsPrefix(w, t)
  <2>1. <<>> \in Seq(Messages) /\ t = Cat(w, <<>>)
    BY <1>1, <1>5, CatEmpty
  <2>2. QED
    BY <1>1, <2>1, PrefixOfCat
<1>6. CASE link_console[c] \in {"new", "listed", "asked"}
  <2>1. w = <<>>
    BY <1>6 DEF ConsoleInv, Talk
  <2>2. QED
    BY <1>4, <2>1
<1>7. CASE link_console[c] = "counting"
  <2>1. CASE down[c] = 0
    <3>1. PICK list : Counted(m, list) /\ t = Cat(Cat(w, list), Last(o))
      BY <1>7, <2>1 DEF ConsoleInv, Talk, m
    <3>2. list \in Seq(Messages)
      BY <3>1, CountedIs
    <3>3. QED
      BY <1>3, <3>1, <3>2
  <2>2. CASE down[c] # 0
    <3>1. w = <<>>
      BY <1>7, <2>2 DEF ConsoleInv, Talk
    <3>2. QED
      BY <1>4, <3>1
  <2>3. QED
    BY <2>1, <2>2
<1>8. CASE link_console[c] = "reading"
  <2>1. t = Cat(Cat(w, m), Last(o))
    BY <1>8 DEF ConsoleInv, Talk, m
  <2>2. QED
    BY <1>1, <1>3, <2>1
<1>9. CASE link_console[c] = "done"
  <2>1. w = t
    BY <1>9 DEF ConsoleInv, Talk
  <2>2. QED
    BY <1>5, <2>1
<1>10. CASE link_console[c] = "failed"
  BY <1>10 DEF ConsoleInv, Talk
<1>11. QED
  BY <1>1, <1>6, <1>7, <1>8, <1>9, <1>10 DEF Doing

LEMMA ReceiveFailsStep ==
  ASSUME LinkInv, NEW c \in Consoles, Link!ReceiveFails(c)
  PROVE  LinkInv'
<1>1. LinkTypes /\ ConsoleInv(c)
  BY DEF LinkInv
<1>2. /\ link_pc \in {"ended", "crashed"}
      /\ \E from \in {"asked", "counting", "reading"} : Link!ConsoleStep(c, from, "failed")
      /\ UNCHANGED <<down, up, left, link_out>>
  BY DEF Link!ReceiveFails
<1>3. /\ up[c] \in Seq(Messages) /\ link_out[c] \in Seq(Messages) /\ down[c] \in Nat /\ left[c] \in Nat
  BY <1>1, ConsoleTypes
<1>4. Turn(c, "failed", down[c], up[c], left[c], link_out[c])
  <2>1. /\ down = [down EXCEPT ![c] = down[c]] /\ up = [up EXCEPT ![c] = up[c]]
        /\ left = [left EXCEPT ![c] = left[c]] /\ link_out = [link_out EXCEPT ![c] = link_out[c]]
    BY <1>1, SameIsSet DEF LinkTypes
  <2>2. QED
    BY <1>2, <2>1 DEF Turn, Link!ConsoleStep, Link!agentVars
<1>5. Link!IsPrefix(link_out[c], taken[c])
  BY <1>1, WrittenBegins
<1>6. Talk(link_pc, "failed", option[c], down[c], Cat(up[c], Rest(c)), left[c], link_out[c], taken[c])
  BY <1>2, <1>5 DEF Talk
<1>7. QED
  BY <1>3, <1>4, <1>6, TurnKeeps DEF Doing

LEMMA ListedStep ==
  ASSUME LinkInv, NEW c \in Consoles, Link!show_domains(c)
  PROVE  LinkInv'
<1>1. LinkTypes /\ ConsoleInv(c)
  BY DEF LinkInv
<1>2. Link!ConsoleStep(c, "new", "listed") /\ UNCHANGED <<down, up, left, link_out>>
  BY DEF Link!show_domains
<1>3. /\ up[c] \in Seq(Messages) /\ link_out[c] \in Seq(Messages) /\ down[c] \in Nat /\ left[c] \in Nat
  BY <1>1, ConsoleTypes
<1>4. Turn(c, "listed", down[c], up[c], left[c], link_out[c])
  <2>1. /\ down = [down EXCEPT ![c] = down[c]] /\ up = [up EXCEPT ![c] = up[c]]
        /\ left = [left EXCEPT ![c] = left[c]] /\ link_out = [link_out EXCEPT ![c] = link_out[c]]
    BY <1>1, SameIsSet DEF LinkTypes
  <2>2. QED
    BY <1>2, <2>1 DEF Turn, Link!ConsoleStep, Link!agentVars
<1>5. /\ Talk(link_pc, "listed", option[c], down[c], Cat(up[c], Rest(c)), left[c], link_out[c], taken[c])
      /\ current # c
  BY <1>1, <1>2 DEF ConsoleInv, Talk, Msgs, Link!ConsoleStep
<1>6. QED
  BY <1>3, <1>4, <1>5, TurnKeeps DEF Doing

LEMMA AskStep ==
  ASSUME LinkInv, NEW c \in Consoles, Link!Ask(c)
  PROVE  LinkInv'
<1> DEFINE o == option[c]  told == CommandOf(o)
           x == IF told \in Link!Single \cup {Link!show_map} THEN "asked" ELSE "counting"
           l == IF told \in Link!Single THEN 1 ELSE 0
<1>1. LinkTypes /\ ConsoleInv(c)
  BY DEF LinkInv
<1>2. o \in Shown
  <2>1. o \in Options /\ o # "none"
    BY <1>1, ConsoleTypes DEF Link!Ask
  <2>2. QED
    BY <2>1, OrchestratorsAssumption DEF Shown
<1>3. Link!Command(Link!process_oneshot(o)) = told /\ told \in Nat \ {0}
  BY <1>2, CommandIs
<1>4. /\ Link!ConsoleStep(c, "new", x) /\ down' = [down EXCEPT ![c] = told]
      /\ left' = [left EXCEPT ![c] = l] /\ UNCHANGED <<up, link_out>>
  BY <1>3 DEF Link!Ask
<1>5. x = "asked" <=> o \in {"S", "M"}
  BY <1>2 DEF CommandOf, Shown, Link!Single, Link!show_map, Link!seal_event, Link!show_measurement,
     Link!show_state
<1>6. x \in {"asked", "counting"} /\ l \in Nat
  OBVIOUS
<1> HIDE DEF x, l, told
<1>7. /\ up[c] \in Seq(Messages) /\ link_out[c] \in Seq(Messages)
  BY <1>1, ConsoleTypes
<1>8. Turn(c, x, told, up[c], l, link_out[c])
  <2>1. up = [up EXCEPT ![c] = up[c]] /\ link_out = [link_out EXCEPT ![c] = link_out[c]]
    BY <1>1, SameIsSet DEF LinkTypes
  <2>2. QED
    BY <1>4, <2>1 DEF Turn, Link!ConsoleStep, Link!agentVars
<1>9. Cat(up[c], Rest(c)) = <<>> /\ link_out[c] = <<>> /\ taken[c] = <<>>
  BY <1>1, <1>4 DEF ConsoleInv, Talk, Msgs, Link!ConsoleStep
<1>10. Talk(link_pc, x, o, told, Cat(up[c], Rest(c)), l, link_out[c], taken[c])
  BY <1>2, <1>3, <1>5, <1>6, <1>9 DEF Talk, told
<1>11. QED
  BY <1>3, <1>6, <1>7, <1>8, <1>10, TurnKeeps DEF Doing

-----------------------------------------------------------------------------
(* The steps of the orchestrator.                                          *)

\* The consoles are as they were, and what is yet to come to them.
LEMMA ConsolesKept ==
  ASSUME LinkInv, link_pc \in {"crashed", "ended"} => link_pc' = link_pc,
         UNCHANGED <<link_console, option, down, left, link_out, taken>>,
         \A c \in Consoles : Msgs(c)' = Msgs(c),
         \A c \in Consoles : link_console[c] \in {"new", "listed"} => current' # c
  PROVE  \A c \in Consoles : ConsoleInv(c)'
BY TalkKept DEF LinkInv

\* What the orchestrator does for its agent, and its end.
LEMMA AgentStep ==
  ASSUME LinkInv, AgentInv', link_pc \in {"poll", "send"}, link_pc' \in {link_pc, "ended"},
         UNCHANGED <<current, todo, link_console, option, down, up, left, link_out, taken>>
  PROVE  LinkInv'
<1>1. LinkTypes'
  BY DEF LinkInv, LinkTypes
<1>2. \A c \in Consoles : Msgs(c)' = Msgs(c)
  BY DEF Msgs, Rest
<1>3. \A c \in Consoles : link_console[c] \in {"new", "listed"} => current' # c
  BY DEF LinkInv, ConsoleInv
<1>4. \A c \in Consoles : ConsoleInv(c)'
  BY <1>2, <1>3, ConsolesKept
<1>5. QED
  BY <1>1, <1>4 DEF LinkInv

LEMMA ModelStep ==
  ASSUME LinkInv, Link!Model
  PROVE  LinkInv'
<1>1. /\ points \in Seq(BOOLEAN) /\ sealed \in BOOLEAN /\ tevents \in Nat
      /\ trajectory \in Seq(Nat) /\ forensics \in Seq(Nat)
  BY DEF LinkInv, AgentInv
<1> DEFINE m == Len(points)
<1>2. PICK n \in 0..m : /\ \A i \in 1..m : points[i] <=> i <= n
                        /\ forensics = After(n, m - n)
                        /\ ~sealed => n = m
  BY DEF LinkInv, AgentInv, Parted
<1>3. m \in Nat /\ n \in Nat /\ m - n \in Nat /\ m + 1 \in Nat /\ n + (m - n) + 1 = m + 1
      /\ n <= m /\ m - n + 1 = m + 1 - n
  BY <1>1, LenProperties
<1>4. (~sealed) \in BOOLEAN
  BY <1>1
<1>5. /\ points' = Append(points, ~sealed) /\ points' \in Seq(BOOLEAN) /\ Len(points') = m + 1
      /\ \A i \in 1..m : points'[i] = points[i]
      /\ points'[m + 1] = ~sealed
  BY <1>1, <1>4, AppendProperties DEF Link!Model
<1>6. /\ sealed' = sealed /\ tevents' = tevents
      /\ sealed => forensics' = Append(forensics, m + 1) /\ trajectory' = trajectory
      /\ ~sealed => trajectory' = Append(trajectory, m + 1) /\ forensics' = forensics
  BY <1>1 DEF Link!Model
<1> HIDE DEF m
<1>7. {trajectory', forensics'} \subseteq Seq(Nat)
  <2>1. Append(trajectory, m + 1) \in Seq(Nat) /\ Append(forensics, m + 1) \in Seq(Nat)
    BY <1>1, <1>3, AppendProperties
  <2>2. QED
    BY <1>1, <1>6, <2>1
<1>8. ASSUME sealed PROVE AgentInv'
  <2>1. forensics' = After(n, m + 1 - n)
    <3>1. Append(After(n, m - n), n + (m - n) + 1) = After(n, m - n + 1)
      BY <1>3, AfterGrows
    <3>2. QED
      BY <1>2, <1>3, <1>6, <1>8, <3>1
  <2>2. \A i \in 1..(m + 1) : points'[i] <=> i <= n
    <3>1. \A i \in 1..(m + 1) : i \in 1..m \/ i = m + 1
      BY <1>3
    <3>2. ~(m + 1 <= n)
      BY <1>3
    <3>3. QED
      BY <1>2, <1>5, <1>8, <3>1, <3>2
  <2>3. n \in 0..(m + 1)
    BY <1>3
  <2>4. Parted(points', forensics', sealed')
    <3> DEFINE p == points'  f == forensics'  s == sealed'
    <3>1. s
      BY <1>6, <1>8
    <3>2. Len(p) = m + 1
      BY <1>5
    <3>3. n \in 0..Len(p) /\ f = After(n, Len(p) - n) /\ \A i \in 1..Len(p) : p[i] <=> i <= n
      BY <1>3, <2>1, <2>2, <2>3, <3>2
    <3> HIDE DEF p, f, s
    <3>4. Parted(p, f, s)
      BY <3>1, <3>3 DEF Parted
    <3>5. QED
      BY <3>4 DEF p, f, s
  <2>5. QED
    BY <1>1, <1>5, <1>6, <1>7, <2>4 DEF AgentInv
<1>9. ASSUME ~sealed PROVE AgentInv'
  <2>1. forensics' = After(m + 1, m + 1 - (m + 1))
    <3>1. After(m, 0) = <<>> /\ After(m + 1, 0) = <<>>
      BY DEF After
    <3>2. m - n = 0 /\ n = m /\ m + 1 - (m + 1) = 0
      BY <1>2, <1>3, <1>9
    <3>3. QED
      BY <1>2, <1>6, <1>9, <3>1, <3>2
  <2>2. \A i \in 1..(m + 1) : points'[i] <=> i <= m + 1
    <3>1. \A i \in 1..(m + 1) : (i \in 1..m \/ i = m + 1) /\ i <= m + 1
      BY <1>3
    <3>2. \A i \in 1..m : points[i]
      BY <1>2, <1>9
    <3>3. QED
      BY <1>5, <1>9, <3>1, <3>2
  <2>3. m + 1 \in 0..(m + 1)
    BY <1>3
  <2>4. Parted(points', forensics', sealed')
    <3> DEFINE p == points'  f == forensics'  s == sealed'  k == m + 1
    <3>1. Len(p) = k
      BY <1>5
    <3>2. k \in 0..Len(p) /\ f = After(k, Len(p) - k) /\ \A i \in 1..Len(p) : p[i] <=> i <= k
      BY <1>3, <2>1, <2>2, <2>3, <3>1
    <3> HIDE DEF p, f, s, k
    <3>3. Parted(p, f, s)
      BY <3>1, <3>2 DEF Parted
    <3>4. QED
      BY <3>3 DEF p, f, s
  <2>5. QED
    BY <1>1, <1>5, <1>6, <1>7, <2>4 DEF AgentInv
<1>10. AgentInv'
  BY <1>8, <1>9
<1>11. /\ link_pc = "poll" /\ link_pc' = link_pc
       /\ UNCHANGED <<current, todo, link_console, option, down, up, left, link_out, taken>>
  BY DEF Link!Model, Link!Outside, Link!consoleVars
<1>12. QED
  BY <1>10, <1>11, AgentStep

LEMMA OtherAgentStep ==
  ASSUME LinkInv, Link!LogEvent \/ Link!add_aggregate \/ Link!End
  PROVE  LinkInv'
<1>1. AgentInv'
  <2>1. AgentInv /\ tevents' \in Nat
    BY DEF LinkInv, AgentInv, Link!LogEvent, Link!add_aggregate, Link!End, Link!agentVars
  <2>2. UNCHANGED <<points, trajectory, forensics, sealed>>
    BY DEF Link!LogEvent, Link!add_aggregate, Link!End, Link!agentVars
  <2>3. QED
    BY <2>1, <2>2 DEF AgentInv
<1>2. /\ link_pc \in {"poll", "send"} /\ link_pc' \in {link_pc, "ended"}
      /\ UNCHANGED <<current, todo, link_console, option, down, up, left, link_out, taken>>
  BY DEF Link!LogEvent, Link!add_aggregate, Link!End, Link!Outside, Link!consoleVars
<1>3. QED
  BY <1>1, <1>2, AgentStep

LEMMA AgentKept ==
  ASSUME AgentInv, UNCHANGED <<points, trajectory, forensics, tevents, sealed>>
  PROVE  AgentInv'
BY DEF AgentInv

\* Nothing is left of an answer when a console is taken up or let go.
LEMMA ConnectionStep ==
  ASSUME LinkInv, link_pc = "poll", link_pc' = "poll",
         current' \in Consoles \cup {NoConsole},
         \A c \in Consoles : link_console[c] \in {"new", "listed"} => current' # c,
         UNCHANGED <<points, trajectory, forensics, tevents, sealed, todo, link_console, option,
                     down, up, left, link_out, taken>>
  PROVE  LinkInv'
<1>1. AgentInv'
  BY AgentKept DEF LinkInv
<1>2. LinkTypes'
  BY DEF LinkInv, LinkTypes
<1>3. todo = <<>>
  BY DEF LinkInv, LinkTypes
<1>4. \A c \in Consoles : Msgs(c)' = Msgs(c)
  BY <1>3 DEF Msgs, Rest
<1>5. \A c \in Consoles : ConsoleInv(c)'
  BY <1>4, ConsolesKept
<1>6. QED
  BY <1>1, <1>2, <1>5 DEF LinkInv

LEMMA AcceptStep ==
  ASSUME LinkInv, NEW c \in Consoles, Link!accept_connection(c) \/ Link!receive_end
  PROVE  LinkInv'
<1>1. /\ link_pc = "poll" /\ link_pc' = "poll"
      /\ UNCHANGED <<points, trajectory, forensics, tevents, sealed, todo, link_console, option,
                     down, up, left, link_out, taken>>
  BY DEF Link!accept_connection, Link!receive_end, Link!Outside, Link!agentVars, Link!consoleVars
<1>2. \/ current' = c /\ link_console[c] \in {"asked", "counting"}
      \/ current' = NoConsole
  BY DEF Link!accept_connection, Link!receive_end, Link!reset
<1>3. /\ current' \in Consoles \cup {NoConsole}
      /\ \A e \in Consoles : link_console[e] \in {"new", "listed"} => current' # e
  BY <1>2, OrchestratorsAssumption
<1>4. QED
  BY <1>1, <1>3, ConnectionStep

\* A message goes from what is yet to be sent to the end of what is on its way.
LEMMA SendStep ==
  ASSUME LinkInv, Link!send_Buffer
  PROVE  LinkInv'
<1> DEFINE c == current  h == <<Head(todo)>>  v == Tail(todo)
<1>1. LinkTypes
  BY DEF LinkInv
<1>2. /\ link_pc = "send" /\ up' = [up EXCEPT ![c] = Append(up[c], Head(todo))] /\ todo' = v
      /\ link_pc' = IF v = <<>> THEN "poll" ELSE "send"
      /\ UNCHANGED <<points, trajectory, forensics, tevents, sealed, current, link_console, option,
                     down, left, link_out, taken>>
  BY DEF Link!send_Buffer, Link!Outside, Link!agentVars, Link!consoleVars
<1>3. c \in Consoles /\ todo \in Seq(Messages) /\ todo # <<>> /\ up[c] \in Seq(Messages)
  BY <1>1, <1>2 DEF LinkTypes
<1>4. h \in Seq(Messages) /\ v \in Seq(Messages) /\ todo = Cat(h, v) /\ Head(todo) \in Messages
  BY <1>3, CatHead
<1>5. Append(up[c], Head(todo)) = Cat(up[c], h)
  BY <1>3, <1>4, AppendIsConcat DEF Cat
<1> HIDE DEF h, v
<1>6. Cat(up[c], h) \in Seq(Messages) /\ Cat(Cat(up[c], h), v) = Cat(up[c], todo)
  <2>1. Cat(Cat(up[c], h), v) = Cat(up[c], Cat(h, v)) /\ Cat(up[c], h) \in Seq(Messages)
    BY <1>3, <1>4, Regroup
  <2>2. QED
    BY <1>4, <2>1
<1>7. up' = [up EXCEPT ![c] = Cat(up[c], h)]
  BY <1>2, <1>5
<1>8. LinkTypes'
  BY <1>1, <1>2, <1>3, <1>4, <1>6, <1>7 DEF LinkTypes
<1>9. \A e \in Consoles : Msgs(e)' = Msgs(e)
  <2>1. up \in [Consoles -> Seq(Messages)]
    BY <1>1 DEF LinkTypes
  <2>2. Msgs(c)' = Msgs(c)
    <3>1. up'[c] = Cat(up[c], h) /\ Rest(c)' = v /\ Rest(c) = todo
      BY <1>2, <1>3, <1>7, <2>1 DEF Rest
    <3>2. current' = current
      BY <1>2
    <3>3. QED
      BY <1>6, <3>1, <3>2 DEF Msgs
  <2>3. ASSUME NEW e \in Consoles, e # c PROVE Msgs(e)' = Msgs(e)
    BY <1>2, <1>7, <2>1, <2>3 DEF Msgs, Rest
  <2>4. QED
    BY <1>2, <2>2, <2>3
<1>10. \A e \in Consoles : link_console[e] \in {"new", "listed"} => current' # e
  BY <1>2 DEF LinkInv, ConsoleInv
<1>11. \A e \in Consoles : ConsoleInv(e)'
  BY <1>2, <1>9, <1>10, ConsolesKept
<1>12. AgentInv'
  BY <1>2, AgentKept DEF LinkInv
<1>13. QED
  BY <1>8, <1>11, <1>12 DEF LinkInv

\* An answer is messages, and some.
LEMMA AnswerFits ==
  ASSUME NEW m, NEW o \in Shown, NEW d, Answers(m, o, d)
  PROVE  m \in Seq(Messages) /\ m # <<>> /\ d \in Seq(Messages)
<1>1. CASE o = "S"
  <2>1. m = d /\ d \in Seq(Messages) /\ Len(d) = 1
    BY <1>1 DEF Answers
  <2>2. m # <<>>
    <3>1. Len(<<>>) = 0
      OBVIOUS
    <3>2. QED
      BY <2>1, <3>1
  <2>3. QED
    BY <2>1, <2>2
<1>2. CASE o = "M"
  <2>1. PICK v, list : /\ Counted(v, list)
                       /\ m = Cat(Aggregate, v) /\ d = Cat(Cat(Aggregate, list), Finish)
    BY <1>2 DEF Answers
  <2>2. v \in Seq(Messages) /\ list \in Seq(Messages)
    BY <2>1, CountedIs
  <2>3. Link!Line("aggregate", 0) \in Messages
    BY DEF Link!Line, Messages, Words
  <2>4. m \in Seq(Messages) /\ m # <<>>
    BY <2>1, <2>2, <2>3, FrontOf DEF Aggregate
  <2>5. Cat(Aggregate, list) \in Seq(Messages)
    BY <2>2, FinishIs, CatAssoc
  <2>6. d \in Seq(Messages)
    <3>1. Cat(Cat(Aggregate, list), Finish) \in Seq(Messages)
      BY <2>5, FinishIs, Regroup
    <3>2. QED
      BY <2>1, <3>1
  <2>7. QED
    BY <2>4, <2>6
<1>3. CASE o \notin {"S", "M"}
  <2>1. Counted(m, d)
    BY <1>3 DEF Answers
  <2>2. QED
    BY <2>1, CountedIs
<1>4. QED
  BY <1>1, <1>2, <1>3

\* The answer to a command is what is documented of the state it is taken in.
LEMMA CommandStep ==
  ASSUME LinkInv, NEW c \in Consoles, Link!process_command(c)
  PROVE  LinkInv'
<1> DEFINE o == option[c]  a == Link!Answer(down[c])  r == Link!Documented(o)
           crash == down[c] = Link!show_map /\ ~aggregate
<1>1. LinkTypes /\ AgentInv /\ \A e \in Consoles : ConsoleInv(e)
  BY DEF LinkInv
<1>2. /\ link_pc = "poll" /\ current = c /\ down[c] # 0 /\ taken' = [taken EXCEPT ![c] = r]
      /\ crash => link_pc' = "crashed" /\ todo' = todo
      /\ ~crash => link_pc' = "send" /\ todo' = a
      /\ down' = [down EXCEPT ![c] = 0]
      /\ UNCHANGED <<points, trajectory, forensics, tevents, sealed, current, link_console, option,
                     left, link_out, up>>
  BY DEF Link!process_command, Link!agentVars, Link!consoleVars
<1>3. todo = <<>>
  BY <1>1, <1>2 DEF LinkTypes
<1>4. ConsoleInv(c) /\ link_console[c] \in Doing
  BY <1>1, ConsoleTypes
<1>5. link_console[c] \in {"asked", "counting", "failed"}
  BY <1>2, <1>4 DEF ConsoleInv, Talk, Doing
<1>6. link_console[c] # "failed"
  BY <1>2, <1>4 DEF ConsoleInv, Talk
<1>7. /\ o \in Shown /\ down[c] = CommandOf(o) /\ (link_console[c] = "asked" <=> o \in {"S", "M"})
      /\ Msgs(c) = <<>> /\ link_out[c] = <<>>
  BY <1>2, <1>4, <1>5, <1>6 DEF ConsoleInv, Talk
<1>8. Answers(a, o, r)
  BY <1>1, <1>7, AnswerIs
<1>9. up[c] = <<>>
  <2>1. up[c] \in Seq(Messages)
    BY <1>1, ConsoleTypes
  <2>2. Rest(c) = <<>>
    BY <1>3 DEF Rest
  <2>3. Msgs(c) = up[c]
    BY <2>1, <2>2, CatEmpty DEF Msgs
  <2>4. QED
    BY <1>7, <2>3
<1> HIDE DEF a, r
<1>10. a \in Seq(Messages) /\ a # <<>> /\ r \in Seq(Messages)
  BY <1>7, <1>8, AnswerFits
<1>11. LinkTypes'
  <2>1. taken' \in [Consoles -> Seq(Messages)] /\ down' \in [Consoles -> Nat]
    BY <1>1, <1>2, <1>10 DEF LinkTypes
  <2>2. /\ todo' \in Seq(Messages) /\ link_pc' \in {"send", "crashed"}
        /\ link_pc' = "send" => todo' # <<>> /\ current' \in Consoles
    BY <1>1, <1>2, <1>10 DEF LinkTypes
  <2>3. UNCHANGED <<current, link_console, option, left, link_out, up>>
    BY <1>2
  <2>4. QED
    BY <1>1, <2>1, <2>2, <2>3 DEF LinkTypes
<1>12. /\ link_console'[c] = link_console[c] /\ option'[c] = o /\ down'[c] = 0 /\ taken'[c] = r
       /\ link_out'[c] = <<>> /\ Msgs(c)' = todo'
  <2>1. down \in [Consoles -> Nat] /\ taken \in [Consoles -> Seq(Messages)]
    BY <1>1 DEF LinkTypes
  <2>2. down'[c] = 0 /\ taken'[c] = r
    BY <1>2, <2>1
  <2>3. Msgs(c)' = todo'
    <3>1. todo' \in Seq(Messages)
      BY <1>11 DEF LinkTypes
    <3>2. up'[c] = <<>> /\ current' = c
      BY <1>2, <1>9
    <3>3. Msgs(c)' = Cat(<<>>, todo')
      BY <3>2 DEF Msgs, Rest
    <3>4. QED
      BY <3>1, <3>3, CatEmpty
  <2>4. QED
    BY <1>2, <1>7, <2>2, <2>3
<1>13. Talk(link_pc', link_console[c], o, 0, todo', left'[c], <<>>, r)
  <2>1. CASE crash
    <3>1. o = "M"
      BY <1>7, <2>1 DEF CommandOf, Shown, Link!show_map
    <3>2. link_console[c] = "asked" /\ link_pc' = "crashed" /\ todo' = <<>>
      BY <1>2, <1>3, <1>7, <2>1, <3>1
    <3>3. QED
      BY <1>7, <3>2 DEF Talk
  <2>2. CASE ~crash
    <3>1. todo' = a /\ link_pc' = "send"
      BY <1>2, <2>2
    <3>2. CASE link_console[c] = "asked"
      BY <1>7, <1>8, <3>1, <3>2 DEF Talk
    <3>3. CASE link_console[c] = "counting"
      <4>1. o \notin {"S", "M"}
        BY <1>7, <3>3
      <4>2. Counted(a, r)
        BY <1>8, <4>1 DEF Answers
      <4>3. r = Cat(Cat(<<>>, r), <<>>)
        BY <1>10, CatEmpty
      <4>4. Last(o) = <<>>
        BY <4>1 DEF Last
      <4>5. \E list : Counted(a, list) /\ r = Cat(Cat(<<>>, list), Last(o))
        BY <4>2, <4>3, <4>4
      <4>6. QED
        BY <1>7, <3>1, <3>3, <4>5 DEF Talk
    <3>4. QED
      BY <1>5, <1>6, <3>2, <3>3
  <2>3. QED
    BY <2>1, <2>2
<1>14. ConsoleInv(c)'
  <2>1. link_console'[c] \notin {"new", "listed"}
    BY <1>5, <1>12
  <2>2. Talk(link_pc', link_console'[c], option'[c], down'[c], Msgs(c)', left'[c], link_out'[c],
             taken'[c])
    BY <1>12, <1>13
  <2>3. QED
    BY <2>1, <2>2 DEF ConsoleInv
<1>15. ASSUME NEW e \in Consoles, e # c PROVE ConsoleInv(e)'
  <2>1. /\ link_console'[e] = link_console[e] /\ down'[e] = down[e] /\ left'[e] = left[e]
        /\ link_out'[e] = link_out[e] /\ taken'[e] = taken[e] /\ up'[e] = up[e]
        /\ UNCHANGED <<current, option>>
    BY <1>1, <1>2, <1>15 DEF LinkTypes
  <2>2. Msgs(e)' = Msgs(e)
    BY <1>2, <1>15, <2>1 DEF Msgs, Rest
  <2>3. link_console[e] \in {"new", "listed"} => current' # e
    BY <1>1, <2>1 DEF ConsoleInv
  <2>4. link_pc \notin {"crashed", "ended"}
    BY <1>2
  <2>5. QED
    BY <1>1, <2>1, <2>2, <2>3, <2>4, TalkKept
<1>16. AgentInv'
  BY <1>1, <1>2, AgentKept
<1>17. QED
  BY <1>11, <1>14, <1>15, <1>16 DEF LinkInv

-----------------------------------------------------------------------------
(* The consoles and their orchestrator.                                    *)

LEMMA LinkInit == Link!Init => LinkInv
<1> SUFFICES ASSUME Link!Init PROVE LinkInv
  OBVIOUS
<1>1. AgentInv
  <2>1. PICK n \in 0..MaxPoints : points = [i \in 1..n |-> TRUE]
    BY DEF Link!Init
  <2>2. n \in Nat
    BY OrchestratorsAssumption
  <2>3. points \in Seq(BOOLEAN) /\ Len(points) = n /\ \A i \in 1..n : points[i] = TRUE /\ i <= n
    BY <2>1, <2>2
  <2>4. forensics = After(n, n - n)
    <3>1. n - n = 0 /\ forensics = <<>>
      BY <2>2 DEF Link!Init
    <3>2. After(n, 0) = <<>>
      BY DEF After
    <3>3. QED
      BY <3>1, <3>2
  <2>5. n \in 0..n
    BY <2>2
  <2>6. Parted(points, forensics, sealed)
    BY <2>3, <2>4, <2>5 DEF Parted
  <2>7. sealed \in BOOLEAN /\ tevents \in Nat /\ {trajectory, forensics} \subseteq Seq(Nat)
    BY DEF Link!Init
  <2>8. QED
    BY <2>3, <2>6, <2>7 DEF AgentInv
<1>2. <<>> \in Seq(Messages)
  OBVIOUS
<1>3. LinkTypes
  BY <1>2 DEF LinkTypes, Link!Init, Doing
<1>4. ASSUME NEW c \in Consoles PROVE ConsoleInv(c)
  <2>1. /\ link_console[c] = "new" /\ down[c] = 0 /\ up[c] = <<>> /\ link_out[c] = <<>>
        /\ taken[c] = <<>> /\ current = NoConsole /\ todo = <<>>
    BY DEF Link!Init
  <2>2. current # c
    BY <2>1, OrchestratorsAssumption
  <2>3. Msgs(c) = <<>>
    BY <1>2, <2>1, CatEmpty DEF Msgs, Rest
  <2>4. QED
    BY <2>1, <2>2, <2>3 DEF ConsoleInv, Talk
<1>5. QED
  BY <1>1, <1>3, <1>4 DEF LinkInv

LEMMA LinkStep ==
  ASSUME LinkInv, Link!Next \/ UNCHANGED linkVars
  PROVE  LinkInv'
<1>1. CASE Link!Model
  BY <1>1, ModelStep
<1>2. CASE Link!LogEvent \/ Link!add_aggregate \/ Link!End
  BY <1>2, OtherAgentStep
<1>3. CASE \E c \in Consoles : Link!accept_connection(c)
  BY <1>3, AcceptStep
<1>4. CASE \E c \in Consoles : Link!process_command(c)
  BY <1>4, CommandStep
<1>5. CASE Link!send_Buffer
  BY <1>5, SendStep
<1>6. CASE Link!receive_end
  <2>1. current \in Consoles
    BY <1>6 DEF Link!receive_end, LinkInv, LinkTypes
  <2>2. QED
    BY <1>6, <2>1, AcceptStep
<1>7. CASE \E c \in Consoles : Link!show_domains(c)
  BY <1>7, ListedStep
<1>8. CASE \E c \in Consoles : Link!Ask(c)
  BY <1>8, AskStep
<1>9. CASE \E c \in Consoles : Link!Console(c)
  BY <1>9, ReceiveFirstStep, ReceiveCountStep, ReceiveLineStep, ReceiveFailsStep DEF Link!Console
<1>10. CASE UNCHANGED linkVars
  <2>1. UNCHANGED <<points, trajectory, forensics, tevents, sealed>>
    BY <1>10 DEF linkVars
  <2>2. AgentInv'
    BY <2>1, AgentKept DEF LinkInv
  <2>3. LinkTypes'
    BY <1>10 DEF LinkInv, LinkTypes, linkVars
  <2>4. \A c \in Consoles : Msgs(c)' = Msgs(c)
    BY <1>10 DEF linkVars, Msgs, Rest
  <2>5. \A c \in Consoles : link_console[c] \in {"new", "listed"} => current' # c
    BY <1>10 DEF linkVars, LinkInv, ConsoleInv
  <2>6. /\ link_pc' = link_pc
        /\ UNCHANGED <<link_console, option, down, left, link_out, taken>>
    BY <1>10 DEF linkVars
  <2>7. \A c \in Consoles : ConsoleInv(c)'
    BY <2>4, <2>5, <2>6, ConsolesKept
  <2>8. QED
    BY <2>2, <2>3, <2>7 DEF LinkInv
<1>11. QED
  BY <1>1, <1>2, <1>3, <1>4, <1>5, <1>6, <1>7, <1>8, <1>9, <1>10 DEF Link!Next, Link!Orchestrator

LEMMA ListingsAre == LinkInv => Link!AnswersAreSnapshots /\ Link!NothingLeftOver
<1> SUFFICES ASSUME LinkInv PROVE Link!AnswersAreSnapshots /\ Link!NothingLeftOver
  OBVIOUS
<1>1. ASSUME NEW c \in Consoles
      PROVE  /\ Link!IsPrefix(link_out[c], taken[c])
             /\ link_console[c] = "done" => link_out[c] = taken[c] /\ up[c] = <<>> /\ down[c] = 0
  <2>1. LinkTypes /\ ConsoleInv(c)
    BY DEF LinkInv
  <2>2. Link!IsPrefix(link_out[c], taken[c])
    BY <2>1, WrittenBegins
  <2>3. CASE link_console[c] = "done"
    <3>1. down[c] = 0 /\ Cat(up[c], Rest(c)) = <<>> /\ link_out[c] = taken[c]
      BY <2>1, <2>3 DEF ConsoleInv, Talk, Msgs
    <3>2. up[c] \in Seq(Messages) /\ Rest(c) \in Seq(Messages)
      BY <2>1, ConsoleTypes
    <3>3. up[c] = <<>>
      BY <3>1, <3>2, ConcatSimplifications!concIsEmpty DEF Cat
    <3>4. QED
      BY <2>2, <3>1, <3>3
  <2>4. QED
    BY <2>2, <2>3
<1>2. QED
  BY <1>1 DEF Link!AnswersAreSnapshots, Link!NothingLeftOver

-----------------------------------------------------------------------------
(* The theorems.                                                           *)

Inv == Types /\ PhaseInv /\ LoadInv /\ AnswerInv /\ StreamInv

\* The parts are invariants together: each of them is kept by every step of the
\* three processes.
THEOREM OrchestratorCorrect == Spec => []Inv
<1>1. Init => Inv
  BY InitPhases, InitLoad, InitAnswer, InitStream DEF Inv
<1>2. Inv /\ [Next]_vars => Inv'
  <2> SUFFICES ASSUME Inv, [Next]_vars PROVE Inv'
    OBVIOUS
  <2>0. Types /\ PhaseInv /\ LoadInv /\ AnswerInv /\ StreamInv
    BY DEF Inv
  <2>1. Types'
    BY <2>0, TypesStep
  <2>2. PhaseInv'
    BY <2>0, PhaseStep
  <2>3. LoadInv'
    BY <2>0, LoadStep
  <2>4. AnswerInv'
    BY <2>0, AnswerStep
  <2>5. StreamInv'
    BY <2>0, StreamStep
  <2>6. QED
    BY <2>1, <2>2, <2>3, <2>4, <2>5 DEF Inv
<1>3. QED
  BY <1>1, <1>2, PTL DEF Spec

\* main waits for the end of the pipe, which the workload has inherited, or kills
\* what runs when the monitor fails: when it exits no workload is left running
\* without an orchestrator, whatever fails in the monitor; a main that fails at
\* its own output file is not among the exits this is about.
THEOREM NobodyIsLeft == Spec => []LeavesNoWorkload
<1>1. Inv => LeavesNoWorkload
  BY DEF Inv, Types, PhaseInv, LeavesNoWorkload, Exited, Pause, Mode, Alive
<1>2. QED
  BY <1>1, OrchestratorCorrect, PTL

\* load_model: a workload never runs under a part of its model, whatever the file
\* and wherever loading fails.
THEOREM ModelBeforeWorkload == Spec => []WholeModelIsLoaded
<1>1. Inv => WholeModelIsLoaded
  BY DEF Inv, LoadInv, WholeLoaded, WholeModelIsLoaded
<1>2. QED
  BY <1>1, OrchestratorCorrect, PTL

\* The first lines of a model.
LEMMA BegunIs ==
  ASSUME NEW n \in Nat, NEW k \in 0..(n + 1)
  PROVE  Written(k) = SubSeq(ModelOf(n), 1, 2 * k)
<1> DEFINE s == Written(k)  m == ModelOf(n)  t == SubSeq(m, 1, 2 * k)
<1>1. k \in Nat /\ 2 * k \in Nat /\ 2 * k <= 2 * n + 6
  OBVIOUS
<1>2. /\ s \in Seq(Symbols) /\ Len(s) = 2 * k
      /\ \A i \in 1..(2 * k) : s[i] = IF i % 2 = 0 THEN Feed ELSE WrittenLine(i \div 2)
  BY <1>1, WrittenIs
<1>3. /\ m \in Seq(Symbols) /\ Len(m) = 2 * n + 6
      /\ \A i \in 1..(2 * n + 6) : m[i] = IF i % 2 = 0 THEN Feed ELSE ModelLine(n, i \div 2)
  BY ModelOfIs
<1>4. /\ t \in Seq(Symbols) /\ Len(t) = 2 * k /\ \A i \in 1..(2 * k) : t[i] = m[i]
  <2> HIDE DEF m
  <2>1. 1 \in 1..(Len(m) + 1) /\ 2 * k \in 0..Len(m)
    BY <1>1, <1>3
  <2>2. /\ SubSeq(m, 1, 2 * k) \in Seq(Symbols)
        /\ Len(SubSeq(m, 1, 2 * k)) = IF 1 <= 2 * k THEN 2 * k - 1 + 1 ELSE 0
        /\ \A i \in 1..(2 * k - 1 + 1) : SubSeq(m, 1, 2 * k)[i] = m[1 + i - 1]
    BY <1>3, <2>1, SubSeqProperties
  <2>3. \A i \in 1..(2 * k) : 1 + i - 1 = i /\ i \in 1..(2 * k - 1 + 1)
    BY <1>1
  <2>4. QED
    BY <1>1, <2>2, <2>3
<1> HIDE DEF s, m, t
<1>5. ASSUME NEW i \in 1..Len(s) PROVE s[i] = t[i]
  <2>1. i \in 1..(2 * k) /\ i \in 1..(2 * n + 6)
    BY <1>1, <1>2
  <2>2. i % 2 # 0 => i \div 2 \in 0..(n + 2) /\ i \div 2 <= n
    BY <2>1
  <2>3. i % 2 # 0 => ModelLine(n, i \div 2) = WrittenLine(i \div 2)
    BY <2>2, LinesAre
  <2>4. QED
    BY <1>2, <1>3, <1>4, <2>1, <2>3
<1>6. s = t
  BY <1>2, <1>4, <1>5, SeqEqual
<1>7. QED
  BY <1>6 DEF s, m, t

\* Nothing of a line is left when what has been written is whole lines.
LEMMA NoHalfLine ==
  ASSUME NEW x \in Seq(Symbols), NEW y \in Seq(Symbols), NEW w \in Seq(Symbols), x \o y = w,
         Len(w) # 0 => w[Len(w)] = Feed,
         \A i \in 1..Len(y) : y[i] # Feed
  PROVE  x = w
<1>1. /\ Len(x \o y) = Len(x) + Len(y) /\ Len(x) \in Nat /\ Len(y) \in Nat
      /\ \A i \in 1..(Len(x) + Len(y)) : (x \o y)[i] = IF i <= Len(x) THEN x[i] ELSE y[i - Len(x)]
  BY ConcatProperties, LenProperties
<1>2. Len(y) = 0
  <2>1. SUFFICES ASSUME Len(y) # 0 PROVE FALSE
    OBVIOUS
  <2> DEFINE m == Len(x) + Len(y)
  <2>2. Len(w) = m /\ m \in 1..m /\ m # 0 /\ ~(m <= Len(x)) /\ m - Len(x) = Len(y)
    BY <1>1, <2>1
  <2> HIDE DEF m
  <2>3. w[m] = y[Len(y)]
    BY <1>1, <2>2 DEF m
  <2>4. Len(y) \in 1..Len(y)
    BY <1>1, <2>1
  <2>5. QED
    BY <2>2, <2>3, <2>4
<1>3. y = <<>>
  BY <1>2, EmptySeq
<1>4. QED
  BY <1>3, ConcatEmptySeq

\* upload_model, receive_model: the file is a whole model, of every point of a
\* workload that left nothing behind, or, when the upload has failed or has not
\* begun, its first lines, through a pipe of any length.
THEOREM WholeOutput == Spec => []OutputIsWhole
<1>1. ASSUME Inv, mpc = "exit0", opt.output = "model"
      PROVE  OutputIsWhole
  <2>1. /\ pipe = <<>> /\ str \in Seq(Symbols) /\ out \in Seq(Symbols)
        /\ \A i \in 1..Len(str) : str[i] # Feed
        /\ Begun \/ Whole
    BY <1>1 DEF Inv, PhaseInv, StreamInv
  <2>2. InPipe = <<>>
    BY <1>1, <2>1 DEF InPipe
  <2>3. Stream = out \o str
    <3>1. Cat(str, <<>>) = str
      BY <2>1, CatEmpty
    <3>2. QED
      BY <2>2, <3>1 DEF Stream, Cat
  <2>4. kernel.points \in Nat
    BY <1>1, KernelFields DEF Inv, Types
  <2>5. CASE Whole
    <3>1. PICK n \in 0..kernel.points : Stream = ModelOf(n) /\ (daemon = "none" => n = kernel.points)
      BY <2>5 DEF Whole
    <3> DEFINE m == 2 * n + 6
    <3>2. n \in Nat /\ m \in 1..m /\ m % 2 = 0
      BY <2>4, <3>1
    <3>3. ModelOf(n) \in Seq(Symbols) /\ Len(ModelOf(n)) = m /\ ModelOf(n)[m] = Feed
      BY <3>2, ModelOfIs
    <3>4. out = ModelOf(n)
      BY <2>1, <2>3, <3>1, <3>3, NoHalfLine
    <3>5. QED
      BY <3>1, <3>4 DEF OutputIsWhole
  <2>6. CASE Begun
    <3>1. PICK k \in 0..(kernel.points + 1) : Stream = Written(k)
      BY <2>6 DEF Begun
    <3> DEFINE m == 2 * k
    <3>2. k \in Nat /\ m \in Nat /\ (m # 0 => m \in 1..m /\ m % 2 = 0)
      BY <2>4, <3>1
    <3>3. Written(k) \in Seq(Symbols) /\ Len(Written(k)) = m /\ (m # 0 => Written(k)[m] = Feed)
      BY <3>2, WrittenIs
    <3>4. out = Written(k)
      BY <2>1, <2>3, <3>1, <3>3, NoHalfLine
    <3>5. QED
      BY <2>4, <3>1, <3>4, BegunIs DEF OutputIsWhole
  <2>7. QED
    BY <2>1, <2>5, <2>6
<1>2. Inv => OutputIsWhole
  BY <1>1 DEF OutputIsWhole
<1>3. QED
  BY <1>2, OrchestratorCorrect, PTL

\* send_coefficients and the others: whatever the kernel models between the two
\* passes over a list, a console gets as many lines as were announced, each a line
\* of the list and in order.
THEOREM ConsoleGetsTheList == Spec => []AnswersAreSnapshots
<1>1. Inv => AnswersAreSnapshots
  BY DEF Inv, AnswerInv
<1>2. QED
  BY <1>1, OrchestratorCorrect, PTL

-----------------------------------------------------------------------------
(* The orchestrator and the consoles together.                             *)

\* The calm part's steps are the orchestrator's, where they do not depend on what
\* makes it calm.
LEMMA CalmMonitor == Calm!MonitorNext => MonitorNext
<1> USE DEF Calm!Monitor, Calm!Exit, Calm!Fail, Calm!Serve, Calm!Received, Calm!consoleVars,
           Calm!mainVars, Calm!workVars, Monitor, Exit, Fail, Serve, Received, consoleVars, mainVars,
           workVars
<1>1. Calm!setup_namespace => setup_namespace
  BY DEF Calm!setup_namespace, setup_namespace
<1>2. Calm!load => load
  BY DEF Calm!load, load, Calm!Loadable, Loadable, Calm!NeedsKernel, NeedsKernel
<1>3. (Calm!load_model => load_model) /\ (Calm!fire_cartridge => fire_cartridge)
  BY DEF Calm!load_model, load_model, Calm!Loaded, Loaded, Calm!fire_cartridge, fire_cartridge,
     Calm!Sym, Sym
<1>4. (Calm!poll => poll) /\ (Calm!poll_returns => poll_returns) /\ (Calm!check_poll => check_poll)
  BY DEF Calm!poll, poll, Calm!poll_returns, poll_returns, Calm!check_poll, check_poll,
     Calm!Ready, Ready
<1>5. (Calm!check_stop => check_stop) /\ (Calm!check_sigchild => check_sigchild)
  BY DEF Calm!check_stop, check_stop, Calm!check_sigchild, check_sigchild, Calm!Terminate, Terminate,
     Calm!kill_cartridge, kill_cartridge, Calm!child_exited, child_exited, Calm!Pause, Pause,
     Calm!Alive, Alive, Calm!Mode, Mode
<1>6. (Calm!upload_model => upload_model) /\ (Calm!upload_trajectory => upload_trajectory)
  BY DEF Calm!upload_model, upload_model, Calm!upload_trajectory, upload_trajectory,
     Calm!Trajectory, Trajectory, Calm!Write, Write, Calm!Sym, Sym, Calm!Feed, Feed
<1>7. /\ Calm!accept_connection => accept_connection
      /\ Calm!receive_end => receive_end
      /\ Calm!process_command => process_command
  BY DEF Calm!accept_connection, accept_connection, Calm!receive_end, receive_end,
     Calm!process_command, process_command
<1>8. (Calm!illegal_command => illegal_command) /\ (Calm!seal_domain => seal_domain)
  BY DEF Calm!illegal_command, illegal_command, Calm!seal_domain, seal_domain
<1>9. (Calm!send_count => send_count) /\ (Calm!send_line => send_line) /\ (Calm!sent => sent)
  BY DEF Calm!send_count, send_count, Calm!send_line, send_line, Calm!sent, sent,
     Calm!File, File, Calm!MoreToSend, MoreToSend
<1>10. QED
  BY <1>1, <1>2, <1>3, <1>4, <1>5, <1>6, <1>7, <1>8, <1>9 DEF Calm!MonitorNext, MonitorNext

LEMMA CalmMain == Calm!MainNext => MainNext
<1> USE DEF Calm!Main, Calm!consoleVars, Calm!monitorVars, Main, consoleVars, monitorVars
<1>1. Calm!read_pid => read_pid
  BY DEF Calm!read_pid, read_pid, Calm!AfterPid, AfterPid, Calm!Pause, Pause, Calm!PipeOpen, PipeOpen,
     Calm!Alive, Alive
<1>2. Calm!receive_model => receive_model
  BY DEF Calm!receive_model, receive_model, Calm!Trajectory, Trajectory, Calm!Feed, Feed, Calm!Sym, Sym
<1>3. Calm!receive_trajectory => receive_trajectory
  BY DEF Calm!receive_trajectory, receive_trajectory, Calm!Trajectory, Trajectory, Calm!Feed, Feed,
     Calm!Sym, Sym
<1>4. (Calm!receive_ends => receive_ends) /\ (Calm!pause => pause)
  BY DEF Calm!receive_ends, receive_ends, Calm!pause, pause, Calm!PipeOpen, PipeOpen, Calm!Alive, Alive
<1>5. Calm!check_monitor => check_monitor
  BY DEF Calm!check_monitor, check_monitor, Calm!ErrorNoticed, ErrorNoticed, Calm!Mode, Mode,
     Calm!kill_cartridge, kill_cartridge, Calm!Alive, Alive
<1>6. QED
  BY <1>1, <1>2, <1>3, <1>4, <1>5 DEF Calm!MainNext, MainNext

LEMMA CalmFails ==
  /\ Calm!monitor_fails => monitor_fails
  /\ Calm!upload_fails => upload_fails
  /\ Calm!receive_fails => receive_fails
BY DEF Calm!monitor_fails, monitor_fails, Calm!upload_fails, upload_fails, Calm!receive_fails,
   receive_fails, Calm!Fail, Fail, Calm!Exit, Exit, Calm!Monitor, Monitor, Calm!Main, Main,
   Calm!workVars, workVars, Calm!consoleVars, consoleVars, Calm!monitorVars, monitorVars

\* What does depend on it is bounds.
LEMMA CalmStep ==
  ASSUME Types, AnswerInv, Calm!Next
  PROVE  Types' /\ AnswerInv'
<1>1. CASE \/ Calm!MonitorNext \/ Calm!MainNext
           \/ Calm!monitor_fails \/ Calm!upload_fails \/ Calm!receive_fails
  <2>1. Next
    BY <1>1, CalmMonitor, CalmMain, CalmFails DEF Next
  <2>2. QED
    BY <2>1, TypesStep, AnswerStep
<1>2. CASE Calm!Event
  <2>1. UNCHANGED <<opt, status, pid, pc, console, cmd, count, lines>>
    BY <1>2 DEF Calm!Event, Calm!Quiet, Calm!monitorVars, Calm!mainVars, Calm!consoleVars
  <2>2. Updated(kernel, kernel')
    BY <1>2 DEF Calm!Event, Updated
  <2>3. Grown(kernel, kernel')
    BY <2>2, KernelGrows DEF Types
  <2>4. Types'
    BY <2>1, <2>3 DEF Types, Grown
  <2>5. QED
    BY <2>1, <2>3, <2>4, NothingAnswered
<1>3. CASE \/ Calm!WorkloadEnds \/ Calm!DaemonEnds \/ Calm!WorkloadStops \/ Calm!WorkloadContinues
           \/ Calm!Interrupt \/ Calm!Ask \/ Calm!AskFails
  <2>1. UNCHANGED <<opt, kernel, status, pid, pc, count, lines>>
    BY <1>3 DEF Calm!WorkloadEnds, Calm!DaemonEnds, Calm!WorkloadStops, Calm!WorkloadContinues,
       Calm!Interrupt, Calm!Ask, Calm!AskFails, Calm!SigChild, Calm!Quiet, Calm!monitorVars,
       Calm!consoleVars, Calm!mainVars, Calm!workVars
  <2>2. Types' /\ Grown(kernel, kernel')
    BY <2>1, KernelFields DEF Types, Grown
  <2>3. CASE Calm!Ask
    <3>1. console = "none" /\ console' = "asked"
      BY <2>3 DEF Calm!Ask
    <3>2. pc \notin {"count", "send"}
      BY <3>1 DEF AnswerInv
    <3>3. QED
      BY <2>1, <2>2, <3>1, <3>2 DEF AnswerInv, AnswersAreSnapshots
  <2>4. CASE Calm!AskFails
    <3>1. pc = "exited" /\ console' = "failed" /\ UNCHANGED cmd
      BY <2>4 DEF Calm!AskFails
    <3>2. QED
      BY <2>1, <2>2, <3>1, NothingAnswered
  <2>5. CASE \/ Calm!WorkloadEnds \/ Calm!DaemonEnds \/ Calm!WorkloadStops \/ Calm!WorkloadContinues
             \/ Calm!Interrupt
    <3>1. UNCHANGED <<console, cmd>>
      BY <2>5 DEF Calm!WorkloadEnds, Calm!DaemonEnds, Calm!WorkloadStops, Calm!WorkloadContinues,
         Calm!Interrupt, Calm!SigChild, Calm!Quiet, Calm!consoleVars
    <3>2. QED
      BY <2>1, <2>2, <3>1, NothingAnswered
  <2>6. QED
    BY <1>3, <2>3, <2>4, <2>5
<1>4. QED
  BY <1>1, <1>2, <1>3 DEF Calm!Next

\* send_coefficients, send_trajectory, send_forensics, send_map, and process_command
\* of the console: with any number of consoles, points and events, over a connection
\* that holds as little as it may, and whatever ends when, what a console writes is
\* the documented answer to its option in the state its command was taken in, or a
\* beginning of it, and after an answer nothing is left in the connection.
THEOREM ListingsAreWhole == MCSpec => []ListingsAreSnapshots
<1> DEFINE I == Types /\ AnswerInv /\ LinkInv
<1>1. MCInit => I
  BY InitPhases, InitAnswer, LinkInit DEF MCInit
<1>2. I /\ [MCNext]_allVars => I'
  <2> SUFFICES ASSUME Types, AnswerInv, LinkInv, [MCNext]_allVars PROVE I'
    OBVIOUS
  <2>1. CASE Next /\ UNCHANGED linkVars
    BY <2>1, TypesStep, AnswerStep, LinkStep
  <2>2. CASE Calm!Next /\ UNCHANGED linkVars
    BY <2>2, CalmStep, LinkStep
  <2>3. CASE (Link!Next \/ UNCHANGED linkVars) /\ UNCHANGED vars
    <3>1. LinkInv'
      BY <2>3, LinkStep
    <3>2. [Next]_vars
      BY <2>3
    <3>3. Types' /\ AnswerInv'
      BY <3>2, TypesStep, AnswerStep
    <3>4. QED
      BY <3>1, <3>3
  <2>4. QED
    BY <2>1, <2>2, <2>3 DEF MCNext, allVars, Part
<1>3. I => ListingsAreSnapshots
  BY ListingsAre DEF AnswerInv, ListingsAreSnapshots
<1>4. QED
  BY <1>1, <1>2, <1>3, PTL DEF MCSpec

=============================================================================
