--------------------------- MODULE MCOrchestrators ---------------------------
(***************************************************************************)
(* The orchestrator of the kernel's modeling agent, and the console with   *)
(* the orchestrator it is connected to, each by itself: a behaviour is of  *)
(* one part, the others stay as they begin.  The calm part is without what *)
(* liveness does not survive: a workload that stops or leaves a process    *)
(* behind.                                                                 *)
(***************************************************************************)
EXTENDS Quixote

CONSTANTS
  CalmCommands, CalmEvents, CalmAsks, \* of the calm part
  Consoles, NoConsole, Options,       \* of the consoles
  MaxPoints, MaxLogs, DuctSize

ASSUME OrchestratorsAssumption ==
  /\ NoConsole \notin Consoles
  /\ Options \subseteq {"none", "C", "E", "F", "M", "P", "S", "T"}
  /\ {MaxPoints, MaxLogs} \subseteq Nat

\* None, an unsigned file, as it is output, and signed ones that can be refused.
SomeFiles == {<<>>,
              <<"aggregate", "state", "seal", "end">>,
              <<"#", "key", "base", "state", "pseudonym", "signature", "end">>,
              <<"key", "state", "forged">>,
              <<"key", "key">>,
              <<"signature", "state">>}

Calm == INSTANCE Quixote WITH
  Commands <- CalmCommands, MaxEvents <- CalmEvents, MaxAsks <- CalmAsks,
  Stops <- FALSE, Daemons <- FALSE

VARIABLES
  part, \* what a behaviour is of
  points, trajectory, forensics, tevents, sealed, aggregate, link_pc, current, todo,
  link_console, option, down, up, left, link_out, taken

Link == INSTANCE ConsoleLink WITH
  pc <- link_pc, console <- link_console, out <- link_out

linkVars ==
  <<points, trajectory, forensics, tevents, sealed, aggregate, link_pc, current, todo,
    link_console, option, down, up, left, link_out, taken>>

allVars == <<part, vars, linkVars>>

MCInit ==
  /\ part \in {"quixote", "quixote calm", "console"}
  /\ Init /\ Link!Init
  /\ part = "quixote calm" => opt.output # "trajectory" /\ opt.file = <<>>
  /\ part = "console" => opt = [mode |-> "process", output |-> "none", file |-> <<>>]
  /\ part # "console" => points = <<>> /\ sealed = FALSE /\ option = [c \in Consoles |-> "none"]

Part(name) == part = name /\ UNCHANGED part

MCNext ==
  \/ Part("quixote") /\ Next /\ UNCHANGED <<linkVars>>
  \/ Part("quixote calm") /\ Calm!Next /\ UNCHANGED <<linkVars>>
  \/ Part("console") /\ Link!Next /\ UNCHANGED <<vars>>

MCSpec == MCInit /\ [][MCNext]_allVars

\* Each part's processes are scheduled fairly, as in its module.
MCFairSpec ==
  /\ MCSpec
  /\ WF_vars(part = "quixote calm" /\ Calm!MonitorNext)
  /\ WF_vars(part = "quixote calm" /\ Calm!MainNext)
  /\ WF_vars(part = "quixote calm" /\ Calm!AskFails)
  /\ WF_vars(part = "quixote calm" /\ workload = "dying" /\ Calm!WorkloadEnds)
  /\ WF_linkVars(part = "console" /\ Link!Orchestrator)
  /\ \A c \in Consoles : WF_linkVars(part = "console" /\ Link!Console(c))

-----------------------------------------------------------------------------
\* send_coefficients, send_trajectory, send_forensics, send_map, and what a
\* console makes of them: as many lines are sent as were announced, each of them
\* a line of the list, in order, and the console writes a list as of one moment,
\* and nothing is left in the connection.
ListingsAreSnapshots ==
  AnswersAreSnapshots /\ Link!AnswersAreSnapshots /\ Link!NothingLeftOver

\* A console that has asked is answered, after those that came before it, or
\* fails, or its orchestrator has ended, and no console keeps an orchestrator.
AskingEnds ==
  /\ part = "quixote calm" /\ console \in {"asked", "received"} ~>
       console \in {"answered", "failed"}
  /\ Link!AskedIsAnswered
  /\ Link!AnsweringEnds

=============================================================================
