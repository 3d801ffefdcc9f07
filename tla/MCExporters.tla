----------------------------- MODULE MCExporters -----------------------------
(***************************************************************************)
(* The exporters of events, the control file every orchestrator writes and *)
(* the agent in an SGX enclave, each by itself: a behaviour is of one      *)
(* part, the others stay as they begin.                                    *)
(***************************************************************************)
EXTENDS QuixoteExport

CONSTANTS RootEvents,   \* how many events the root namespace has
          RootStrings,  \* the strings of the utility's queue
          RootKept,     \* a bound on what is kept of its output
          Writes,       \* a bound on the calls of the control file's object
          Sleepers,     \* the processes these release
          SgxEvents,    \* the events of the enclave
          SgxAsync,     \* those of processes that cannot sleep
          SgxKnown,     \* its model file
          SgxEnforce,   \* are violations of its model enforced?
          SgxRefusals,  \* a bound on the refusals of the kernel
          SgxFailures,  \* a bound on the calls that fail
          SgxListings   \* a bound on its listings

\* What is to be written is kept.
ASSUME ExportersAssumption ==
  /\ RootEvents \in Nat /\ RootKept \in Nat /\ RootEvents <= RootKept
  /\ RootStrings \in Nat \ {0}
  /\ SgxKnown \in Seq(SgxEvents)
  /\ SgxEnforce \in BOOLEAN

\* A model file with one point.
OnePoint == <<"e1">>

Calm == INSTANCE QuixoteExport WITH
  Events <- 3, PipeSize <- 3, Mode <- "cartridge", Faults <- FALSE, Races <- FALSE

\* A container, whose kill is another process.
Runc == INSTANCE QuixoteExport WITH Events <- 3, PipeSize <- 1, Mode <- "cartridge"

VARIABLES
  part, \* what a behaviour is of
  utility_generated, read, slots, cursor, Queued, utility_output, utility_stop, utility_pc, key,
  cmdstr, bufr, ns, control_pc, calls, call, written, refused, sealed, points, trajectory,
  forensics, TE_events, sgx_cursor, poisoned, broken, process, ocall, sgx_refused,
  judged, taken, Model_Error, mode, sgx_killed, listing, sgx_output, faults, listings

Utility == INSTANCE RootExport WITH
  Events <- RootEvents, QueueSize <- RootStrings, Follow <- FALSE, Stops <- TRUE, Faults <- TRUE,
  MaxOutput <- RootKept,
  generated <- utility_generated, output <- utility_output, stop <- utility_stop,
  pc <- utility_pc

Control == INSTANCE TSEMcontrol WITH
  Type <- "external", Pids <- Sleepers, Calls <- Writes, None <- "none", pc <- control_pc

Sgx == INSTANCE SanchoSGX WITH
  Events <- SgxEvents, Async <- SgxAsync, Long <- {}, Known <- SgxKnown,
  Violation <- "violation", Empty <- "empty", Garbage <- "garbage", GiveText <- TRUE,
  Enforce <- SgxEnforce, Refusals <- SgxRefusals, Faults <- SgxFailures, Listings <- SgxListings,
  cursor <- sgx_cursor, output <- sgx_output, refused <- sgx_refused, killed <- sgx_killed

Follower == INSTANCE RootExport WITH
  Events <- RootEvents, QueueSize <- 1, Follow <- TRUE, Stops <- FALSE, Faults <- FALSE,
  MaxOutput <- RootKept,
  generated <- utility_generated, output <- utility_output, stop <- utility_stop,
  pc <- utility_pc

KernelControl == INSTANCE TSEMcontrol WITH
  Type <- "internal", Pids <- Sleepers, Calls <- Writes, None <- "none", pc <- control_pc

SgxEmpty == INSTANCE SanchoSGX WITH
  Events <- SgxEvents, Async <- SgxAsync, Long <- {}, Known <- SgxKnown,
  Violation <- "violation", Empty <- "empty", Garbage <- "garbage", GiveText <- FALSE,
  Enforce <- SgxEnforce, Refusals <- SgxRefusals, Faults <- SgxFailures, Listings <- SgxListings + 1,
  cursor <- sgx_cursor, output <- sgx_output, refused <- sgx_refused, killed <- sgx_killed

utilityVars ==
  <<utility_generated, read, slots, cursor, Queued, utility_output, utility_stop, utility_pc>>

controlVars ==
  <<key, cmdstr, bufr, ns, control_pc, calls, call, written, refused>>

sgxVars ==
  <<sealed, points, trajectory, forensics, TE_events, sgx_cursor, poisoned, broken, process, ocall,
    sgx_refused, judged, taken, Model_Error, mode, sgx_killed, listing, sgx_output, faults, listings>>

allVars == <<part, vars, utilityVars, controlVars, sgxVars>>

MCInit ==
  /\ part \in {"export", "export runc", "export calm", "root", "follower", "control", "kernel control",
              "sgx", "sgx empty"}
  /\ Init /\ (IF part = "follower" THEN Follower!Init ELSE Utility!Init) /\ Control!Init /\ Sgx!Init
  /\ sealed => part \in {"sgx", "sgx empty"}

Part(name) == part = name /\ UNCHANGED part

MCNext ==
  \/ Part("export") /\ Next /\ UNCHANGED <<utilityVars, controlVars, sgxVars>>
  \/ Part("export runc") /\ Runc!Next /\ UNCHANGED <<utilityVars, controlVars, sgxVars>>
  \/ Part("export calm") /\ Calm!Next /\ UNCHANGED <<utilityVars, controlVars, sgxVars>>
  \/ Part("root") /\ Utility!Next /\ UNCHANGED <<vars, controlVars, sgxVars>>
  \/ Part("follower") /\ Follower!Next /\ UNCHANGED <<vars, controlVars, sgxVars>>
  \/ Part("control") /\ Control!Next /\ UNCHANGED <<vars, utilityVars, sgxVars>>
  \/ Part("kernel control") /\ KernelControl!Next /\ UNCHANGED <<vars, utilityVars, sgxVars>>
  \/ Part("sgx") /\ Sgx!Next /\ UNCHANGED <<vars, utilityVars, controlVars>>
  \/ Part("sgx empty") /\ SgxEmpty!Next /\ UNCHANGED <<vars, utilityVars, controlVars>>

MCSpec == MCInit /\ [][MCNext]_allVars

\* Each part's processes are scheduled fairly, as in its module.
MCFairSpec ==
  /\ MCSpec
  /\ WF_vars(part = "export calm" /\ Calm!Monitor)
  /\ WF_vars(part = "export calm" /\ Calm!Main)
  /\ WF_utilityVars(part = "follower" /\ Follower!Step)

-----------------------------------------------------------------------------
\* Until it is told to stop, the utility for the root namespace writes the events
\* in the order they were generated, each of them once, and those it has read
\* are written or in a string that will be; a follower has written what it read.
UtilityIsInStep ==
  /\ Utility!OutputInOrder
  /\ part = "root" => Utility!NothingOverwritten
  /\ part = "follower" => Utility!OutstandingAreWritten

\* The kernel gets the command of each call and nothing else, as long as it has
\* not refused one, and an external agent's namespace has its key.
CommandsAreWritten ==
  /\ Control!WrittenIsTheCommand
  /\ part = "control" => Control!ExternalHasKey

\* Once update has returned, its process sleeps on only if the kernel refused to
\* set its status; it is untrusted exactly when its point in the enclave is
\* invalid, and not let go at all when update failed.  A violation that cannot
\* wait ends the workload; and while nothing has failed a listing is the list.
EnclaveIsInStep ==
  /\ Sgx!WokenUnlessRefused /\ Sgx!TrustIsModel /\ Sgx!FailedSleeps /\ Sgx!AsyncViolationKills
  /\ faults = 0 => Sgx!ListingIsWhole

\* The end of the workload ends the exporter, runc ends a workload it is to kill,
\* and a follower writes every event.
ExportingEnds ==
  /\ part = "export calm" /\ workload = "ended" ~> pc = "ended"
  /\ part = "export calm" /\ pc = "kill" /\ workload = "running" ~> workload = "ended"
  /\ \A e \in 1..RootEvents :
       part = "follower" /\ utility_generated >= e ~> \E i \in DOMAIN utility_output : utility_output[i] = e

=============================================================================
