# Quixote: a TLA+ verification project

Quixote runs a workload in a security modeling namespace of a TSEM kernel and
decides, event by event, whether its processes may still be trusted.  This
directory models the parts of it that decide, the processes that carry the
decisions and the transports between them, checks the models with TLC, and
proves theorems about them with TLAPS.  Paths below are relative to `src/`.

## 1. The system

### Components, their state and their operations

| component | state | operations | hard behaviour | what makes it correct |
|---|---|---|---|---|
| **Modeling agent**: `SecurityModel/TSEM.c`, `SecurityPoint.c`, `EventModel.c` | list of security points (count, validity), base point, aggregate, measurement, trajectory, forensics, pseudonyms, `sealed`, `loading`, `poisoned`, `logging` | `update`, `load` (nine kinds of lines), `set_aggregate`, `add_TSEM_event`, `disable_logging`, `seal`, the listings | a call that fails half way; lines and events in any order; an aggregate that comes late | the verdict on an event is the class of its point, classes are final, a sealed model gains no valid point, the list is a set, the logs pair up with it, the measurement covers it |
| **Security event**: `SecurityModel/SecurityEvent.c`, `COE.c`, `Cell.c` | the members of the structures of a context of execution and of a cell | `parse`, `evaluate_pseudonym`, `measure`, `format`, `reset` | an object used again; what is parsed, hashed and written is listed in three places for each kind of event | a point depends on the description and on nothing else |
| **Event stream**: `lib/TSEMevent.c` | a buffer with the bytes of descriptions not yet taken | `read_event`, `fetch_event`, field accessors | input cut anywhere; more input between FIONREAD and read; a move within the buffer | every description once, whole, in order, without waiting for the next |
| **Userspace orchestrator**: `Quixote/quixote-us.c` | flags set by signal handlers, `Model_Error`, the pid of the latest `runc`, the pipe | `child_monitor`, `process_event`, `process_command`, `kill_cartridge`, `load_model`, `output_model`, and in a second process the monitor of `fire_cartridge` | two processes, a container, `runc`, signals, a bounded pipe, a console | only valid events are let through as trusted; every waiting process is answered; a violation that cannot be refused stops the workload |
| **Kernel orchestrator**: `Quixote/quixote.c` | as above, with the model in the kernel behind pseudo-files | loading a model line by line, listings, the two outputs, three modes | a file of the kernel that grows while it is read; SIGCHLD for a stop; a pipe the workload inherits | a whole model or none, listings as of one moment, no workload without orchestrator |
| **Co-processor orchestrator**: `Quixote/quixote-mcu.c` | as quixote-us, with the model at the other end of a serial line | the same, as commands and replies | an answer that does not come, or one too many; signals during a reply | replies stay in step with commands |
| **Firmware**: `Sancho/Nordic/NRF52840-DK/Sancho/sancho-interpreter.c` | one agent per session | `sancho_interpreter` and its handlers | a handler that fails does not reply; no logs are kept | what is announced is what is sent |
| **Enclave agent**: `Sancho/SGX/*`, `Quixote/quixote-sgx.c`, `quixote-sgx-u.c` | an agent inside the enclave, a buffer per call | the calls into the enclave and its calls out | one of two sides fails between two steps | a process whose event was modelled is woken, with the status of its point |
| **Exporters**: `Quixote/quixote-export.c` | a queue of strings with a cursor; a monitor, a pipe, flags | `export_root`, `_get_event`, `_export_events`, the loops of a workload | a full queue, a full pipe, a stop, an output that fails | every event once, in order; the exporter and the workload end |
| **Control file**: `lib/TSEMcontrol.c` | the command being written | `release`, `discipline`, the set-up commands | the kernel refuses a pid; the refused command stays in the buffer | what is written is the command of the call |
| **Console**: `Quixote/quixote-console.c` | a connection | one command, one answer, listings with a count | a model that changes between count and lines; an answer that does not come | an answer is the list as of one moment |
| **Management socket**: `lib/LocalDuct.c` | a path, a backlog, a connection | `init_server`, `init_port`, `accept_connection`, `init_client`, `whack` | crashes leave paths; paths are removed by name | whoever runs can be reached |
| **Serial line**: `lib/TTYduct.c`, `Sancho/Nordic/NRF52840-DK/Sancho/TTYduct.c` | the device, `poisoned`; the receive state, the packet buffer and the flags of the USB handler | `send_Buffer`, `receive_Buffer`, `accept_connection` | handlers that change the state a loop waits for; a host that leaves | whole messages in order |
| **Xen ring**: `lib/XENduct.c`, `Sancho/Xen/Sancho/XENduct.c` | a shared page with a size and a status byte, events, xenstore nodes | connect, send, receive, reset on both sides | both ends write the status byte | replies to commands, in order |
| **Broker transport**: `lib/MQTTduct.c` | `count`, `poisoned`, the library's thread | `init_publisher`, `send_Buffer`, `reset`, the callbacks | two threads and one counter | order, and nothing lost at the end |
| **Authenticated pipe**: `lib/PossumPipe.c`, `PossumPacket.c`, `Duct.c` | two shared keys that move with each packet | the start of both ends, packet 1, packets | both ends move the same key | what is received is what was sent, by the peer that was verified |
| **Identity manager**: `lib/IDmgr.c`, `IPC.c` | a shared segment with one request and one answer, a semaphore, two names | `setup`, `attach`, `lock`, `get_idtoken`, `set_idtoken` ... | clients share one answer; processes are killed between any two steps | the answer is to the request |
| **Crypto and TPM objects**, **SRDE**, **cboot**, **utilities**, **other firmware** | | | | not modelled (section 6) |

### How they interact

The kernel suspends a process that runs into a security event and exports a
description.  The *monitor* process reads the kernel's event file and copies it
into a pipe; the *orchestrator* reads the pipe (event stream), parses the event
(security event), gives it to the agent, in its own address space, in an
enclave, at the end of a serial line or of a Xen ring, and tells the kernel
through the control file that the process is `trusted` or `untrusted`.  Events
in atomic context are exported without suspending anything: the only answer to
a violation is to kill the container, for which the orchestrator forks `runc
kill`.  With `quixote` the agent is the kernel's and only violations and listings
come out of it; `quixote-export` takes no decision and passes events on, to a
file or to a broker.  The console connects to a socket and asks for listings,
for a seal or for the map.  At the end, or from the map, a model file is written
that another session loads.  Devices that talk to each other over the network
verify each other by the authenticated pipe, with identities they ask the
identity manager for.

## 2. The modules

| module | models | composes |
|---|---|---|
| `TMA` | what an agent promises: points are unknown, valid or invalid | |
| `TSEM` | the agent of `TSEM.c`, one action per method and outcome | implements `TMA` |
| `TSEMevent` | bytes to descriptions | |
| `SecurityEvent` | description to point, and back to text | |
| `ModelFile` | the model of a session as the model of the next | extends `TSEM` |
| `QuixoteUS` | orchestrator, monitor, runc, workload, console | `TMA` as the agent |
| `SanchoLink` | orchestrator and firmware over a serial line | `TMA` as the agent |
| `SanchoSGX` | orchestrator and enclave | |
| `Quixote` | main, monitor and workload of `quixote.c` in three modes, with a console | |
| `ConsoleLink` | `quixote-console` and the answers of `quixote-us` | |
| `QuixoteExport`, `RootExport` | `quixote-export` for a workload, and for the root namespace | |
| `TSEMcontrol` | the control file, for each type of namespace | |
| `LocalDuct` | orchestrators and consoles at one path | |
| `PortDuct` | host and USB firmware, packet by packet | |
| `XENduct` | orchestrators, a stub domain and the ring | |
| `MQTTduct` | the publisher and the library's thread | |
| `PossumPipe` | two devices | |
| `IDmgr` | daemons and clients | |

`TSEMProofs`, `QuixoteUSProofs`, `IDmgrProofs`, `SanchoLinkProofs`, `QuixoteProofs`,
`QuixoteExportProofs` and `XENductProofs` hold the theorems about the modules they are named
for.  `TSEMProofs` also holds those about `ModelFile` and the other parts of `MCEvents`,
`QuixoteExportProofs` those about the other parts of `MCExporters`, and `QuixoteProofs`
those about the consoles of `MCOrchestrators`, which they extend; `TransportsProofs` holds
those about `LocalDuct` and the other parts of `MCTransports`.  `MCTSEM`, `MCQuixoteUS`,
`MCSanchoLink` and `MCSecurityEvent` give one module its values for TLC; the other MC
modules compose several.

The modules build on each other through `TMA`: `TSEM` is shown to implement it
(by TLC in `tsem`, for all instances in `TSEMImplementsTMA`), and the two
orchestrators are composed with it in place of `TSEM`.  What an orchestrator
sees of the agent is the verdict, which `TMA` fixes.

Parts.  Components that do not share state are checked side by side in one
module each for what belongs together: `MCTransports`, `MCOrchestrators`,
`MCExporters` and `MCEvents` hold several components and a variable `part`; a
behaviour is of one part, chosen by the initial state, and the other components
stay as they begin.  A component can be in more than one part, with other
constants: a *quiet* or *calm* part is without the faults that its liveness does
not survive.  The state space is the disjoint union of those of the parts.

### TSEM

The variables have the names of the fields of `struct NAAAIM_TSEM_State`.  A
method is called by one thread at a time, so it is one action; where it can fail
after it has changed something there is an action for the failure
(`UpdateFails`, `LoadFails`, `SetAggregateFails`).  A measurement is the
sequence of what extended it: the hash is taken to be injective.  A point is a
model value, and an event carries the point it measures to with and without its
file masked as a pseudonym.  A signature line is valid or not for the lines
before it.  `load` is split by the kind of the line.

### TSEMevent and SecurityEvent

In `TSEMevent` a byte is its position in the stream, so a byte that is lost,
repeated or moved is seen.  `Write` is one `write` of the monitor, of any
length; `whole` records whether every one ended with a line feed, which is so
unless a description is longer than the monitor's buffer of 2048 bytes.  The
reader's steps are the system calls of `read_event`, one `fetch_event`, and
`process_event`.  The buffer is modelled over its whole allocation, with the
zero bytes `memset` writes, because `strchr` reads it that way.

In `SecurityEvent` a description is a function from keys to values, and the
object is a function from the members of its structures to values.  Each step
of a use (`parse`, `evaluate_pseudonym`, `measure`, `format`, `reset`) is an
action over all members; a member that nothing has set has what `malloc` or the
event before has left in it (`Heap`).  `identity` is the members that were
hashed, each with the value it had: two points are equal when these are.

### QuixoteUS

`mon` and `pc` are where the two processes are.  A poll that would sleep is a
state of its own (`blocked`), and a signal moves a process on only from there:
that is what makes a wakeup that comes between the look at a flag and the call
of poll a lost one.  `queue`, `carried`, `pipe` and `batch` are where an event
can be on its way.  `kill_process` is what the static variable of
`kill_cartridge` and the status of its `waitpid` amount to, the uninitialised
status included, and `runcs` the `runc`s that are at work.  `jammed` says that
the control file refuses what is written because a refused command is still in
front of it: `_write_cmd` clears its buffers after a write that succeeds only
(`TSEMcontrol` is about that buffer).  What the kernel does with two commands in
one write is not in this repository, so the model allows both outcomes.

### ModelFile

A session may load lines, fires, takes the kernel's aggregate and events, may be
sealed, and ends by `output_model` or by `send_map` with the console writing the
lines; a new agent loads them and runs again, on a host with the same or another
aggregate.  The agent is the whole of `TSEM`.

### SanchoLink and SanchoSGX

`down` and `up` are the two directions of the line.  A reply carries the command
it was made for, which the code does not send: that is how `ReplyAnswersCommand`
can tell that two ends are out of step.  `Init` covers what loading a model
before the workload starts can leave: any set of valid points, sealed or not.
In `SanchoSGX` a call into the enclave is an action.  The update for a process that sleeps
is two: `add_event` changes the model, and the call out of the enclave by which it has the
process woken is an action of its own (`discipline_ocall`), which the kernel can refuse, or
which the enclave cannot make (`ocall_fails`), when the model has the event already.  `ocall`
is the call that is under way, `judged` the events update has succeeded for, `process` what
became of their processes.  quixote-sgx gives update a string nothing has filled
(`GiveText = FALSE`, the part *sgx empty*), so its model never grows; the caller with
`GiveText = TRUE`, the part *sgx*, is `Sancho/SGX/test-ISOidentity-enclave.c` (`:241`, `:265`),
which calls the same object as its interface asks, with the loop and commands of the program.

### Quixote and ConsoleLink

In `Quixote` the workload is a variable of its own (running, stopped, dying,
ended), and so is a process it leaves behind.  The lists of the kernel only grow,
so a list is its length; the program reads one twice, to count and to send it,
and the kernel goes on modelling in between.  What can fail beside the loading are the upload
(`upload_fails`), the polls, connections, lists and messages of the monitor
(`monitor_fails`), and main's own file and its reading of the pipe (`receive_fails`), after
which main is `"failed"`: it has neither killed nor waited.  In `ConsoleLink` the orchestrator
models nothing while it answers; `taken` is what the answer should be, the state
when the command was taken.

### The exporters and TSEMcontrol

`QuixoteExport` has main, the monitor and the workload with their pipe.  Beside the output
(`output_fails`) each process can fail to become its user (`drop_root_fails`,
`set_user_fails`) and to read (`read_event_fails`, `fetch_event_fails`,
`monitor_read_fails`); a main that fails that way is `"failed"`, a monitor that leaves
its loop with the workload running too.  A `runc` that nobody waits for is `killing`.
`RootExport` the queue with its strings, its cursor and its count, which is all
the utility keeps of events.  In `TSEMcontrol` the text of a command is the
sequence of the commands that were added to it, so a write of more than one is seen.

### The transports

In `LocalDuct` a path is `None` or the orchestrator whose socket it names,
which may be gone.  `XENduct` has the status byte with its two bits, written
as a whole by either end; events are level flags that are cleared when taken.
`PortDuct` is a sequence of packets in each direction, the four flags of the USB
handler, and the program counters of the loops that wait for them.  `MQTTduct`
counts modulo `Width`; an increment is a read and a write, between which the
other thread can come when `Races`.  `PossumPipe` has keys as sequences of what
was hashed into them: ends agree exactly when these are equal; a packet is
enciphered for a key and is refused by another.  `IDmgr` has a segment and a
semaphore per daemon, and two names that lead to one of them each.

## 3. The properties and the runs

| run | what is in it | shows |
|---|---|---|
| `tsem` | `TSEM` with 2 points, 2 events, one of them masked by a pseudonym, the kinds of lines, 2 bases, counts to 2, logging on and off | `TypeOK`, `PointsDistinct`, `LogsPairUp`, `MeasurementAppendOnly`, `RefinesTMA`, `ClassesAreFinal`, `SealedIsFrozen` |
| `events` | parts *stream* (10 bytes with 4 descriptions, one of them empty, cut in every way), *event* (every kind of event, every family of addresses, two descriptions through one object), *files* (3 points, 2 aggregates, 2 bases, a session, its file, a session) | `StreamIsWhole`, `LinesAreProcessed`; `PointIsOfTheEvent`; `OutputKeepsMeasurement`, `VerdictsAreKept` |
| `quixote_us` | `QuixoteUS` with 2 points, 2 processes, 2 events, 1 console command, a pipe of 2; runc may fail, the agent may fail, the user may interrupt | `TrustedMeansValid`, `WaitingIsInFlight` |
| `quixote_us_live` | the same with 1 point and a pipe of 1; the agent may fail | `WaitingIsAnswered`, `ViolationStopsWorkload`, `UnmodelledIsKilled` |
| `sancho_link` | `SanchoLink` with 2 points, 2 processes, 2 events, 1 request of 7 kinds, faults and signals | `ReplyAnswersCommand`, `TrustedMeansValid`, `WaitingIsAnswered`, `ViolationStopsWorkload` |
| `transports` | parts *local* (`LocalDuct`), *xen*, *mqtt*, *port*, *pipe*, *identity* and their quiet forms | `RunningIsReachable`, `OnlyCrashLeavesPath`, `XenIsInStep`, `PublishedInOrder`, `PortIsInStep`, `PipeIsInStep`, `IdentityIsOwn`, `WaitsEnd` |
| `orchestrators` | parts *quixote* (three modes, three outputs, six model files, 4 commands, stops, left processes, and a monitor, upload or main that fails), *quixote calm* (2 commands), *console* (2 consoles, every option, 2 points, a socket of 1) | `WholeModelIsLoaded`, `ListingsAreSnapshots`, `OutputIsWhole`, `LeavesNoWorkload`, `AskingEnds` |
| `exporters` | parts *export* (a process, 4 events, a pipe of 2), *export runc* (a container, 3 events, a pipe of 1) and *export calm*, *root* (5 events, a queue of 2), *follower* (a queue of 1), *control* and *kernel control* (4 calls for 2 pids), *sgx* (3 events, 1 in atomic context, sealed or not, a refusal, a call that fails) and *sgx empty* | `NothingLostOnTheWay`, `LeavesNoWorkload`, `UtilityIsInStep`, `CommandsAreWritten`, `EnclaveIsInStep`, `ExportingEnds` |
| `tsem_measurement`, `quixote_us_output`, `sancho_link_listing`, `coe_measurement` | one property each that the repository states and the code does not have | section 4 |

A group property such as `XenIsInStep` is the conjunction of the properties of
its component that hold, each stated and explained in the component's module.

Why the bounds are enough.  The agent treats points alike and looks at one at a
time, so two make a point that is hit and one that is not.  The description
stream needs a buffer that is grown, reused with less, left with a partial line,
and left with several lines; ten bytes cut in every way give all of these.  An
object for events is the same again after two uses, since `reset` and a `parse`
see no more of the past than what the last use has left.  Two processes and two
events give a verdict on one while the other waits, dies, or is in another of
the four places; a pipe of one is full as soon as the monitor is ahead.  One
command of the console is enough to seal at any moment.  Two orchestrators make
one that finds what another has left, and a queue of two one that wraps with
more to come.  Two packets in each direction move each key after a key was
moved; two daemons one after the other give one that finds the names, the
segment and the clients of another.  On the USB port a packet of two bytes (`PortBlock`) and
commands of 1, 2, 3 and 5 give one that is smaller than a packet, one that fills it, and one
and two packets with a rest.

Bounds named in the modules: `MaxCount` (hits of a point), `MaxExtensions` (extensions by
lines that then fail, the only ones a point does not bound), `MaxTEvents`, `MaxEvents`,
`MaxCommands`, `MaxRequests`, `MaxAsks`, `MaxPoints`, `MaxLogs`, `MaxOutput`, `PipeSize`,
`QueueSize`, `DuctSize`, `StreamLength`, `Lines`, `Calls`, `Requests`, `Packets`,
`Sessions`, `Losses`, `Width`, `ToSend`, `Refusals`, `Faults`, `Listings`, in `MCExporters`
`RootEvents`, `RootStrings`, `RootKept`, `Writes`, `SgxRefusals`, `SgxFailures`,
`SgxListings`, in `MCTransports`
`PortCommands` and `PortSessions`, and in `MCOrchestrators` `CalmEvents` and
`CalmAsks`.  How many take part is said by sets of model values (`Servers`, `Clients`,
`XenHosts`, `Identities`) or by a number (`Daemons`).

Deadlock is checked for the agent (`tsem`).  `CHECK_DEADLOCK FALSE` is set where
the system stops: when the stream is used up, when the workload and its
orchestrator have ended, when every orchestrator and console that was to be
started has.

### Fairness

Processes and threads the system schedules are weakly fair, each by itself:
reader, monitor, orchestrator, firmware, main loop, the library's thread, a
console or a client that is in the middle of an exchange.  A `runc` comes to an
end.  Nothing is assumed of the workload, of when a console asks or an
orchestrator is started, or of the user.  A `runc` may fail in `quixote_us`, and
in `quixote_us_live` it succeeds, because nothing tries again when it does not;
`quixote_us_live` has no interrupts, since the stop flag is looked at only when
poll is interrupted, so a signal that comes at another moment is lost.  In the
quiet parts of `transports` nobody is killed, and the broker is reached; in those
of `orchestrators` and `exporters` a workload does not stop or leave processes
behind, and no signal comes between the look at a flag and poll.  What can fail need not:
the actions that end a process for a failure are in the next-state relations and in no
fairness condition.

Each property of a passing run has a mutant of a mapped definition, written
beside it, that the run refutes.

## 4. What the code does not do

Four runs end in a violation:

* `tsem_measurement`: `set_aggregate` starts the measurement again without the
  points that were loaded before it.
* `quixote_us_output`: the monitor can miss SIGCHLD between its look at the flag
  and poll, and no model is output.
* `sancho_link_listing`: the forensics listing announces none and sends all the
  invalid points.
* `coe_measurement`: `fsgid` is in no point, `fsuid` is in it twice.

`PROJECT.json` lists these and further findings, each with the property of the
module that states what was expected, where one does (the others are slips that
were met while modelling and that no behaviour of a model is needed for).  Those
without a run of their own are reproduced by a configuration of the module with
these constants (`Spec`, or `FairSpec` for a liveness property, deadlock off):

| module | property | constants that matter |
|---|---|---|
| `TSEMevent` | `MoreMeansAnotherLine` | `StreamLength` and `Newlines` as in `Events.cfg` |
| `SanchoLink` | `RequestIsAnswered` | `Requests = {"map"}`, one event, no faults, no interrupts |
| `LocalDuct` | `RunningIsReachable` | `Exclusive = FALSE`, three orchestrators, two consoles |
| `ConsoleLink` | `MapDoesNoHarm`, `InteractiveByDefault` | one console, `Options` with `"M"`, and with `"none"` |
| `Quixote` | `TrajectoryIsOutput`, `ModelIsOutput` | mode `process`, that output, no file, no commands |
| | `DenialsDoNoHarm`, `ErrorTerminatesWorkload` | `Commands = {"events"}`, `{"seal"}`; one command |
| | `WaitsForTheMap` | mode `process`, an output, no file, no commands |
| | `AskedIsAnswered`, `StopTerminatesWorkload` | `Stops = TRUE` and `Commands = {"state"}`; mode `execute` |
| `XENduct` | `WaitingEnds` | one orchestrator, `StubReady = FALSE`; or `StubReady = TRUE`, `Reset = {3}` |
| | `StubStaysUp`, `ConnectionIsToOne` | two orchestrators, `Exclusive = FALSE`; `Kills = TRUE` |
| | `FitsIntoPage`, `FailedInitIsReported` | the longest command of `MaxReceiveSize`; `InitFaults = TRUE` |
| `MQTTduct` | `DrainedBeforeDestroyed`, `WhackEnds`, `SuccessMeansConnected` | two messages; `Races = TRUE` for the first two, or `Losses = 1` for the second; `Refusals = TRUE` |
| `RootExport` | `OutstandingAreWritten`, `NothingOverwritten`, `StopEnds` | `QueueSize = 2`, `Follow = TRUE`; `Stops = TRUE` for the third |
| `QuixoteExport` | `EveryEventIsExported` | mode `cartridge`, two events, a pipe of two, no faults; or with `Faults = TRUE` |
| | `EndIsNoticed` | `Races = TRUE`; or `Stops = TRUE` with three events and a pipe of one |
| | `KilledEnds`, `FailureKills` | `Stops = TRUE` with `Root = FALSE` or mode `execute`; `Faults = TRUE` |
| `TSEMcontrol` | `WrittenIsSupplied` | three calls for two pids |
| `PortDuct` | `SyncIsAnswered`, `SizeIsSize`, `ClosureEnds` | two sessions, `Leaves = {"sync"}`, and `{"wait"}` for the other two |
| `SanchoSGX` | `EventIsModelled`, `UpdatedIsWoken`, `TrajectoryIsWritten` | `GiveText = FALSE`; `Refusals = 1`; no event in atomic context |
| | `ListingIsWhole`, `ReturnedIsValid` | `Long` an event, and the violation |
| `SecurityEvent` | `PortIsOfTheEvent`, `FormattedIsParsed`, `AddressIsMeasured` | as in `COEMeasurement.cfg` |
| `PossumPipe` | `PacketsMayCross`, `NeverSpins` | `Alternate = FALSE`; `Cuts = TRUE` |
| `IDmgr` | `NeverStuck`, `DaemonIsReachable`, `DaemonIsSignalled`, `LockIsObtained` | `Hoists`; `Overlap`; `Early`; `Kills`, each alone TRUE |
| | `OneExchange` | `Interrupts`; or `Overlap` with `Early` |

The passing properties carry the exceptions the code needs, in the open:
`TrustedMeansValid` speaks of runs without `Model_Error`, after which processes
are released unmodelled (`UnmodelledIsKilled` says what becomes of them);
`WaitingIsInFlight` and `WaitingIsAnswered` except `jammed`; `WaitingIsAnswered`
of `SanchoLink` excepts `Unanswerable`, the replies the firmware does not send;
`OutputKeepsMeasurement` is about a session that loaded no model and had the
kernel's aggregate before it was sealed, and holds until the next session sees a
violation; `PointIsOfTheEvent` excepts the members in `Unmeasured` and the ports
that are never parsed; `LeavesNoWorkload` of `Quixote` excepts a main that fails at its own
file or at the pipe, and that of `QuixoteExport` a main that fails before it waits and a
monitor that fails, which main takes for one that has ended; `OutputIsWhole` is, when the
upload failed, about the lines that came; `WokenUnlessRefused` excepts a process whose
release the kernel refused, and the listings of an enclave count until a call has failed;
`UtilityIsInStep` is about a utility that does not follow, or has a queue of one
string; `CommandsAreWritten` holds until a command is refused;
`PipeIsInStep` asks for the absence of failures only of ends that take turns.

## 5. The proofs

`TSEMProofs` proves of the agent, for every set of points, events, lines, aggregates,
bases, pseudonyms and pids and for all bounds:

* `TypeCorrect`: `Spec => []TypeOK`;
* `NoDuplicatePoint`: `Spec => []PointsDistinct`;
* `MeasurementOnlyExtended`: `Spec => MeasurementAppendOnly`;
* `TSEMImplementsTMA`: `Spec => RefinesTMA`;
* `NoClassChanges`, `SealedGainsNoValidPoint`: the action properties of `TMA`,
  of the object;
* `ForensicsPairUp`: `Spec => []LogsPairUp`.

They rest on the named assumptions of `TSEM` (`EventsAssumption`,
`EntriesAssumption`, `ValuesAssumption`), which TLC evaluates on every run.
The argument: `TypeOK` is inductive.  With it, every step either keeps the list
of points up to counts (`SamePoints`) or, when the object is not poisoned, adds
one point that is in no entry, valid exactly if the model is not sealed
(`Gains`); lemma `PointsStep` splits `Next` into these two cases once, and
`PointsDistinct`, the refinement and the finality of classes follow from them.
`PointsDistinct` is inductive with `TypeOK` because `Gains` requires that the
point is not mapped.  The refinement maps `status` to the class of every point:
a hit or a new point by an event is `Judge`, a line `Admit` or a stutter, a
failure `Fail` or `Collapse`.  The measurement is followed separately, by
`PrefixStep`.

The module proves the same way of two sessions one after the other (`ModelFile`), the
second of which loads what was written of the first:

* `FileKeepsMeasurement`: `SessionSpec => []OutputKeepsMeasurement`;
* `FileKeepsVerdicts`: `SessionSpec => []VerdictsAreKept`.

Beside the assumptions of `TSEM` they need `FileAssumption`, that no aggregate is the
value that stands for none.  `SessionInv` has, beside the types and `PointsDistinct`,
three parts.  `FirstInv` is about the first session: what it is measured by is its
aggregate and its points, in their order, if it loaded no model and had the aggregate
before the seal.  `MeasuredInv` follows the loading: the lines that are left are the end
of the file, and the measurement is as much of the former one as the lines before them
list (`LineAt`, `FileInv`).  A point occurs once among them, so no line is a repetition,
which would extend nothing.  `ClassInv` says that for whatever was valid there is
a valid point or still a line (`KnownInv`), that there is a seal or still a line for it,
and that the console's map has no others; the verdicts then agree (`JudgedInv`).

And it proves of the stream of descriptions (the part *stream* of `MCEvents`)

* `DescriptionsComeOutWhole`: `MCSpec => []StreamIsWhole`,

for a stream of any length, lines of any length, and reads and writes that cut it anywhere;
`StreamAssumption` says that the line feeds are among its bytes and that the last byte is one.
`HeldInv` says that the buffer and then the pipe hold the next bytes of the stream, none
twice and none left out; `BehindInv` that no line feed is behind what the buffer holds, so
that the search for one cannot find what an earlier line left there; `LinesInv` that
what was fetched so far ends with a line, the k-th line fetched being the one with k - 1 line
feeds before it; and `WholeInv` that as long as whole lines are written the
buffer ends with one, so that the loop never takes a rest for an error.

Last it proves of the object that descriptions are parsed into (the part *event*)

* `PointIsOfItsEvent`: `MCSpec => []PointIsOfTheEvent`,

for any descriptions, any number of them through one object, any masked pathnames and
whatever `malloc` leaves in a member.  The ports of an accept and of AF_INET6, which nothing
parses, are what the object holds and are excepted by the property (`PortIsOfTheEvent` is the
finding).  `DescriptionsAssumption` says that a description has
no keys but those its type is exported with (`Exported`); it may lack any of them, and the
values are arbitrary.  `ObjectInv` has three parts beside the property.  An object
that waits for a description has zero in the members `reset` clears, and `FilledInv` says
that when a description was read whole every member it is parsed into has the value of this
description, whatever the others have of an earlier one; `TextInv` says it of what is
written.  `ReadsAll` is the lemma about the parsers, which end at the first key that is
missing: an event is whole exactly if all keys of its kind are there.  `HashedIs` compares
the members that are hashed, kind by kind, with those that were parsed, and `ReadBack` the
keys that are written with those that are read again; these are the three lists of
each kind that the code keeps in three places.

`TransportsProofs` proves of `LocalDuct`, for any number of orchestrators and consoles,
`PathIsLeftByCrash` (`Spec => []OnlyCrashLeavesPath`) and, when an orchestrator is
started only if none is at work for its path (`Exclusive`), `OneAtATimeIsReachable`
(`Spec => []RunningIsReachable`).  A step of an orchestrator moves the path in one
of six ways (`ServersMovePath`); `PathInv` needs no more than the types beside the
property, and reachability follows from `AloneAtWork` and `BoundHasPath`.

`QuixoteUSProofs` proves `TrustIsEarned`, `Spec => []TrustedMeansValid`, for any
workload, any number of events, whatever fails and whoever interrupts.  The
property is not inductive: a process that waits while it is untrusted, or a point
that is invalid before the seal, would break it in one step.  `TrustInv` adds that
neither occurs (`WaitingIsTrusted`, `UnsealedIsValid`); with them every step but
the two that answer a process is one that lets nobody through
(`LetsNobodyThrough`), and `AddEventStep` is the case that remains.  It needs that
what is at the head of a batch is a description, which is `FlightTypes`, of all
four places an event can be in on its way.

The module also proves `EventIsOnItsWay`, `Spec => []WaitingIsInFlight`, for any size of
the pipe.  How often the event of a process occurs in a sequence of descriptions is
counted as never or once (`Never`, `Once`), and lemmas say what becomes of the count
when sequences are put together (`ConcatCounts`) or read from the front
(`FrontCounts`).  The property becomes inductive with three facts: a process that runs
has no event on its way (`Tracked`); a monitor that is not about to write carries
nothing and the batch is empty whenever the pipe is read (`HandsOver`), so that
nothing is overwritten; and the orchestrator finishes only after the monitor, so that
nothing is written to a pipe without a reader.

`IDmgrProofs` proves `IdentityIsOnesOwn`, `InTurn /\ Spec => []IdentityIsOwn`, for any
number of daemons, clients and requests.  `InTurn` says that a daemon is started when
those before it have gone, a client when a daemon is ready, and that no signal
interrupts the wait for the semaphore; each of these is needed (the findings on
`IDmgr.c` and `IPC.c` are what happens without).  Daemons may leave, and everybody may be
killed at any point.  The invariant follows the exchange: who has which name
(`NamesInv`), that a client is attached to the segment and the semaphore of the same
daemon (`AttachedInv`), that who is in the exchange has the semaphore alone
(`LockInv`), and how far the exchange over each segment is (`ExchangeInv`): the five
stages of a request that is waited for, and that a segment nobody has locked is clean.

`XENductProofs` proves, for any orchestrators, any commands and any lengths of their
answers:

* `AnswersAreToCommands`: `OneAtATime /\ Spec => [](RepliesAreToCommand /\ CommandsInOrder)`;
* `StubIsUp`: `Undisturbed /\ Spec => [](StubStaysUp /\ ConnectionIsToOne)`.

`OneAtATime` says that an orchestrator is started when none is at work, since all of them
use the same names in xenstore, and that a command that resets the agent is the last of its
session, since the stub domain ends the session at it.  Orchestrators may be killed at any
point, and xenstore may refuse.  `IInv` tells how an orchestrator stands to the stub domain.
The two are *linked* (`LinkedInv`): each state of the one allows few of the other, and says
what is in the page, what the status byte is and which events are pending.  Or the channel
of the orchestrator is bound and the page that is mapped is that of another, which was
killed between the two (`CrossedInv`): then the stub domain finds an empty page at most once
and the orchestrator never gets an answer.  Or they are *apart* (`ApartInv`): it has not been
found yet, has sent a reset, or ends.  `SessionInv` is about the session from the side of
the stub domain, and says what a killed orchestrator can have left of it; `NodeInv` about
the names.  The status byte, which both ends write, is told only where one of them reads it.

`Undisturbed` adds that nobody is killed or refused and nobody resets.  `QuietInv` is then
about the queue of xenstore events: a connect is followed by the two others of the same
orchestrator, as many as that has announced (`EndsWith`, `Remains`), and what one that has
ended left behind it is no connect.  With a kill the second theorem is false, which is why
`XenIsInStep` says so of the quiet part only.

`SanchoLinkProofs` proves `RepliesAnswer`, `Announces /\ Spec => []ReplyAnswersCommand`,
and `VerdictIsEarned`, `Announces /\ Spec => []TrustedMeansValid`, for any number of
points, processes, events and requests.  `Announces` says that the console does not
ask for the forensics points; with such a request `RepliesAnswer` is false, as the run
`sancho_link_listing` shows.  The first rests on `LineInv`: while the orchestrator
waits, its command is still to be interpreted and the line is empty, or what is left on
the line are replies to that command, in number no more than it will still read; when it
does not wait, the line is empty or given up.  `Kinds` relates what is waited for to the
kind of command.  For a listing the firmware must not send more than it announces, which
is a fact about cardinalities (`SizesAreCounts`).  The second adds that a release on the
line is that of a valid point (`ReleaseInv`), that a process waits only while it is
trusted, and that until an error a process has no event on its way but the one it waits
with (`FlightInv`); this last one fails after an error, since the reply to an event in
atomic context then releases a process that waits with another event.

`QuixoteProofs` proves, for any model file, any number of points and events, any size of
the pipe, in every mode, and with whatever of what section 2 says can fail and whoever
interrupts:

* `NobodyIsLeft`: `Spec => []LeavesNoWorkload`;
* `ModelBeforeWorkload`: `Spec => []WholeModelIsLoaded`;
* `WholeOutput`: `Spec => []OutputIsWhole`;
* `ConsoleGetsTheList`: `Spec => []AnswersAreSnapshots`.

They follow from one invariant with four parts beside the types.  `PhaseInv` relates how
far main, the monitor and the workload are to each other: which of them can still run
when another has ended.  `LoadInv` follows the loading: how many lines with a state the
kernel has taken so far, and whether the seal was among them.  `AnswerInv` is about the
two passes over a list.  `StreamInv` says that what main has written, the line it reads
and what is in the pipe are, one after the other, what the monitor has written: nothing,
the first lines of a model, or the whole model of the points the kernel had; after an upload
that failed main drops the tag of a line that did not come (`NoHalfLine`), so that
the file has no half lines.  `NobodyIsLeft` is about the exits of a main that has waited
for the end of the pipe or of its monitor: the one at which it has failed itself
(`"failed"`) does leave the workload, which is the finding `WaitsForTheMap`.

Its last sections are about `MCOrchestrators` and prove, for any number of consoles, points
and events, a socket of any capacity and whenever the orchestrator ends:

* `ListingsAreWhole`: `MCSpec => []ListingsAreSnapshots`.

`OrchestratorsAssumption` says that the name of no console is not that of one, that the
options are those the program has, and that the bounds are numbers.  `LinkInv` has three
parts beside the types.  `AgentInv` says of the lists that the valid points come first and
that the others, from the moment the domain was sealed, are the forensics; from it follows
that the number a list is announced with (the points less the forensics) is that of the
points that are chosen by going through them all (`ClassIs`, by induction over the loop), so
that an answer is what is documented of its option behind its length
(`AnswerIs`).  `CommandIs` follows an option through the table to the number of its
command.  `ConsoleInv` says how far a console is (`Talk`): what is on its way to it and what
the orchestrator has yet to send are, one after the other, what is missing of the documented
answer, and as many lines as it expects.  A message that is sent or received moves the
border between the two and changes nothing else (`SendStep`, `Received2`).  The calm part
makes the steps of the other within smaller bounds (`CalmStep`).

`QuixoteExportProofs` proves, for any number of events and any size of the pipe,
`NothingIsLost` (`Spec => []NothingLostOnTheWay`), `FailuresKeepTheOrder`
(`Spec => []OutputInOrder`) and `EndsAfterTheWorkload` (`Spec => []LeavesNoWorkload`).
`NothingLostOnTheWay` says nothing once the orchestrator has failed to read or write; the
invariant `FlowInv` says more: what was written and what is on its way are always, one after
the other, events of the workload in increasing order.  Both theorems about the output follow
from it.  `EndsAfterTheWorkload` is about the main that comes to its `waitpid` (`EndInv`), and
excepts a monitor that failed: a main that failed itself does not wait (`FailureKills` is
the finding).

Its other sections are about the parts `MCExporters` composes, as they are composed, so that
these theorems are those of the run for every value of its constants.  Of these,
`ExportersAssumption` says that the bounds are numbers, that the model file is a sequence of
events and that no more events are generated than of the output is kept, which bounds the
model and not the code.

* `CommandsReachTheKernel`: `MCSpec => []CommandsAreWritten`, for any number of calls.
  `WriteInv` says that as long as nothing was refused each call leaves the two buffers of
  the object empty, so that none adds to what the next one writes; `ExternalInv` follows the
  namespace of an external agent, its key and what refused calls left through the set-up.
* `RootIsExported`: `MCSpec => []UtilityIsInStep`, for any number of events, any number of
  strings of a utility that does not follow, and a single one of a utility that does
  (with more, such as the 100 of the default, it is false: `NothingOverwritten` and
  `OutstandingAreWritten`, section 4).
  `OutputInv` says that the output is the first events, `SlotsInv` that the strings before the
  cursor hold the next ones, all that were read, and `QueuedInv` that the count the loop
  keeps of them agrees with the cursor at each point.  The two parts have
  a queue of `RootStrings` strings and one of a single string (`Strings`).
* `EnclaveStaysInStep`: `MCSpec => []EnclaveIsInStep`, for any events, any model file, any
  number of refusals of the kernel and of calls that fail, into the enclave or out of it, with
  a caller that gives update the text of the event and with one that does not.
  Of the verdicts, a step is shown to be one of six kinds (`AgentTurn`): a process begins to
  sleep, its verdict is on its way out of the enclave, is noted, is given to the kernel, or update
  fails, or none of these.  `VerdictInv` says that the call that is under way
  carries the verdict of the model, which nothing changes until it is made, and `PointMore`
  is the one fact about sequences it needs.  Of the listings, `CountInv` says that
  as many points are invalid as the forensics list has events, which is what the orchestrator
  computes the announced numbers from, while it sends the points by going through all of
  them: `IdsOf` is that loop, over any list, and `IdsOfAppend` and `IdsOfKnown` say what
  it gives for a list that grows and for a model file.  `SentInv` adds that until a call fails
  nothing is refused and that what was sent last is a whole list.  The facts about the loop are proved
  by induction: `InductionOverNat` states it for a set of numbers, which the provers can
  instantiate, and is itself proved from the well-foundedness of inclusion among finite sets.

`TransportsProofs` is about the transports as `MCTransports` composes them, so that its
theorems are those of the run, for every value of its constants.  `ToSend`, `Width`,
`Losses`, `Packets` and `Daemons` are natural numbers, the name "none" is that of no
client, and `None` that of no orchestrator; packets, commands and replies on the USB port
are not empty.  Beside that `TransportsAssumption` says two things, which are needed: that the
count of a publisher, an unsigned int, can hold the number of messages there are to send, and
that a header on the USB port (`PortHeader`, four bytes in the code) is longer than the line
feed by which the two ends synchronise.

* `PipeStaysInStep`: `MCSpec => []PipeIsInStep`, for any number of packets, whoever changes
  its software, is killed or leaves at any point.  `PipeInv` says of each end how far it is
  (`EndInv`: what it has taken, which keys and chains it has made, and that it has the nonce
  and the attestation of the other from the step on in which it checks them) and of what is
  on its way to it that it is the next messages of the other, in order, and all of them as
  long as the other is up (`WireInv`).  A message is described by its number (`IsMessage`),
  so every step takes the first, appends the next, or leaves them; the lemmas `WireTakes`,
  `WireGives` and `WireKeeps` are these three cases.  That ends that take turns fail for a
  reason only needs `PipeCounts`, by which the two have rehashed the shared key equally often
  whenever one reads: this is what goes wrong when packets cross.  The steps of the two parts
  of the pipe are those of one relation, `PipeMove`.
* `PublisherDrains`: `MCSpec => []PublishedInOrder`.  `MessagesInv` says that the library has
  the last messages it took and the broker earlier ones, in increasing order and, while no
  connection was lost, all.  `CountInv` is about the publisher whose threads do not meet in
  the count: the count is what is outstanding, which is one less than nothing when the library
  calls back before the caller has counted, and then has wrapped.  Without the bound on
  `ToSend` a full count would look like an empty one.
* `ClientsGetTheirIdentity`: `MCSpec => []IdentityIsOwn`, for any number of daemons and
  clients, from the lemmas of `IDmgrProofs`, of which the module has an instance for each of
  the two parts (`Own`, `OwnQuiet`), in both of which `InTurn` holds.
* `SharedPageIsInStep`: `MCSpec => []XenIsInStep`, for any number of orchestrators, in the
  same way from the lemmas of `XENductProofs` (`Ring`, `RingQuiet`): `OneAtATime` holds in
  both parts, `Undisturbed` in the quiet one.  The commands and the lengths of their answers
  are those of the run.
* `PortStaysInStep`: `MCSpec => []PortIsInStep`, for any sizes of header, packet and
  commands, any number of packets in a reply, of commands in a session and of sessions, with
  a host that leaves between two commands and comes back, and with one that leaves for good
  whatever it is doing.  While the host is there (`LiveInv`) the two are opening the
  line, between two commands, in the middle of a command of size n (`Commanded`: its header is
  on the wire or read, or of its body some bytes are with the interpreter, some read, and the
  rest on the wire), or in the middle of a reply, whose packets are counted (`Replied`).
  `QueueIs` says which events are waiting: none but those of the stage, after the end of a
  transmission the firmware still waits for.  A host that comes back finds its predecessor's
  close in the queue before its own open, so that the interpreter ends first; a line feed read
  in the place of a header would break this, and the read that is scheduled is then one of
  more bytes.  When the host is gone in the middle of something nothing is left on the wire
  and `GoneInv` says that at most one read is still to be handled (`ReadsEnd`) and that it is
  of a line feed, of a header or of the next bytes of the body.  A host that leaves in the
  middle of something and comes back is excluded: then `SizeIsSize` fails (section 4).

Only model-checked is every liveness property (under fairness, which is out of the prover's
reach).  Each invariant and each action property of a run that passes is a theorem.
The parts of the pipe have no message
that is cut in the middle (`Cuts` is `FALSE`; with it `NeverSpins` fails, which is a
finding).

## 6. What is not modelled

* Cryptography: hashes are injective and a signature check is an input.  TPM,
  SGX attestation and the runtime environment of enclaves (`SRDE/`), a loader
  with its own copies of the libraries, of which half is vendored code.
* In `TSEM`: a line with an unknown command, which runs past the end of the
  table of commands; memory that runs out in `load` elsewhere than between the
  two steps of `_update_map`; a base of the wrong length.
* In the event path: the text level of `TSEMparser` and `EventParser` (regular
  expressions over a string, without a state that outlives a call); `memcpy` on
  overlapping ranges is taken to move bytes as `memmove` does.
* In `QuixoteUS`: process and execute modes (modelled in `Quixote` and
  `QuixoteExport`, whose code is the same), SIGTERM, a fork that fails, the
  trajectory file, the set-up of the namespace.  poll is taken to clear
  `revents` when it is interrupted, as Linux does.
* In `QuixoteUS`, `accept_connection` or `get_fd` that fails (`quixote-us.c:1954`), which
  ends the orchestrator as an illegal command does.
* In `Quixote`: a monitor that dies of a signal, which main in its loop of `pause` takes for
  the end (`quixote.c:2259`); `receive_Buffer` that fails, after which the monitor polls again;
  a list of the kernel that ends with an error, which is taken for its end.
* In `IDmgr`: the failure of `lock` itself (`IDmgr.c:436`, `:520`), after which the segment is
  cleared without the semaphore; `sem_wait` has no error but an interrupt, which is
  modelled, as long as the semaphore exists.
* In `SanchoLink`: the reset that a monitor stopped by the same SIGINT sends over the same
  line while the orchestrator outputs the model (`quixote-mcu.c:1777`, `:2076`); a
  `send_Buffer` to the console that fails (`:772`, `:779`); the load of a model, `enable cellular`, the monitor process
  and the details of `kill_cartridge` (see `QuixoteUS`; the processes of
  quixote-mcu, quixote-xen and quixote-sgx are copies of the same code); memory
  runs out in the agent only.  quixote-sgx-u is quixote-sgx with another way of
  loading the enclave.
* Other firmware (STM32, the Xen stub's own main loop apart from its
  connections): ports of the same interpreter, with a blocking UART.
* `Duct` and `HTTP` beside what `PossumPipe` and `IDmgr` use of them: wrappers of
  sockets without a state that outlives a call but the connection.
* `cboot`, the utilities that filter files, and the kernel's integrity helper:
  sequential programs that run once.

Hazards that no property covers, and why: the search of a command of a line past
the end of `Security_cmd_list` (`SecurityModel/TSEM.c:683`) and a key decoded in
place (`:604`) need memory at the level of addresses; `errno` compared with
`ERANGE` without having been cleared (`Quixote/quixote-mcu.c:691`,
`lib/TSEMparser.c:420`) depends on the history of the C library; a command number
equal to the size of the table (`quixote-mcu.c:873`) cannot be sent by the
console; and three in `quixote-us.c` (`:1877`, `:2184`, `:2402`), a lost stop, a
container that exits before its last events were read, and a wait for a monitor
that is blocked on the pipe, are ways to end without what `ModelIsOutput`
promises, which is violated already; `QuixoteExport`, which has the same loops,
covers them by `NothingLostOnTheWay` and `ExportingEnds`.
