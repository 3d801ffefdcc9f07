---------------------------- MODULE MCTransports ----------------------------
(***************************************************************************)
(* The transports between a console, an orchestrator and an agent, each    *)
(* by itself: a behaviour is of one part, the others stay as they begin.   *)
(* "quiet" parts are without the faults liveness does not survive.         *)
(***************************************************************************)
EXTENDS LocalDuct, TLC

CONSTANTS ToSend,   \* how many messages a publisher sends
          Width,    \* the number of values its count can hold
          Losses,   \* how often its connection can be lost
          Packets,  \* how many packets each end of a pipe sends
          Daemons,  \* how many identity managers are started, one after the other
          Identities,\* and the clients that ask them
          XenHosts, \* the orchestrators that share a page with the stub domain
          PortHeader,   \* the bytes of a header on the USB port
          PortBlock,    \* and of a packet
          PortSizes,    \* the sizes of the commands
          PortPieces,   \* the packets of a reply
          PortCommands, \* the commands of a session of the host
          PortSessions  \* how often it comes

\* The count of a publisher is an unsigned int, which holds more than there is to send.
\* A header, of four bytes in the code, is longer than the line feed that synchronises.
ASSUME TransportsAssumption ==
  /\ ToSend \in Nat /\ Width \in Nat /\ ToSend < Width
  /\ Losses \in Nat
  /\ Packets \in Nat
  /\ Daemons \in Nat /\ "none" \notin Identities
  /\ None \notin XenHosts
  /\ PortHeader \in Nat \ {0, 1} /\ {PortBlock, PortPieces} \subseteq Nat \ {0}
  /\ PortSizes \subseteq Nat \ {0}

VARIABLES
  part, \* what a behaviour is of
  host, asked, got, page, status, hostEvent, node, watch, stub, grant, channel, stubEvent,
  haveEvent, current, done, user, thread, type, poisoned, count, mqtt_sent, queue, broker, link,
  losses, reg, port_host, sessions, port_sent, port_got, wire, back, events, read, tx, Port_Open,
  Port_Close, Have_Read, TX_Done, Receive_State, Receive_Blocks, Receive_Residual,
  Receive_Buffer, Input_Buffer, pc, bufr, left, received, known, attested, software, step,
  nonces, rehashed, pipe_sent, pipe_received, pipe_poisoned, pipe_got, put, pipe_wire,
  identity_path, sempath, segment, sem, daemon, pending, request, identity_client, at, kind,
  identity_asked, identity_got

Xen == INSTANCE XENduct WITH
  Hosts <- XenHosts, Replies <- <<1, 2, 1>>, Length <- <<1, 1, 1>>, Reset <- {3},
  Exclusive <- TRUE, Kills <- TRUE, InitFaults <- TRUE, StubReady <- FALSE

Mqtt == INSTANCE MQTTduct WITH
  Messages <- ToSend, Races <- TRUE, Refusals <- TRUE, sent <- mqtt_sent

Port == INSTANCE PortDuct WITH
  HeaderSize <- PortHeader, BlockSize <- PortBlock, Sizes <- PortSizes, Garbage <- 0,
  Pieces <- PortPieces,
  Commands <- PortCommands, Sessions <- PortSessions, Leaves <- {"idle"}, host <- port_host, sent <- port_sent,
  got <- port_got

Pipe == INSTANCE PossumPipe WITH
  Alternate <- TRUE, Changes <- TRUE, Kills <- TRUE, Cuts <- FALSE,
  sent <- pipe_sent, received <- pipe_received, poisoned <- pipe_poisoned, got <- pipe_got,
  wire <- pipe_wire

Identity == INSTANCE IDmgr WITH
  Clients <- Identities, Requests <- 1, Leaves <- TRUE, Overlap <- FALSE,
  Early <- FALSE, Interrupts <- FALSE, Kills <- TRUE, Hoists <- TRUE, path <- identity_path,
  client <- identity_client, asked <- identity_asked, got <- identity_got

XenQuiet == INSTANCE XENduct WITH
  Hosts <- XenHosts, Replies <- <<1, 2, 1>>, Length <- <<1, 1, 1>>, Reset <- {},
  Exclusive <- TRUE, Kills <- FALSE, InitFaults <- FALSE, StubReady <- TRUE

MqttQuiet == INSTANCE MQTTduct WITH
  Messages <- ToSend, Races <- FALSE, Losses <- 0, Refusals <- TRUE, sent <- mqtt_sent

PortGone == INSTANCE PortDuct WITH
  HeaderSize <- PortHeader, BlockSize <- PortBlock, Sizes <- PortSizes, Garbage <- 0,
  Pieces <- PortPieces,
  Commands <- PortCommands, Sessions <- 1, Leaves <- {"sync", "idle", "wait"}, host <- port_host,
  sent <- port_sent, got <- port_got

PipeCrossed == INSTANCE PossumPipe WITH
  Alternate <- FALSE, Changes <- TRUE, Kills <- TRUE, Cuts <- FALSE,
  sent <- pipe_sent, received <- pipe_received, poisoned <- pipe_poisoned, got <- pipe_got,
  wire <- pipe_wire

IdentityQuiet == INSTANCE IDmgr WITH
  Clients <- Identities, Requests <- 2, Leaves <- FALSE, Overlap <- FALSE,
  Early <- FALSE, Interrupts <- FALSE, Kills <- FALSE, Hoists <- FALSE, path <- identity_path,
  client <- identity_client, asked <- identity_asked, got <- identity_got

xenVars ==
  <<host, asked, got, page, status, hostEvent, node, watch, stub, grant, channel, stubEvent,
    haveEvent, current, done>>

mqttVars ==
  <<user, thread, type, poisoned, count, mqtt_sent, queue, broker, link, losses, reg>>

portVars ==
  <<port_host, sessions, port_sent, port_got, wire, back, events, read, tx, Port_Open,
    Port_Close, Have_Read, TX_Done, Receive_State, Receive_Blocks, Receive_Residual,
    Receive_Buffer, Input_Buffer, pc, bufr, left, received>>

pipeVars ==
  <<known, attested, software, step, nonces, rehashed, pipe_sent, pipe_received, pipe_poisoned,
    pipe_got, put, pipe_wire>>

identityVars ==
  <<identity_path, sempath, segment, sem, daemon, pending, request, identity_client, at, kind,
    identity_asked, identity_got>>

allVars == <<part, vars, xenVars, mqttVars, portVars, pipeVars, identityVars>>

MCInit ==
  /\ part \in {"local", "xen", "xen quiet", "mqtt", "mqtt quiet", "port", "port gone", "pipe", "pipe crossed", "identity", "identity quiet"}
  /\ Init /\ Xen!Init /\ Mqtt!Init /\ Port!Init /\ Pipe!Init /\ Identity!Init
  /\ part \notin {"pipe", "pipe crossed"} => known = attested /\ known = [e \in Pipe!Ends |-> TRUE]

Part(name) == part = name /\ UNCHANGED part

MCNext ==
  \/ Part("local") /\ Next /\ UNCHANGED <<xenVars, mqttVars, portVars, pipeVars, identityVars>>
  \/ Part("xen") /\ Xen!Next /\ UNCHANGED <<vars, mqttVars, portVars, pipeVars, identityVars>>
  \/ Part("xen quiet") /\ XenQuiet!Next /\ UNCHANGED <<vars, mqttVars, portVars, pipeVars, identityVars>>
  \/ Part("mqtt") /\ Mqtt!Next /\ UNCHANGED <<vars, xenVars, portVars, pipeVars, identityVars>>
  \/ Part("mqtt quiet") /\ MqttQuiet!Next /\ UNCHANGED <<vars, xenVars, portVars, pipeVars, identityVars>>
  \/ Part("port") /\ Port!Next /\ UNCHANGED <<vars, xenVars, mqttVars, pipeVars, identityVars>>
  \/ Part("port gone") /\ PortGone!Next /\ UNCHANGED <<vars, xenVars, mqttVars, pipeVars, identityVars>>
  \/ Part("pipe") /\ Pipe!Next /\ UNCHANGED <<vars, xenVars, mqttVars, portVars, identityVars>>
  \/ Part("pipe crossed") /\ PipeCrossed!Next /\ UNCHANGED <<vars, xenVars, mqttVars, portVars, identityVars>>
  \/ Part("identity") /\ Identity!Next /\ UNCHANGED <<vars, xenVars, mqttVars, portVars, pipeVars>>
  \/ Part("identity quiet") /\ IdentityQuiet!Next /\ UNCHANGED <<vars, xenVars, mqttVars, portVars, pipeVars>>

MCSpec == MCInit /\ [][MCNext]_allVars

\* Each part's processes are scheduled fairly, as in its module.
MCFairSpec ==
  /\ MCSpec
  /\ \A s \in Servers :
       /\ WF_vars(part = "local" /\ Serve(s))
       /\ WF_vars(part = "local" /\ server[s] = "failing" /\ whack(s))
  /\ \A c \in Clients : WF_vars(part = "local" /\ Enquire(c))
  /\ \A h \in XenHosts : WF_xenVars(part = "xen quiet" /\ XenQuiet!Host(h) /\ host[h] # "off")
  /\ WF_xenVars(part = "xen quiet" /\ XenQuiet!Stub) /\ WF_xenVars(part = "xen quiet" /\ XenQuiet!event_handler)
  /\ WF_mqttVars(part = "mqtt quiet" /\ MqttQuiet!User) /\ WF_mqttVars(part = "mqtt quiet" /\ MqttQuiet!Library)
  /\ WF_portVars(part = "port" /\ Port!read_sync) /\ WF_portVars(part = "port" /\ Port!host_receive)
  /\ WF_portVars(part = "port" /\ Port!usb_read) /\ WF_portVars(part = "port" /\ Port!usb_write) /\ WF_portVars(part = "port" /\ Port!Main)
  /\ WF_pipeVars(part = "pipe" /\ Pipe!start_mode)
  /\ \A end \in {"client", "host"} :
       WF_pipeVars(part = "pipe" /\ Pipe!whack(end) /\ step[end] = "failed") /\ WF_pipeVars(part = "pipe" /\ Pipe!receive_packet(end))
  /\ \A d \in Identity!Started : WF_identityVars(part = "identity quiet" /\ IdentityQuiet!Serve(d))
  /\ \A c \in Identities :
       WF_identityVars(part = "identity quiet" /\ IdentityQuiet!lock(c)) /\ WF_identityVars(part = "identity quiet" /\ IdentityQuiet!Exchange(c))

-----------------------------------------------------------------------------
\* Over the ring a reply is to the command of its host and the commands are
\* taken in order, each once; a stub that no host surprises stays up.
XenIsInStep ==
  /\ Xen!RepliesAreToCommand /\ Xen!CommandsInOrder
  /\ part = "xen quiet" => Xen!StubStaysUp

\* The broker has the messages in the order they were sent, and when nothing
\* was lost on the way all of them before the publisher is destroyed.
PublishedInOrder ==
  /\ Mqtt!InOrder
  /\ part = "mqtt quiet" => Mqtt!DrainedBeforeDestroyed

\* Over the USB port the firmware takes the bytes of a command for a command,
\* those of a size for a size, and answers each command once.
PortIsInStep ==
  /\ Port!CommandsAreWhole /\ Port!SizeIsSize
  /\ part = "port" => Port!ReplyIsToCommand

\* Through the pipe of two devices, which have verified each other, what is
\* received is what was sent; ends that take turns fail for a reason only.
PipeIsInStep ==
  /\ Pipe!PeerIsVerified /\ Pipe!ReceivedIsSent /\ Pipe!ChainsAgree
  /\ part = "pipe" => Pipe!FailsForReason /\ Pipe!NeverSpins

\* A client of the identity manager has the daemon alone and gets its identity.
IdentityIsOwn == Identity!IdentityIsOwn

\* Whoever waits on a transport is served, as long as its peer is not killed:
\* a console, an orchestrator on the ring or the port, a publisher that ends.
WaitsEnd ==
  /\ WaitingIsServed
  /\ \A h \in XenHosts : (part = "xen quiet" /\ Xen!Waiting(h)) ~> ~Xen!Waiting(h)
  /\ (part = "mqtt quiet" /\ user = "resetting") ~> user = "destroyed"
  /\ \A end \in {"client", "host"} : (part = "pipe" /\ Pipe!Starting(end)) ~> ~Pipe!Starting(end)
  /\ \A c \in Identities :
       /\ (part = "identity quiet" /\ identity_client[c] = "waiting") ~> identity_client[c] # "waiting"
       /\ (part = "identity quiet" /\ IdentityQuiet!WantsLock(c)) ~> identity_client[c] # "attached"
  /\ (part = "port" /\ port_host = "sync") ~> port_host # "sync"
  /\ (part = "port" /\ port_host = "wait") ~> port_host # "wait"

=============================================================================
