------------------------------ MODULE XENduct ------------------------------
(***************************************************************************)
(* The transport between quixote-xen (lib/XENduct.c) and the Xen stub      *)
(* domain that holds the modeling agent (Sancho/Xen/Sancho/XENduct.c,      *)
(* sancho_main.c): a shared page with one message and a status byte, an    *)
(* event channel in each direction, and the xenstore nodes by which an     *)
(* orchestrator is found.  All orchestrators run in one domain, so they    *)
(* use the same xenstore paths.                                            *)
(*                                                                         *)
(* What a command means is left to module SanchoLink: here command number  *)
(* i of every session is answered by Replies[i] messages.  Xen, xenstore   *)
(* and the end of a process are external.                                  *)
(***************************************************************************)
EXTENDS Naturals, Sequences, FiniteSets

CONSTANTS Hosts,     \* orchestrators, each of them started once
          None,
          Replies,   \* the number of messages that answer each command
          Length,    \* the length of each command
          Reset,     \* the numbers of the commands that are a reset
          Exclusive, \* is an orchestrator started only when none is at work?
          Kills,     \* can an orchestrator be killed?
          InitFaults,\* can xenstore or the grant device refuse?
          StubReady  \* is the stub domain back in receive before a host notifies?

Commands == DOMAIN Replies

\* The shared page: a size, the status byte and the data.
PageSize == 4096
DataOffset == 4 + 1
MaxReceiveSize == 4092

Empty == [kind |-> "none", by |-> None, number |-> 0, part |-> 0]
End == [Empty EXCEPT !.kind = "end"]
Command(h, i) == [kind |-> "command", by |-> h, number |-> i, part |-> 0]
Reply(m, k) == [m EXCEPT !.kind = "reply", !.part = k]

Messages == [kind : {"none", "end", "command", "reply"}, by : Hosts \cup {None},
             number : Commands \cup {0}, part : Nat]

VARIABLES
  host,      \* what each orchestrator is doing
  asked,     \* the commands it has sent
  got,       \* the messages it received since the last of them
  page,      \* the message in the page it shares
  status,    \* the status byte of that page
  hostEvent, \* is its event channel pending?
  node,      \* the xenstore nodes grant-ref and event-channel
  watch,     \* the xenstore events the stub domain has not taken
  stub,      \* what the stub domain is doing
  grant,     \* the orchestrator whose page it has mapped
  channel,   \* the orchestrator its event channel is bound to
  stubEvent, \* is that channel pending?
  haveEvent, \* Have_event
  current,   \* the command that is interpreted
  done       \* the commands received in this session

hostVars == <<host, asked, got, hostEvent>>
stubVars == <<stub, grant, channel, haveEvent, current, done>>
pageVars == <<page, status>>
storeVars == <<node, watch>>
vars == <<hostVars, stubVars, pageVars, storeVars, stubEvent>>

HostStates == {"off", "connecting", "granting", "offering", "offered", "confirming",
  "idle", "loaded", "sent", "receiving", "acking", "closing", "removing",
  "parting", "ending", "ended", "killed", "refused", "crashed"}
StubStates == {"accept", "map", "bind", "receive", "arm", "wait", "take",
  "interpret", "notify", "status", "ended"}
Nodes == {"connect", "grant-ref", "event-channel"}

TypeOK ==
  /\ host \in [Hosts -> HostStates]
  /\ asked \in [Hosts -> 0..Len(Replies)]
  /\ got \in [Hosts -> Seq(Messages)]
  /\ page \in [Hosts -> Messages]
  /\ status \in [Hosts -> BOOLEAN]
  /\ hostEvent \in [Hosts -> BOOLEAN]
  /\ node \in [{"grant-ref", "event-channel"} -> Hosts \cup {None}]
  /\ watch \in Seq(Nodes)
  /\ stub \in StubStates
  /\ {grant, channel} \subseteq Hosts \cup {None}
  /\ {stubEvent, haveEvent} \subseteq BOOLEAN
  /\ current \in Messages
  /\ done \in Seq(Messages)
  /\ stub \in {"receive", "arm", "wait", "take", "interpret", "notify", "status"}
       => None \notin {grant, channel}

Init ==
  /\ host = [h \in Hosts |-> "off"]
  /\ asked = [h \in Hosts |-> 0]
  /\ got = [h \in Hosts |-> <<>>]
  /\ page = [h \in Hosts |-> Empty]
  /\ status = [h \in Hosts |-> FALSE]
  /\ hostEvent = [h \in Hosts |-> FALSE]
  /\ node = [n \in {"grant-ref", "event-channel"} |-> None]
  /\ watch = <<>>
  /\ stub = "accept"
  /\ grant = None
  /\ channel = None
  /\ stubEvent = FALSE
  /\ haveEvent = FALSE
  /\ current = Empty
  /\ done = <<>>

Gone(h) == host[h] \in {"ended", "killed", "refused", "crashed"}
AtWork(h) == host[h] # "off" /\ ~Gone(h)

-----------------------------------------------------------------------------
(* The orchestrator.                                                       *)

HostStep(h, from, to) ==
  /\ host[h] = from
  /\ host' = [host EXCEPT ![h] = to]
  /\ UNCHANGED stubVars

\* An event for the stub domain is kept only by a channel that is bound.
NotifyStub(h) == stubEvent' = (stubEvent \/ channel = h)

\* The event xenevtchn_pending waits for.
Pending(h) == hostEvent[h] /\ hostEvent' = [hostEvent EXCEPT ![h] = FALSE]

\* Each step of init_device that announces the orchestrator in xenstore.
Announce(h, from, to, n) ==
  /\ HostStep(h, from, to)
  /\ watch' = Append(watch, n)
  /\ node' = IF n = "connect" THEN node ELSE [node EXCEPT ![n] = h]
  /\ UNCHANGED <<asked, got, hostEvent, pageVars, stubEvent>>

init_connect(h) ==
  /\ Exclusive => \A other \in Hosts : ~AtWork(other)
  /\ Announce(h, "off", "connecting", "connect")
init_grant(h) == Announce(h, "connecting", "granting", "grant-ref")
init_channel(h) == Announce(h, "granting", "offered", "event-channel")

\* The answer to the offer has come, and is confirmed.
init_pending(h) ==
  /\ HostStep(h, "offered", "confirming")
  /\ Pending(h)
  /\ UNCHANGED <<asked, got, pageVars, storeVars, stubEvent>>

init_confirm(h) ==
  /\ HostStep(h, "confirming", "idle")
  /\ status' = [status EXCEPT ![h] = TRUE]
  /\ UNCHANGED <<asked, got, hostEvent, page, storeVars, stubEvent>>

\* init_device fails before there is a page, and main calls whack, which
\* writes to the page first of all.
init_fails(h) ==
  /\ InitFaults
  /\ host[h] = "connecting"
  /\ HostStep(h, "connecting", "crashed")
  /\ UNCHANGED <<asked, got, hostEvent, pageVars, storeVars, stubEvent>>

\* send_Buffer: the message is put into the page, the status is cleared ...
send_load(h) ==
  /\ host[h] = "idle" /\ asked[h] < Len(Replies)
  /\ Length[asked[h] + 1] <= MaxReceiveSize
  /\ HostStep(h, "idle", "loaded")
  /\ asked' = [asked EXCEPT ![h] = @ + 1]
  /\ got' = [got EXCEPT ![h] = <<>>]
  /\ page' = [page EXCEPT ![h] = Command(h, asked[h] + 1)]
  /\ status' = [status EXCEPT ![h] = FALSE]
  /\ UNCHANGED <<hostEvent, storeVars, stubEvent>>

\* The stub domain has got back to its receive_Buffer.
InReceive == stub = "wait"

\* ... the stub domain is notified ...
send_notify(h) ==
  /\ StubReady => InReceive
  /\ HostStep(h, "loaded", "sent")
  /\ NotifyStub(h)
  /\ UNCHANGED <<asked, got, hostEvent, pageVars, storeVars>>

\* ... and the status says that the message was read.
send_status(h) ==
  /\ status[h]
  /\ HostStep(h, "sent", "receiving")
  /\ status' = [status EXCEPT ![h] = FALSE]
  /\ UNCHANGED <<asked, got, hostEvent, page, storeVars, stubEvent>>

\* receive_Buffer: the event, the copy of the message, and the status that
\* tells that the page, which has been cleared, is free.
receive(h) ==
  /\ page[h] # Empty
  /\ HostStep(h, "receiving", "acking")
  /\ Pending(h)
  /\ got' = [got EXCEPT ![h] = Append(@, page[h])]
  /\ page' = [page EXCEPT ![h] = Empty]
  /\ status' = [status EXCEPT ![h] = TRUE]
  /\ UNCHANGED <<asked, storeVars, stubEvent>>

\* A size of zero is the end for the object, but its caller does not ask: the
\* answer is taken to be empty, or the length of a listing what the buffer held.
receive_nothing(h) ==
  /\ page[h] = Empty /\ host[h] = "receiving"
  /\ HostStep(h, "receiving", IF Replies[asked[h]] = 1 THEN "idle" ELSE "receiving")
  /\ Pending(h)
  /\ UNCHANGED <<asked, got, pageVars, storeVars, stubEvent>>

\* Are there more messages of a listing to come?
More(h) == Len(got[h]) < Replies[asked[h]]

receive_acked(h) ==
  /\ ~status[h]
  /\ host[h] = "acking"
  /\ HostStep(h, "acking", IF More(h) THEN "receiving" ELSE "idle")
  /\ UNCHANGED <<asked, got, hostEvent, pageVars, storeVars, stubEvent>>

\* whack: the size that ends the session, ...
whack(h) ==
  /\ HostStep(h, "idle", "closing")
  /\ page' = [page EXCEPT ![h] = End]
  /\ UNCHANGED <<asked, got, hostEvent, status, storeVars, stubEvent>>

\* ... the removal of the nodes, whoever's they are by now, ...
Remove(h, from, to, n) ==
  /\ HostStep(h, from, to)
  /\ node' = [node EXCEPT ![n] = None]
  /\ watch' = IF node[n] = None THEN watch ELSE Append(watch, n)
  /\ UNCHANGED <<asked, got, hostEvent, pageVars, stubEvent>>

remove_grant(h) == Remove(h, "closing", "removing", "grant-ref")
remove_channel(h) == Remove(h, "removing", "parting", "event-channel")

\* ... the event, and the answer to it.
whack_notify(h) ==
  /\ StubReady => InReceive
  /\ HostStep(h, "parting", "ending")
  /\ NotifyStub(h)
  /\ UNCHANGED <<asked, got, hostEvent, pageVars, storeVars>>

whack_pending(h) ==
  /\ HostStep(h, "ending", "ended")
  /\ Pending(h)
  /\ UNCHANGED <<asked, got, pageVars, storeVars, stubEvent>>

kill(h) ==
  /\ Kills /\ AtWork(h)
  /\ HostStep(h, host[h], "killed")
  /\ UNCHANGED <<asked, got, hostEvent, pageVars, storeVars, stubEvent>>

Host(h) ==
  \/ init_connect(h) \/ init_grant(h) \/ init_channel(h) \/ init_pending(h)
  \/ init_confirm(h) \/ init_fails(h)
  \/ send_load(h) \/ send_notify(h) \/ send_status(h) \/ receive(h) \/ receive_nothing(h)
  \/ receive_acked(h)
  \/ whack(h) \/ remove_grant(h) \/ remove_channel(h) \/ whack_notify(h) \/ whack_pending(h)

-----------------------------------------------------------------------------
(* The stub domain.                                                        *)

StubStep(from, to) ==
  /\ stub = from
  /\ stub' = to
  /\ UNCHANGED <<host, asked, got>>

\* An event for an orchestrator that is gone is lost.
NotifyHost ==
  hostEvent' = IF channel # None /\ ~Gone(channel)
               THEN [hostEvent EXCEPT ![channel] = TRUE] ELSE hostEvent

\* accept_connection: the events before the next connect are of no interest ...
accept_connect ==
  /\ watch # <<>>
  /\ StubStep("accept", IF Head(watch) = "connect" THEN "map" ELSE "accept")
  /\ watch' = Tail(watch)
  /\ UNCHANGED <<hostEvent, grant, channel, stubEvent, haveEvent, current, done, pageVars, node>>

\* Can the reference in node n, named by the next event, be used?
Usable(n) == Head(watch) = n /\ node[n] # None /\ ~Gone(node[n])

\* ... the next has to be that of the grant reference: the page is mapped ...
accept_grant ==
  /\ watch # <<>> /\ stub = "map"
  /\ watch' = Tail(watch)
  /\ StubStep("map", IF Usable("grant-ref") THEN "bind" ELSE "ended")
  /\ grant' = IF Usable("grant-ref") THEN node["grant-ref"] ELSE None
  /\ IF Usable("grant-ref")
     THEN /\ page' = [page EXCEPT ![grant'] = Empty]
          /\ status' = [status EXCEPT ![grant'] = FALSE]
     ELSE UNCHANGED pageVars
  /\ UNCHANGED <<hostEvent, channel, stubEvent, haveEvent, current, done, node>>

\* ... and the one after it that of the event channel: it is bound, which
\* raises an event here, and the orchestrator is told.
accept_channel ==
  /\ watch # <<>> /\ stub = "bind"
  /\ watch' = Tail(watch)
  /\ StubStep("bind", IF Usable("event-channel") THEN "receive" ELSE "ended")
  /\ channel' = IF Usable("event-channel") THEN node["event-channel"] ELSE None
  /\ IF Usable("event-channel")
     THEN /\ haveEvent' = TRUE
          /\ status' = [status EXCEPT ![grant] = FALSE]
          /\ hostEvent' = [hostEvent EXCEPT ![channel'] = TRUE]
     ELSE UNCHANGED <<haveEvent, status, hostEvent>>
  /\ UNCHANGED <<grant, stubEvent, current, done, page, node>>

\* _event_handler
event_handler ==
  /\ stubEvent
  /\ stubEvent' = FALSE
  /\ haveEvent' = TRUE
  /\ UNCHANGED <<hostVars, stub, grant, channel, current, done, pageVars, storeVars>>

\* Mutant: the flag is left as it is.
ReceiveFlagKept ==
  /\ StubStep("receive", "arm")
  /\ UNCHANGED <<hostEvent, grant, channel, stubEvent, haveEvent, current, done, pageVars, storeVars>>

\* receive_Buffer: the flag of the handler is cleared, then the status, ...
receive_flag ==
  /\ StubStep("receive", "arm")
  /\ haveEvent' = FALSE
  /\ UNCHANGED <<hostEvent, grant, channel, stubEvent, current, done, pageVars, storeVars>>

receive_status ==
  /\ StubStep("arm", "wait")
  /\ status' = [status EXCEPT ![grant] = FALSE]
  /\ UNCHANGED <<hostEvent, grant, channel, stubEvent, haveEvent, current, done, page, storeVars>>

\* ... and with the event comes the end, after which the object is reset ...
receive_end ==
  /\ haveEvent /\ stub = "wait" /\ page[grant] = End
  /\ StubStep("wait", "accept")
  /\ NotifyHost
  /\ grant' = None /\ channel' = None /\ stubEvent' = FALSE
  /\ current' = Empty /\ done' = <<>>
  /\ UNCHANGED <<haveEvent, pageVars, storeVars>>

\* ... or a message: it is copied, the page cleared, and the status set, ...
receive_command ==
  /\ haveEvent /\ stub = "wait" /\ page[grant] # End
  /\ StubStep("wait", "take")
  /\ current' = page[grant]
  /\ done' = Append(done, page[grant])
  /\ page' = [page EXCEPT ![grant] = Empty]
  /\ status' = [status EXCEPT ![grant] = TRUE]
  /\ UNCHANGED <<hostEvent, grant, channel, stubEvent, haveEvent, storeVars>>

\* ... until the orchestrator has seen it.
receive_taken ==
  /\ stub = "take" /\ ~status[grant]
  /\ StubStep("take", "interpret")
  /\ UNCHANGED <<hostEvent, grant, channel, stubEvent, haveEvent, current, done, pageVars, storeVars>>

\* sancho_interpreter: a reset is not answered, it ends the session from this end.
reset ==
  /\ stub = "interpret" /\ current.number \in Reset
  /\ StubStep("interpret", "accept")
  /\ grant' = None /\ channel' = None /\ stubEvent' = FALSE
  /\ current' = Empty /\ done' = <<>>
  /\ UNCHANGED <<hostEvent, haveEvent, pageVars, storeVars>>

Last == current.part = Replies[current.number]

\* send_Buffer: the next message of the answer.
reply ==
  /\ stub = "interpret" /\ current.number \notin Reset
  /\ StubStep("interpret", "notify")
  /\ current' = [current EXCEPT !.part = @ + 1]
  /\ page' = [page EXCEPT ![grant] = Reply(current, current.part + 1)]
  /\ status' = [status EXCEPT ![grant] = FALSE]
  /\ UNCHANGED <<hostEvent, grant, channel, stubEvent, haveEvent, done, storeVars>>

reply_notify ==
  /\ StubStep("notify", "status")
  /\ NotifyHost
  /\ UNCHANGED <<grant, channel, stubEvent, haveEvent, current, done, pageVars, storeVars>>

reply_status ==
  /\ stub = "status" /\ status[grant]
  /\ StubStep("status", IF Last THEN "receive" ELSE "interpret")
  /\ status' = [status EXCEPT ![grant] = FALSE]
  /\ UNCHANGED <<hostEvent, grant, channel, stubEvent, haveEvent, current, done, page, storeVars>>

Stub ==
  \/ accept_connect \/ accept_grant \/ accept_channel
  \/ receive_flag \/ receive_status \/ receive_end \/ receive_command \/ receive_taken
  \/ reset \/ reply \/ reply_notify \/ reply_status

Next == (\E h \in Hosts : Host(h) \/ kill(h)) \/ Stub \/ event_handler

Spec == Init /\ [][Next]_vars

\* An orchestrator that has been started, the stub domain and its interrupts run.
Fairness ==
  /\ \A h \in Hosts : WF_vars(Host(h) /\ host[h] # "off")
  /\ WF_vars(Stub)
  /\ WF_vars(event_handler)

FairSpec == Spec /\ Fairness

-----------------------------------------------------------------------------
(* Properties.                                                             *)

\* What an orchestrator has received for its command is the beginning of the
\* answer to that command: nothing of another command or session, nothing
\* twice, nothing left out, nothing read from a page that was being written.
RepliesAreToCommand ==
  \A h \in Hosts : \A k \in DOMAIN got[h] :
    got[h][k] = Reply(Command(h, asked[h]), k)

\* The stub domain interprets, in each session, the commands of the
\* orchestrator it is connected to, all of them, in order.
CommandsInOrder ==
  channel = grant => \A k \in DOMAIN done : done[k] = Command(grant, k)

\* Sancho/Xen/Sancho/XENduct.c:301: a connection that is accepted is set up
\* properly, so the page and the event channel are those of one orchestrator.
ConnectionIsToOne == channel # None => channel = grant

\* sancho_main.c:46: the interpreter is invoked on each connection, so the
\* stub domain does not end because of what orchestrators do.
StubStaysUp == stub # "ended"

\* An orchestrator that waits for the stub domain gets what it waits for.
Waiting(h) == host[h] \in {"offered", "sent", "receiving", "acking", "ending"}
WaitingEnds == \A h \in Hosts : Waiting(h) ~> ~Waiting(h)

\* lib/XENduct.c: a message of MAX_RECEIVE_SIZE fits into the page.
FitsIntoPage ==
  \A h \in Hosts : page[h].kind = "command"
    => DataOffset + Length[page[h].number] <= PageSize

\* An init_device that fails is reported, not followed by a crash.
FailedInitIsReported == \A h \in Hosts : host[h] # "crashed"
=============================================================================
