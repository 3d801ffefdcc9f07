------------------------------ MODULE PortDuct ------------------------------
(***************************************************************************)
(* The serial line to the USB firmware (NRF52840-DK): the host's TTYduct   *)
(* opens the port, synchronises and exchanges framed commands and replies; *)
(* the firmware's TTYduct is driven by the events of the USB library, one  *)
(* at a time, from the loops that wait for something.                      *)
(*                                                                         *)
(* A command is a header of HeaderSize bytes, which carries its size, and  *)
(* a body.  A byte is a record of what it is.  The USB library, external,  *)
(* completes a read when it has all the bytes asked for, and a write when  *)
(* the host has the port open; it refuses both on a port that is closed,   *)
(* and drops what is scheduled when the port is closed.                    *)
(***************************************************************************)
EXTENDS Naturals, Sequences, SequencesExt

CONSTANTS HeaderSize, \* the bytes of a header
          BlockSize,  \* the bytes of a USB packet
          Sizes,      \* the sizes of commands
          Garbage,    \* the size read from bytes that are no header
          Pieces,     \* the packets of a reply
          Commands,   \* a bound on the commands of a session
          Sessions,   \* a bound on the sessions
          Leaves      \* what the host can be doing when it leaves

VARIABLES
  host,      \* what the host is doing
  sessions,  \* the sessions it has begun
  sent,      \* the sizes of the commands of this session
  got,       \* the packets of the reply it has got
  wire,      \* bytes on their way to the firmware
  back,      \* packets on their way to the host
  events,    \* the queue of the USB library
  read,      \* the bytes of the read that is scheduled, zero for none
  tx,        \* the packet that is written, if any
  Port_Open, Port_Close, Have_Read, TX_Done,
  Receive_State, Receive_Blocks, Receive_Residual,
  Receive_Buffer, Input_Buffer,
  pc,        \* where the firmware is
  bufr,      \* the buffer of the interpreter
  left,      \* the packets of its reply that are left
  received   \* the sizes of the commands it got in this session

hostVars == <<host, sessions, sent, got>>
usbVars == <<wire, back, events, read, tx>>
flagVars == <<Port_Open, Port_Close, Have_Read, TX_Done>>
stateVars == <<Receive_State, Receive_Blocks, Receive_Residual, Receive_Buffer, Input_Buffer>>
mainVars == <<pc, bufr, left, received>>
vars == <<hostVars, usbVars, flagVars, stateVars, mainVars>>

NL == [is |-> "nl", of |-> 0]
Header(n) == [i \in 1..HeaderSize |-> [is |-> "header", of |-> n]]
Body(n) == [i \in 1..n |-> [is |-> "body", of |-> n]]
Bytes == {NL} \cup [is : {"header", "body"}, of : Sizes]

TypeOK ==
  /\ host \in {"closed", "sync", "idle", "wait"}
  /\ sessions \in 0..Sessions /\ got \in 0..Pieces
  /\ {sent, received} \subseteq Seq(Sizes \cup {Garbage})
  /\ {wire, Receive_Buffer, Input_Buffer, bufr} \subseteq Seq(Bytes)
  /\ back \in Seq({"@", "piece"}) /\ tx \in {"none", "@", "piece"}
  /\ events \in Seq({"open", "close", "rx", "tx"})
  /\ read \in Nat /\ Receive_Blocks \in Nat /\ Receive_Residual \in 0..(BlockSize - 1)
  /\ {Port_Open, Port_Close, Have_Read, TX_Done} \subseteq BOOLEAN
  /\ Receive_State \in {"sync", "size", "block", "residual"}
  /\ pc \in {"accept", "nested", "size", "block", "residual", "send"}
  /\ left \in 0..Pieces

\* init_device of the firmware; the host has not come yet.
Init ==
  /\ host = "closed" /\ sessions = 0 /\ sent = <<>> /\ got = 0
  /\ wire = <<>> /\ back = <<>> /\ events = <<>> /\ read = 0 /\ tx = "none"
  /\ Port_Open = FALSE /\ Port_Close = FALSE /\ Have_Read = FALSE /\ TX_Done = FALSE
  /\ Receive_State = "sync" /\ Receive_Blocks = 0 /\ Receive_Residual = 0
  /\ Receive_Buffer = <<>> /\ Input_Buffer = <<>>
  /\ pc = "accept" /\ bufr = <<>> /\ left = 0 /\ received = <<>>

-----------------------------------------------------------------------------
(* The host.                                                               *)

Firmware == <<flagVars, stateVars, pc, bufr, left>>

\* init_device of the host opens the port, discards what is there and writes
\* a line feed, once.
init_device ==
  /\ host = "closed" /\ sessions < Sessions
  /\ host' = "sync" /\ sessions' = sessions + 1 /\ sent' = <<>> /\ received' = <<>> /\ got' = 0
  /\ events' = Append(events, "open") /\ wire' = <<NL>> /\ back' = <<>>
  /\ UNCHANGED <<read, tx, Firmware>>

\* It reads until an @ comes, and discards what else there is.
read_sync ==
  /\ host = "sync" /\ back # <<>>
  /\ IF Head(back) = "@" THEN host' = "idle" /\ back' = <<>>
     ELSE host' = "sync" /\ back' = Tail(back)
  /\ UNCHANGED <<sessions, sent, got, wire, events, read, tx, Firmware, received>>

host_send ==
  /\ host = "idle" /\ Len(sent) < Commands
  /\ \E n \in Sizes : sent' = Append(sent, n) /\ wire' = wire \o Header(n) \o Body(n)
  /\ host' = "wait" /\ got' = 0
  /\ UNCHANGED <<sessions, back, events, read, tx, Firmware, received>>

host_receive ==
  /\ host = "wait" /\ back # <<>>
  /\ back' = Tail(back) /\ got' = got + 1
  /\ host' = IF got + 1 = Pieces THEN "idle" ELSE "wait"
  /\ UNCHANGED <<sessions, sent, wire, events, read, tx, Firmware, received>>

\* The host ends: what it has written and not been read is dropped.
host_leaves ==
  /\ host \in Leaves
  /\ host' = "closed"
  /\ events' = Append(events, "close") /\ wire' = <<>> /\ back' = <<>>
  /\ UNCHANGED <<sessions, sent, got, read, tx, Firmware, received>>

-----------------------------------------------------------------------------
(* The USB library.                                                        *)

usb_read ==
  /\ host # "closed" /\ read > 0 /\ Len(wire) >= read
  /\ Receive_Buffer' = SubSeq(wire, 1, read)
  /\ wire' = SubSeq(wire, read + 1, Len(wire))
  /\ read' = 0 /\ events' = Append(events, "rx")
  /\ UNCHANGED <<hostVars, back, tx, flagVars, Receive_State, Receive_Blocks, Receive_Residual, Input_Buffer, mainVars>>

usb_write ==
  /\ host # "closed" /\ tx # "none"
  /\ back' = Append(back, tx) /\ tx' = "none"
  /\ events' = Append(events, "tx")
  /\ UNCHANGED <<hostVars, wire, read, flagVars, stateVars, mainVars>>

\* A packet may still be taken from the device after the port is closed.
usb_write_late ==
  /\ host = "closed" /\ tx # "none"
  /\ tx' = "none" /\ events' = Append(events, "tx")
  /\ UNCHANGED <<hostVars, wire, back, read, flagVars, stateVars, mainVars>>

\* One of each can be scheduled, while the port is open.
Read(n) == read' = IF read = 0 /\ Port_Open THEN n ELSE read
Write(p) == tx' = IF tx = "none" /\ Port_Open THEN p ELSE tx

-----------------------------------------------------------------------------
(* The handlers.  Each handles the first event of the queue.               *)

Event(e) == events # <<>> /\ Head(events) = e /\ events' = Tail(events)

\* Mutant: a port that is open is not read.
PortOpenUnread ==
  /\ Event("open")
  /\ Port_Open' = TRUE /\ Port_Close' = FALSE
  /\ UNCHANGED <<wire, back, read, tx, Have_Read, TX_Done, stateVars>>

port_open ==
  /\ Event("open")
  /\ Port_Open' = TRUE /\ Port_Close' = FALSE
  /\ read' = IF read = 0 THEN 1 ELSE read
  /\ UNCHANGED <<wire, back, tx, Have_Read, TX_Done, stateVars>>

\* The packet that is written may stay with the device.
port_close ==
  /\ Event("close")
  /\ Port_Open' = FALSE /\ Port_Close' = TRUE
  /\ read' = 0 /\ tx' \in {tx, "none"}
  /\ UNCHANGED <<wire, back, Have_Read, TX_Done, stateVars>>

tx_done ==
  /\ Event("tx") /\ TX_Done' = TRUE
  /\ UNCHANGED <<wire, back, read, tx, Port_Open, Port_Close, Have_Read, stateVars>>

\* The size a header carries; bytes that are none give some other size.
SizeIn(b) == IF \E n \in Sizes : b = Header(n) THEN Head(b).of ELSE Garbage

Part(state, blocks, residual, request) ==
  [state |-> state, blocks |-> blocks, residual |-> residual, request |-> request]

AfterSize(n) ==
  IF n \div BlockSize # 0
  THEN Part("block", n \div BlockSize - 1, n % BlockSize, BlockSize)
  ELSE Part("residual", 0, n, n)

AfterBlock(blocks, residual) ==
  CASE blocks > 0 -> Part("block", blocks - 1, residual, BlockSize)
    [] blocks = 0 /\ residual > 0 -> Part("residual", 0, residual, residual)
    [] OTHER -> Part("size", 0, 0, HeaderSize)

\* What receive_handler makes of what was read, and what it reads next; the
\* line feed of a synchronisation is another action's.
After ==
  CASE Receive_State = "sync" -> Part("sync", Receive_Blocks, Receive_Residual, 1)
    [] Receive_State = "size" -> AfterSize(SizeIn(Receive_Buffer))
    [] Receive_State = "block" -> AfterBlock(Receive_Blocks, Receive_Residual)
    [] Receive_State = "residual" -> Part("size", Receive_Blocks, Receive_Residual, HeaderSize)

receive_handler ==
  /\ Event("rx")
  /\ Receive_State = "sync" => Receive_Buffer # <<NL>>
  /\ Have_Read' = TRUE /\ Input_Buffer' = Receive_Buffer /\ Receive_Buffer' = <<>>
  /\ Receive_State' = After.state /\ Receive_Blocks' = After.blocks
  /\ Receive_Residual' = After.residual /\ Read(After.request)
  /\ UNCHANGED <<wire, back, tx, Port_Open, Port_Close, TX_Done>>

Handled == port_open \/ port_close \/ tx_done \/ receive_handler

\* The handler of the line feed writes an @ and handles events itself until
\* that is transmitted.
receive_sync ==
  /\ Event("rx") /\ Receive_State = "sync" /\ Receive_Buffer = <<NL>>
  /\ Have_Read' = TRUE /\ Input_Buffer' = Receive_Buffer
  /\ TX_Done' = FALSE /\ Write("@")
  /\ UNCHANGED <<wire, back, read, Port_Open, Port_Close, Receive_State, Receive_Blocks, Receive_Residual, Receive_Buffer>>

-----------------------------------------------------------------------------
(* The firmware's main program.                                            *)

Stay == UNCHANGED <<hostVars, mainVars>>

\* accept_connection handles events as long as there is no synchronisation, ...
accept_event ==
  /\ pc = "accept" /\ Receive_State = "sync"
  /\ Handled /\ Stay

accept_sync ==
  /\ pc = "accept" /\ receive_sync
  /\ pc' = "nested" /\ UNCHANGED <<hostVars, bufr, left, received>>

nested_event ==
  /\ pc = "nested" /\ ~TX_Done
  /\ Handled \/ receive_sync
  /\ Stay

nested_done ==
  /\ pc = "nested" /\ TX_Done /\ pc' = "accept"
  /\ Receive_State' = "size" /\ Receive_Buffer' = <<>> /\ Read(HeaderSize)
  /\ UNCHANGED <<hostVars, wire, back, events, tx, flagVars, Receive_Blocks, Receive_Residual, Input_Buffer, bufr, left, received>>

\* ... and returns whether the port is open when there is one.  The firmware
\* then runs the interpreter, which receives.
accept_open ==
  /\ pc = "accept" /\ Receive_State # "sync" /\ Port_Open
  /\ pc' = "size" /\ bufr' = <<>>
  /\ UNCHANGED <<hostVars, usbVars, flagVars, stateVars, left, received>>

\* receive_Buffer: a loop for each part, which handles an event and looks at
\* whether the port was closed.
LoopEvent(part) ==
  /\ pc = part /\ Receive_State = part
  /\ Handled

Closes == Head(events) = "close" \/ (Port_Close /\ Head(events) # "open")

\* A port that is closed ends the interpreter.
receive_closed ==
  /\ pc \in {"size", "block", "residual"} /\ Receive_State = pc
  /\ events # <<>> /\ Closes
  /\ events' = Tail(events)
  /\ Port_Close' = TRUE /\ Port_Open' = FALSE
  /\ TX_Done' = (TX_Done \/ Head(events) = "tx") /\ Have_Read' = (Have_Read \/ Head(events) = "rx")
  /\ IF Head(events) = "close" THEN read' = 0 /\ tx' \in {tx, "none"} ELSE UNCHANGED <<read, tx>>
  /\ Receive_State' = "sync" /\ Receive_Blocks' = 0 /\ Receive_Residual' = 0
  /\ Receive_Buffer' = <<>> /\ Input_Buffer' = <<>>
  /\ pc' = "accept"
  /\ UNCHANGED <<hostVars, wire, back, bufr, left, received>>

receive_event ==
  /\ pc \in {"size", "block", "residual"} /\ LoopEvent(pc) /\ ~Closes
  /\ bufr' = IF pc # "size" /\ Head(events) = "rx" THEN bufr \o Input_Buffer' ELSE bufr
  /\ UNCHANGED <<hostVars, pc, left, received>>

\* The loop for the next part begins when the state has gone on.
receive_next ==
  /\ pc \in {"size", "block"} /\ Receive_State # pc
  /\ pc' = IF pc = "size" THEN "block" ELSE "residual"
  /\ Have_Read' = FALSE
  /\ UNCHANGED <<hostVars, usbVars, Port_Open, Port_Close, TX_Done, stateVars, bufr, left, received>>

\* receive_Buffer returns the command, and the interpreter sends its reply.
\* Mutant: the reply is sent before the rest of the command has come.
ReceiveDoneEarly ==
  /\ pc = "block" /\ Receive_State = "residual"
  /\ received' = Append(received, Len(bufr))
  /\ pc' = "send" /\ left' = Pieces - 1 /\ bufr' = <<>>
  /\ TX_Done' = FALSE /\ Write("piece")
  /\ UNCHANGED <<hostVars, wire, back, events, read, Port_Open, Port_Close, Have_Read, stateVars>>

receive_done ==
  /\ pc = "residual" /\ Receive_State # "residual"
  /\ Receive_Buffer' = <<>> /\ Input_Buffer' = <<>>
  /\ Receive_Blocks' = 0 /\ Receive_Residual' = 0
  /\ received' = Append(received, IF bufr = Body(Len(bufr)) THEN Len(bufr) ELSE Garbage)
  /\ pc' = "send" /\ left' = Pieces - 1 /\ bufr' = <<>>
  /\ TX_Done' = FALSE /\ Write("piece")
  /\ UNCHANGED <<hostVars, wire, back, events, read, Port_Open, Port_Close, Have_Read, Receive_State>>

\* send_Buffer waits for each packet, whatever else happens ...
send_event ==
  /\ pc = "send" /\ ~TX_Done
  /\ Handled /\ Stay

\* ... before it writes the next.
send_piece ==
  /\ pc = "send" /\ TX_Done
  /\ IF left > 0
     THEN left' = left - 1 /\ TX_Done' = FALSE /\ Write("piece") /\ UNCHANGED pc
     ELSE pc' = "size" /\ UNCHANGED <<left, TX_Done, tx>>
  /\ UNCHANGED <<hostVars, wire, back, events, read, Port_Open, Port_Close, Have_Read, stateVars, bufr, received>>

Host == init_device \/ read_sync \/ host_send \/ host_receive
USB == usb_read \/ usb_write
Main ==
  \/ accept_event \/ accept_sync \/ nested_event \/ nested_done \/ accept_open
  \/ receive_closed \/ receive_event \/ receive_next \/ receive_done \/ send_event \/ send_piece

Next == Host \/ host_leaves \/ USB \/ usb_write_late \/ Main

Spec == Init /\ [][Next]_vars

\* The host does not leave its calls, the library and the firmware run.
FairSpec ==
  /\ Spec
  /\ WF_vars(read_sync) /\ WF_vars(host_receive)
  /\ WF_vars(usb_read) /\ WF_vars(usb_write) /\ WF_vars(Main)

-----------------------------------------------------------------------------
(* Properties.                                                             *)

\* The interpreter gets the commands of the session, each whole and in the
\* order in which the host has sent them.
CommandsAreWhole == IsPrefix(received, sent)

\* Only the bytes of a header are taken for a size.
SizeIsSize ==
  Receive_State = "size" /\ Receive_Buffer # <<>> => \E n \in Sizes : Receive_Buffer = Header(n)

\* The host takes nothing for the reply of a command that was not received.
ReplyIsToCommand == host = "idle" => Len(received) = Len(sent)

\* sancho.c: the interpreter is invoked on each connection: the host that
\* synchronises gets its answer.
SyncIsAnswered == host = "sync" ~> host # "sync"

\* A command gets its reply.
CommandIsAnswered == host = "wait" ~> host # "wait"

\* sancho.c: the interpreter returns when the port is closed.
ClosureEnds == host = "closed" /\ pc = "send" ~> pc = "accept" \/ host # "closed"
=============================================================================
