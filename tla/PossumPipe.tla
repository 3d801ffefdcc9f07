----------------------------- MODULE PossumPipe -----------------------------
(***************************************************************************)
(* The pipe of lib/PossumPipe.c between two devices, with its packet 1 of  *)
(* lib/PossumPacket.c and over the connection of lib/Duct.c: the start, in *)
(* which the two ends make keys and verify each other, and the packets.    *)
(*                                                                         *)
(* What is computed with a key is the key itself: keys are equal when they *)
(* are made of the same things in the same order.  The devices (identity,  *)
(* reference of its platform, trusted platform module) are external.       *)
(***************************************************************************)
EXTENDS Naturals, Sequences

CONSTANTS Packets,   \* how many packets each end sends at most
          Alternate, \* do the ends take turns, as in PossumPipe_test.c?
          Changes,   \* can the software of a device change?
          Kills,     \* can a process be killed?
          Cuts       \* and that in the middle of a message?

VARIABLES
  known,    \* does the peer have the identity of an end in its directory?
  attested, \* and is the platform of the end as its reference says?
  software, \* the software status of the device of an end
  step,     \* how far an end is
  nonces,   \* the replay nonces an end has made keys of: shared1 and shared2 ...
  rehashed, \* ... and how often it has rehashed shared1
  sent,     \* the chain of an end, over what it has sent
  received, \* and over what it has received
  poisoned, \* is the pipe of an end poisoned?
  got,      \* the packets the users of an end have received
  put,      \* and how many they have sent
  wire      \* what is on its way to an end

keyVars == <<nonces, rehashed, sent, received>>
deviceVars == <<known, attested, software>>
vars == <<deviceVars, step, keyVars, poisoned, got, put, wire>>

Ends == {"client", "host"}
Peer(e) == IF e = "client" THEN "host" ELSE "client"
Payloads == Ends \X (1..Packets)

Shared1(e) == [of |-> nonces[e], rehashed |-> rehashed[e]]
Shared2(e) == {nonces[e][i] : i \in DOMAIN nonces[e]}

TypeOK ==
  /\ known \in [Ends -> BOOLEAN]
  /\ attested \in [Ends -> BOOLEAN]
  /\ software \in [Ends -> {"reference", "other"}]
  /\ step \in [Ends -> {"new", "sent", "keyed", "quoted", "running", "failed", "spinning", "gone"}]
  /\ nonces \in [Ends -> Seq(Ends)]
  /\ rehashed \in [Ends -> 0..(2 * Packets)]
  /\ \A e \in Ends : sent[e].over \in Seq(Payloads) /\ received[e].over \in Seq(Payloads)
  /\ poisoned \in [Ends -> BOOLEAN]
  /\ got \in [Ends -> Seq(Payloads)]
  /\ put \in [Ends -> 0..Packets]

\* The connection is made: the client has connected and the host accepted.
Init ==
  /\ known \in [Ends -> BOOLEAN]
  /\ attested \in [Ends -> BOOLEAN]
  /\ software = [e \in Ends |-> "reference"]
  /\ step = [e \in Ends |-> "new"]
  /\ nonces = [e \in Ends |-> <<>>]
  /\ rehashed = [e \in Ends |-> 0]
  /\ sent = [e \in Ends |-> [root |-> <<>>, over |-> <<>>]]
  /\ received = [e \in Ends |-> [root |-> <<>>, over |-> <<>>]]
  /\ poisoned = [e \in Ends |-> FALSE]
  /\ got = [e \in Ends |-> <<>>]
  /\ put = [e \in Ends |-> 0]
  /\ wire = [e \in Ends |-> <<>>]

Step(e, from, to) == step[e] = from /\ step' = [step EXCEPT ![e] = to]

\* The duct writes the message m of e, and has taken the first of its messages.
Sends(e, m) == [wire EXCEPT ![Peer(e)] = Append(@, m)]
Takes(e) == [wire EXCEPT ![e] = Tail(@)]
Answers(e, m) == [wire EXCEPT ![e] = Tail(@), ![Peer(e)] = Append(@, m)]

Arrived(e, kind) == wire[e] # <<>> /\ Head(wire[e]).kind = kind

-----------------------------------------------------------------------------
(* The start of the two ends.                                              *)

\* Packet 1: the identity and a nonce, under a key that has the software status.
Packet1(e) == [kind |-> "packet1", from |-> e, software |-> software[e]]

\* The receiver finds the identity and takes the status its reference has.
Packet1Valid(m) == known[m.from] /\ m.software = "reference"

\* A quote is under shared2; it fails to verify on another platform, and with
\* other software, which a register of the quote measures.
Quote(e) == [kind |-> "quote", from |-> e, key |-> Shared2(e), attests |-> attested[e] /\ software[e] = "reference"]
QuoteValid(e, m) == m.key = Shared2(e) /\ m.attests

\* Both ends have the nonce of the client first.
SharedKeys(e, mine, theirs) ==
  nonces' = [nonces EXCEPT ![e] = IF e = "client" THEN <<mine, theirs>> ELSE <<theirs, mine>>]

\* The chains begin at the two keys: what one end sends is what the other receives.
Root(e, direction) ==
  IF (e = "client") = (direction = "sent")
  THEN <<Shared2(e), nonces[e]>> ELSE <<nonces[e], Shared2(e)>>

Chains(e) ==
  /\ sent' = [sent EXCEPT ![e].root = Root(e, "sent")]
  /\ received' = [received EXCEPT ![e].root = Root(e, "received")]

client_packet1 ==
  /\ Step("client", "new", "sent")
  /\ wire' = Sends("client", Packet1("client"))
  /\ UNCHANGED <<deviceVars, keyVars, poisoned, got, put>>

host_packet1 ==
  /\ Arrived("host", "packet1") /\ Packet1Valid(Head(wire["host"]))
  /\ Step("host", "new", "keyed")
  /\ wire' = Answers("host", Packet1("host"))
  /\ SharedKeys("host", "host", Head(wire["host"]).from)
  /\ UNCHANGED <<deviceVars, rehashed, sent, received, poisoned, got, put>>

client_quote ==
  /\ Arrived("client", "packet1") /\ Packet1Valid(Head(wire["client"]))
  /\ Step("client", "sent", "quoted")
  /\ SharedKeys("client", "client", Head(wire["client"]).from)
  /\ wire' = Answers("client", [Quote("client") EXCEPT !.key = {"client", Head(wire["client"]).from}])
  /\ UNCHANGED <<deviceVars, rehashed, sent, received, poisoned, got, put>>

host_quote ==
  /\ Arrived("host", "quote") /\ QuoteValid("host", Head(wire["host"]))
  /\ Step("host", "keyed", "quoted")
  /\ wire' = Answers("host", Quote("host"))
  /\ UNCHANGED <<deviceVars, keyVars, poisoned, got, put>>

\* The client starts the connection ...
client_start ==
  /\ Arrived("client", "quote") /\ QuoteValid("client", Head(wire["client"]))
  /\ Step("client", "quoted", "running")
  /\ wire' = Answers("client", [kind |-> "start", key |-> Shared2("client")])
  /\ Chains("client")
  /\ UNCHANGED <<deviceVars, nonces, rehashed, poisoned, got, put>>

\* ... when the host is to have verified it too.
host_start ==
  /\ Arrived("host", "start") /\ Head(wire["host"]).key = Shared2("host")
  /\ Step("host", "quoted", "running")
  /\ wire' = Takes("host")
  /\ Chains("host")
  /\ UNCHANGED <<deviceVars, nonces, rehashed, poisoned, got, put>>

\* What an end has to find in the message it waits for, or the start fails.
Refused(e) ==
  /\ wire[e] # <<>>
  /\ \/ Arrived(e, "packet1") /\ ~Packet1Valid(Head(wire[e]))
     \/ Arrived(e, "quote") /\ ~QuoteValid(e, Head(wire[e]))
     \/ Arrived(e, "start") /\ Head(wire[e]).key # Shared2(e)

Starting(e) == step[e] \in {"new", "sent", "keyed", "quoted"}
Reads(e) == Starting(e) /\ ~(e = "client" /\ step[e] = "new")

start_fails(e) ==
  /\ Reads(e) /\ Refused(e)
  /\ step' = [step EXCEPT ![e] = "failed"]
  /\ wire' = Takes(e)
  /\ UNCHANGED <<deviceVars, keyVars, poisoned, got, put>>

-----------------------------------------------------------------------------
(* Packets.                                                                *)

\* In PossumPipe_test.c the client sends and the host returns the payload.
MaySend(e) ==
  /\ put[e] < Packets
  /\ Alternate => IF e = "client" THEN put[e] = Len(got[e]) ELSE put[e] < Len(got[e])

\* Mutant: a packet that is received does not move shared1.
RehashOnSend(e) == rehashed' = [rehashed EXCEPT ![e] = IF put' = put THEN @ ELSE @ + 1]

\* shared1 goes on with every packet, of either direction.
Rehash(e) == rehashed' = [rehashed EXCEPT ![e] = @ + 1]

send_packet(e) ==
  /\ step[e] = "running" /\ ~poisoned[e] /\ MaySend(e)
  /\ LET payload == <<e, put[e] + 1>> IN
       /\ put' = [put EXCEPT ![e] = @ + 1]
       /\ wire' = Sends(e, [kind |-> "data", payload |-> payload, shared1 |-> Shared1(e),
                            shared2 |-> Shared2(e), chain |-> sent[e], software |-> software[e]])
       /\ sent' = [sent EXCEPT ![e].over = Append(@, payload)]
  /\ Rehash(e)
  /\ UNCHANGED <<deviceVars, step, nonces, received, poisoned, got>>

\* The checksum is under shared1 and the status the reference of the peer has ...
ChecksumValid(e, m) == m.kind = "data" /\ m.shared1 = Shared1(e) /\ m.software = "reference"

\* ... and the packet under shared2 and the chain.
Decrypts(e, m) == m.shared2 = Shared2(e) /\ m.chain = received[e]

PacketValid(e, m) == ChecksumValid(e, m) /\ Decrypts(e, m)

receive_packet(e) ==
  /\ step[e] = "running" /\ ~poisoned[e] /\ wire[e] # <<>> /\ ~Arrived(e, "part")
  /\ wire' = Takes(e)
  /\ LET m == Head(wire[e]) IN
       IF PacketValid(e, m)
       THEN /\ received' = [received EXCEPT ![e].over = Append(@, m.payload)]
            /\ got' = [got EXCEPT ![e] = Append(@, m.payload)]
            /\ put' = put
            /\ Rehash(e)
            /\ UNCHANGED poisoned
       ELSE /\ poisoned' = [poisoned EXCEPT ![e] = TRUE]
            /\ UNCHANGED <<received, got, put, rehashed>>
  /\ UNCHANGED <<deviceVars, step, nonces, sent>>

-----------------------------------------------------------------------------
(* The connection and the devices.                                         *)

\* When there is no more to read receive_Buffer returns an empty message, which
\* none of its callers takes; one that does not arrive is not waited for.
end_of_file(e) ==
  /\ step[Peer(e)] = "gone" /\ ~Arrived(e, "part")
  /\ \/ /\ Reads(e)
        /\ step' = [step EXCEPT ![e] = "failed"]
        /\ UNCHANGED poisoned
     \/ /\ step[e] = "running" /\ ~poisoned[e]
        /\ poisoned' = [poisoned EXCEPT ![e] = TRUE]
        /\ UNCHANGED step
  /\ UNCHANGED <<deviceVars, keyVars, got, put, wire>>

\* In the middle of a message _receive reads nothing, and reads again.
receive_again(e) ==
  /\ Reads(e) \/ (step[e] = "running" /\ ~poisoned[e])
  /\ Arrived(e, "part")
  /\ step' = [step EXCEPT ![e] = "spinning"]
  /\ UNCHANGED <<deviceVars, keyVars, poisoned, got, put, wire>>

\* The destructor closes the connection; it is called on a pipe that failed too.
whack(e) ==
  /\ step[e] \in {"running", "failed"}
  /\ step' = [step EXCEPT ![e] = "gone"]
  /\ UNCHANGED <<deviceVars, keyVars, poisoned, got, put, wire>>

killed(e) ==
  /\ Kills /\ step[e] # "gone"
  /\ step' = [step EXCEPT ![e] = "gone"]
  /\ wire' \in {wire} \cup (IF Cuts THEN {Sends(e, [kind |-> "part"])} ELSE {})
  /\ UNCHANGED <<deviceVars, keyVars, poisoned, got, put>>

\* A program that is no part of the reference is run on a device.
change_software(e) ==
  /\ Changes /\ software[e] = "reference"
  /\ software' = [software EXCEPT ![e] = "other"]
  /\ UNCHANGED <<known, attested, step, keyVars, poisoned, got, put, wire>>

start_mode ==
  \/ client_packet1 \/ host_packet1 \/ client_quote \/ host_quote \/ client_start \/ host_start
  \/ \E e \in Ends : start_fails(e) \/ end_of_file(e) \/ receive_again(e)

Next ==
  \/ start_mode
  \/ \E e \in Ends : send_packet(e) \/ receive_packet(e) \/ whack(e) \/ killed(e) \/ change_software(e)

Spec == Init /\ [][Next]_vars

\* Both processes are scheduled, and a program whose start failed whacks the pipe.
Fairness ==
  /\ WF_vars(start_mode)
  /\ \A e \in Ends : WF_vars(step[e] = "failed" /\ whack(e)) /\ WF_vars(receive_packet(e))

FairSpec == Spec /\ Fairness

-----------------------------------------------------------------------------
(* Properties.                                                             *)

\* lib/PossumPipe.c:3: an end that has started has verified the identity and
\* the platform of the other, which has made the same keys.
PeerIsVerified ==
  \A e \in Ends : step[e] = "running" =>
    /\ known[Peer(e)] /\ attested[Peer(e)]
    /\ nonces["client"] = nonces["host"]

\* The users of an end receive what the users of the other sent: in order, no
\* packet twice and none left out, whatever the two send and when.
ReceivedIsSent ==
  \A e \in Ends : \A i \in DOMAIN got[e] : got[e][i] = <<Peer(e), i>>

\* When nothing is on its way the two ends of a direction agree on its chain.
ChainsAgree ==
  \A e \in Ends :
    step = [f \in Ends |-> "running"] /\ poisoned = [f \in Ends |-> FALSE] /\ wire[e] = <<>> =>
      sent[Peer(e)] = received[e]

\* Ends that take turns do not fail, but for a reason: a device that is not
\* what its reference says, or the other end that has gone.
FailsForReason ==
  Alternate =>
    \A e \in Ends : poisoned[e] \/ step[e] = "failed" =>
      \/ \E f \in Ends : ~known[f] \/ ~attested[f] \/ software[f] = "other"
      \/ step[Peer(e)] = "gone"

\* Neither end waits for ever to be started, whatever becomes of the other.
StartEnds == \A e \in Ends : Starting(e) ~> ~Starting(e)

\* lib/Duct.c:487 says of the read that it handles less than was asked for:
\* an end that reads does not read for ever what will not come.
NeverSpins == \A e \in Ends : step[e] # "spinning"

\* lib/PossumPipe.c:552: a packet that was sent is received, or an end is gone
\* or changed; the two may send at the same time.
PacketsMayCross ==
  \A e \in Ends : poisoned[e] =>
    \/ \E f \in Ends : software[f] = "other"
    \/ step[Peer(e)] = "gone"

=============================================================================
