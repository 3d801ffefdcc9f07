--------------------------- MODULE TransportsProofs ---------------------------
(***************************************************************************)
(* What the transports promise, for every number of messages and packets   *)
(* there are to send: proofs about the module MCTransports and about       *)
(* LocalDuct, which that extends.                                          *)
(*                                                                         *)
(* First the pipe of lib/PossumPipe.c.  The invariant PipeInv says of an   *)
(* end how far it is (EndInv) and of what is on its way to it that it is   *)
(* the next messages of the other end, and all of them while that is up    *)
(* (WireInv).  The two parts the model has of the pipe, where the ends     *)
(* take turns and where they do not, are one relation, PipeMove.           *)
(*                                                                         *)
(* Then the publisher of lib/MQTTduct.c: where its messages are            *)
(* (MessagesInv), and what its count says of them, an unsigned int that is *)
(* now and then one less than nothing (CountInv).                          *)
(*                                                                         *)
(* Then the identity manager and the page shared with a stub domain, which *)
(* IDmgrProofs and XENductProofs are about, among the other transports.    *)
(*                                                                         *)
(* Then the management socket: what is at its path, and where that leads.  *)
(*                                                                         *)
(* Last the USB port of lib/TTYduct.c and of the firmware.  While the host *)
(* is there LiveInv says where each byte of a command, each packet of its  *)
(* reply and each event of the USB library is.  When it leaves at any time *)
(* GoneInv says that at most one read is still to be handled, and of what. *)
(***************************************************************************)
EXTENDS MCTransports, SequenceTheorems, TLAPS

-----------------------------------------------------------------------------
(* The pipe: the messages of an end.                                       *)

PipeEnds == {"client", "host"}
Other(e) == IF e = "client" THEN "host" ELSE "client"
BothNonces == <<"client", "host">>

\* There are two ends.
LEMMA Others ==
  /\ \A e \in PipeEnds : Other(e) \in PipeEnds /\ Other(e) # e /\ Other(Other(e)) = e
  /\ Other("client") = "host" /\ Other("host") = "client"
  /\ "client" \in PipeEnds /\ "host" \in PipeEnds
  /\ \A e, f \in PipeEnds : f = e \/ f = Other(e)
BY DEF PipeEnds, Other

\* The first n payloads an end sends, and the chain over them.
FirstPayloads(p, n) == [i \in 1..n |-> <<p, i>>]
RootOf(p) == IF p = "client" THEN <<PipeEnds, BothNonces>> ELSE <<BothNonces, PipeEnds>>
ChainOf(p, n) == [root |-> RootOf(p), over |-> FirstPayloads(p, n)]
NoChain == [root |-> <<>>, over |-> <<>>]

\* How many messages an end sends before its first packet, has taken, has sent.
StartMessages(e) == IF e = "client" THEN 3 ELSE 2

TakenBy(e) ==
  IF step[e] = "running" THEN StartMessages(Other(e)) + Len(pipe_got[e])
  ELSE IF step[e] = "quoted" THEN IF e = "client" THEN 1 ELSE 2
  ELSE IF step[e] = "keyed" THEN 1 ELSE 0

GivenBy(e) ==
  IF step[e] = "running" THEN StartMessages(e) + put[e]
  ELSE IF step[e] = "quoted" THEN 2
  ELSE IF step[e] \in {"sent", "keyed"} THEN 1 ELSE 0

Live(e) == step[e] \in {"new", "sent", "keyed", "quoted", "running"}
Reading(e) == Live(e) /\ ~pipe_poisoned[e]

\* What its messages say of the end that sends them, and how often one that
\* takes turns has rehashed its key when it sends its n-th packet.
Sender(p) == [software |-> software[p], attested |-> attested[p], nonces |-> nonces[p], put |-> put[p],
              turns |-> part = "pipe"]

Turn(p, n) == IF p = "client" THEN 2 * (n - 1) ELSE 2 * n - 1

\* The n-th message of the end p.
FirstMessage(s, p, m) ==
  m.kind = "packet1" /\ m.from = p /\ (m.software # "reference" => s.software = "other")

QuoteMessage(s, m) ==
  /\ m.kind = "quote" /\ m.key = PipeEnds /\ s.nonces = BothNonces
  /\ m.attests => s.attested
  /\ ~m.attests => ~s.attested \/ s.software = "other"

StartMessage(m) == m.kind = "start" /\ m.key = PipeEnds

DataMessage(s, p, n, m) ==
  /\ m.kind = "data" /\ m.payload = <<p, n>>
  /\ m.shared2 = PipeEnds /\ (s.turns => m.shared1 = [of |-> BothNonces, rehashed |-> Turn(p, n)])
  /\ m.chain = ChainOf(p, n - 1)
  /\ n <= s.put
  /\ m.software # "reference" => s.software = "other"

IsMessage(s, p, n, m) ==
  \/ n = 1 /\ FirstMessage(s, p, m)
  \/ n = 2 /\ QuoteMessage(s, m)
  \/ n = 3 /\ p = "client" /\ StartMessage(m)
  \/ n > StartMessages(p) /\ DataMessage(s, p, n - StartMessages(p), m)

\* The messages of p after the first n.
AreMessages(s, p, n, w) == \A k \in 1..Len(w) : IsMessage(s, p, n + k, w[k])

IsSeq(w) == \E S : w \in Seq(S)

PipeTypes ==
  /\ known \in [PipeEnds -> BOOLEAN] /\ attested \in [PipeEnds -> BOOLEAN]
  /\ software \in [PipeEnds -> {"reference", "other"}]
  /\ step \in [PipeEnds -> {"new", "sent", "keyed", "quoted", "running", "failed", "gone"}]
  /\ nonces \in [PipeEnds -> {<<>>, BothNonces}]
  /\ rehashed \in [PipeEnds -> Nat] /\ put \in [PipeEnds -> Nat]
  /\ pipe_poisoned \in [PipeEnds -> BOOLEAN]
  /\ pipe_got = [e \in PipeEnds |-> pipe_got[e]]
  /\ pipe_sent = [e \in PipeEnds |-> pipe_sent[e]]
  /\ pipe_received = [e \in PipeEnds |-> pipe_received[e]]
  /\ pipe_wire = [e \in PipeEnds |-> pipe_wire[e]]
  /\ \A e \in PipeEnds : IsSeq(pipe_wire[e]) /\ Len(pipe_got[e]) \in Nat

\* An end, by how far it is.
EndInv(e) ==
  /\ pipe_got[e] = FirstPayloads(Other(e), Len(pipe_got[e]))
  /\ rehashed[e] = put[e] + Len(pipe_got[e])
  /\ step[e] \in {"new", "sent", "keyed", "quoted"} =>
       /\ put[e] = 0 /\ pipe_got[e] = <<>> /\ ~pipe_poisoned[e]
       /\ pipe_sent[e] = NoChain /\ pipe_received[e] = NoChain
  /\ step[e] = "running" =>
       /\ pipe_sent[e] = ChainOf(e, put[e])
       /\ pipe_received[e] = ChainOf(Other(e), Len(pipe_got[e]))
  /\ step[e] \in {"keyed", "quoted", "running"} => nonces[e] = BothNonces /\ known[Other(e)]
  /\ step[e] = "running" \/ (e = "host" /\ step[e] = "quoted") =>
       attested[Other(e)] /\ nonces[Other(e)] = BothNonces
  /\ step[e] = "keyed" => e = "host"
  /\ step[e] = "sent" => e = "client"

\* What is on its way to an end that reads: the next messages the other sent,
\* and, while that is up, all of them.
WireInv(e) ==
  Reading(e) =>
    /\ AreMessages(Sender(Other(e)), Other(e), TakenBy(e), pipe_wire[e])
    /\ Live(Other(e)) => TakenBy(e) + Len(pipe_wire[e]) = GivenBy(Other(e))

PipeInv == PipeTypes /\ \A e \in PipeEnds : EndInv(e) /\ WireInv(e)

-----------------------------------------------------------------------------
\* What is appended to a sequence, whatever its elements are.
LEMMA SeqAppended ==
  ASSUME NEW w, NEW m, IsSeq(w)
  PROVE  /\ Len(w) \in Nat /\ IsSeq(Append(w, m)) /\ Len(Append(w, m)) = Len(w) + 1
         /\ Append(w, m)[Len(w) + 1] = m
         /\ \A k \in 1..Len(w) : Append(w, m)[k] = w[k]
<1>1. PICK S : w \in Seq(S)
  BY DEF IsSeq
<1> DEFINE T == S \cup {m}
<1>2. w \in Seq(T) /\ m \in T
  BY <1>1, SeqMonotonic
<1> HIDE DEF T
<1>3. /\ Len(w) \in Nat /\ Append(w, m) \in Seq(T) /\ Len(Append(w, m)) = Len(w) + 1
      /\ Append(w, m)[Len(w) + 1] = m
      /\ \A k \in 1..Len(w) : Append(w, m)[k] = w[k]
  BY <1>2, AppendProperties, LenProperties
<1>4. QED
  BY <1>3 DEF IsSeq

\* What is left when the first element is taken.
LEMMA SeqTaken ==
  ASSUME NEW w, IsSeq(w), w # <<>>
  PROVE  /\ Len(w) \in Nat /\ Len(w) # 0 /\ IsSeq(Tail(w)) /\ Len(Tail(w)) = Len(w) - 1
         /\ Head(w) = w[1] /\ 1 \in 1..Len(w)
         /\ \A k \in 1..(Len(w) - 1) : k + 1 \in 1..Len(w) /\ Tail(w)[k] = w[k + 1]
<1>1. PICK S : w \in Seq(S)
  BY DEF IsSeq
<1>2. Len(w) \in Nat /\ Len(w) # 0
  BY <1>1, EmptySeq, LenProperties
<1>3. Tail(w) \in Seq(S) /\ Len(Tail(w)) = Len(w) - 1 /\ \A k \in 1..Len(Tail(w)) : Tail(w)[k] = w[k + 1]
  BY <1>1, HeadTailProperties
<1>4. Head(w) = w[1]
  BY <1>1
<1>5. 1 \in 1..Len(w) /\ \A k \in 1..(Len(w) - 1) : k + 1 \in 1..Len(w)
  BY <1>2
<1>6. QED
  BY <1>2, <1>3, <1>4, <1>5 DEF IsSeq

\* One payload more.
LEMMA NextPayload ==
  ASSUME NEW p, NEW n \in Nat
  PROVE  /\ Len(FirstPayloads(p, n)) = n
         /\ Append(FirstPayloads(p, n), <<p, n + 1>>) = FirstPayloads(p, n + 1)
<1> DEFINE S == {p} \X Nat  f == FirstPayloads(p, n)  g == FirstPayloads(p, n + 1)
           a == Append(f, <<p, n + 1>>)
<1>1. f = [i \in 1..n |-> <<p, i>>] /\ g = [i \in 1..(n + 1) |-> <<p, i>>]
  BY DEF FirstPayloads
<1>2. f \in Seq(S) /\ Len(f) = n /\ <<p, n + 1>> \in S
  BY <1>1, IsASeq, LenProperties
<1>3. a \in Seq(S) /\ Len(a) = n + 1 /\ a[n + 1] = <<p, n + 1>> /\ \A i \in 1..n : a[i] = f[i]
  BY <1>2, AppendProperties
<1>4. a = [i \in 1..(n + 1) |-> a[i]]
  BY <1>3
<1>5. \A i \in 1..n : f[i] = <<p, i>>
  BY <1>1
<1> HIDE DEF S, f, g, a
<1>6. \A i \in 1..(n + 1) : a[i] = <<p, i>>
  <2>1. \A i \in 1..(n + 1) : i \in 1..n \/ i = n + 1
    OBVIOUS
  <2>2. QED
    BY <1>3, <1>5, <2>1
<1>7. a = g
  BY <1>1, <1>4, <1>6
<1>8. QED
  BY <1>2, <1>7 DEF a, f, g

-----------------------------------------------------------------------------
(* What a step leaves of the messages that are on their way.               *)

\* An end may have changed, made its keys and sent packets.
Follows(s, t) ==
  /\ t.attested = s.attested /\ t.turns = s.turns
  /\ s.software = "other" => t.software = "other"
  /\ s.nonces = BothNonces => t.nonces = BothNonces
  /\ s.put \in Int /\ t.put \in Int /\ s.put <= t.put

\* What was a message of an end, is one of what the end becomes.
LEMMA MessageKept ==
  ASSUME NEW s, NEW t, Follows(s, t), NEW p \in PipeEnds, NEW n \in Nat, NEW m, IsMessage(s, p, n, m)
  PROVE  IsMessage(t, p, n, m)
<1>1. ASSUME FirstMessage(s, p, m) PROVE FirstMessage(t, p, m)
  BY <1>1 DEF FirstMessage, Follows
<1>2. ASSUME QuoteMessage(s, m) PROVE QuoteMessage(t, m)
  BY <1>2 DEF QuoteMessage, Follows
<1>3. ASSUME NEW k \in Int, DataMessage(s, p, k, m) PROVE DataMessage(t, p, k, m)
  BY <1>3 DEF DataMessage, Follows
<1>4. n - StartMessages(p) \in Int
  BY DEF StartMessages
<1>5. QED
  BY <1>1, <1>2, <1>3, <1>4 DEF IsMessage

\* So it is with all of them.
LEMMA MessagesKept ==
  ASSUME NEW s, NEW t, Follows(s, t), NEW p \in PipeEnds, NEW n \in Nat, NEW w, AreMessages(s, p, n, w)
  PROVE  AreMessages(t, p, n, w)
<1>1. ASSUME NEW k \in 1..Len(w) PROVE IsMessage(t, p, n + k, w[k])
  <2>1. IsMessage(s, p, n + k, w[k]) /\ n + k \in Nat
    BY DEF AreMessages
  <2>2. QED
    BY <2>1, MessageKept
<1>2. QED
  BY <1>1 DEF AreMessages

\* The first one is taken.
LEMMA MessageTaken ==
  ASSUME NEW s, NEW p \in PipeEnds, NEW n \in Nat, NEW w, IsSeq(w), w # <<>>, AreMessages(s, p, n, w)
  PROVE  IsMessage(s, p, n + 1, Head(w)) /\ AreMessages(s, p, n + 1, Tail(w))
<1>1. /\ Len(w) \in Nat /\ Len(Tail(w)) = Len(w) - 1 /\ Head(w) = w[1] /\ 1 \in 1..Len(w)
      /\ \A k \in 1..(Len(w) - 1) : k + 1 \in 1..Len(w) /\ Tail(w)[k] = w[k + 1]
  BY SeqTaken
<1>2. IsMessage(s, p, n + 1, Head(w))
  BY <1>1 DEF AreMessages
<1>3. ASSUME NEW k \in 1..(Len(w) - 1) PROVE IsMessage(s, p, n + 1 + k, Tail(w)[k])
  <2>1. k + 1 \in 1..Len(w) /\ Tail(w)[k] = w[k + 1] /\ n + (k + 1) = n + 1 + k
    BY <1>1
  <2>2. IsMessage(s, p, n + (k + 1), w[k + 1])
    BY <2>1 DEF AreMessages
  <2>3. QED
    BY <2>1, <2>2
<1>4. QED
  BY <1>1, <1>2, <1>3 DEF AreMessages

\* One more is sent.
LEMMA MessageGiven ==
  ASSUME NEW s, NEW p \in PipeEnds, NEW n \in Nat, NEW w, IsSeq(w), AreMessages(s, p, n, w), NEW m,
         IsMessage(s, p, n + Len(w) + 1, m)
  PROVE  AreMessages(s, p, n, Append(w, m))
<1>1. /\ Len(w) \in Nat /\ Len(Append(w, m)) = Len(w) + 1 /\ Append(w, m)[Len(w) + 1] = m
      /\ \A k \in 1..Len(w) : Append(w, m)[k] = w[k]
  BY SeqAppended
<1>2. ASSUME NEW k \in 1..(Len(w) + 1) PROVE IsMessage(s, p, n + k, Append(w, m)[k])
  <2>1. CASE k \in 1..Len(w)
    BY <1>1, <2>1 DEF AreMessages
  <2>2. CASE k = Len(w) + 1
    <3>1. n + k = n + Len(w) + 1
      BY <1>1, <2>2
    <3>2. QED
      BY <1>1, <2>2, <3>1
  <2>3. QED
    BY <1>1, <2>1, <2>2
<1>3. QED
  BY <1>1, <1>2 DEF AreMessages

\* The counts are numbers.
LEMMA Counters ==
  ASSUME PipeTypes, NEW e \in PipeEnds
  PROVE  TakenBy(e) \in Nat /\ GivenBy(e) \in Nat /\ Len(pipe_wire[e]) \in Nat
<1>1. Len(pipe_got[e]) \in Nat /\ put[e] \in Nat /\ IsSeq(pipe_wire[e])
  BY DEF PipeTypes
<1>2. Len(pipe_wire[e]) \in Nat
  BY <1>1, SeqAppended
<1>3. StartMessages(e) \in Nat /\ StartMessages(Other(e)) \in Nat
  BY DEF StartMessages
<1>4. TakenBy(e) \in Nat
  BY <1>1, <1>3 DEF TakenBy
<1>5. GivenBy(e) \in Nat
  BY <1>1, <1>3 DEF GivenBy
<1>6. QED
  BY <1>2, <1>4, <1>5

\* What both ends were, they are.
Monotone == \A p \in PipeEnds : Follows(Sender(p), Sender(p)')

\* An end reads what it read, of the one message less that it took ...
LEMMA WireTakes ==
  ASSUME PipeTypes, Monotone, NEW e \in PipeEnds, WireInv(e), Reading(e),
         pipe_wire[e] # <<>>, pipe_wire'[e] = Tail(pipe_wire[e]), TakenBy(e)' = TakenBy(e) + 1,
         Live(Other(e))' => Live(Other(e)) /\ GivenBy(Other(e))' = GivenBy(Other(e))
  PROVE  WireInv(e)'
<1>1. /\ AreMessages(Sender(Other(e)), Other(e), TakenBy(e), pipe_wire[e])
      /\ Live(Other(e)) => TakenBy(e) + Len(pipe_wire[e]) = GivenBy(Other(e))
  BY DEF WireInv
<1>2. TakenBy(e) \in Nat /\ Other(e) \in PipeEnds /\ IsSeq(pipe_wire[e])
  BY Counters, Others DEF PipeTypes
<1>3. AreMessages(Sender(Other(e)), Other(e), TakenBy(e) + 1, Tail(pipe_wire[e]))
  BY <1>1, <1>2, MessageTaken
<1>4. AreMessages(Sender(Other(e))', Other(e), TakenBy(e) + 1, Tail(pipe_wire[e]))
  BY <1>2, <1>3, MessagesKept DEF Monotone
<1>5. Len(pipe_wire[e]) \in Nat /\ Len(Tail(pipe_wire[e])) = Len(pipe_wire[e]) - 1
  BY <1>2, SeqTaken
<1>6. Live(Other(e))' => TakenBy(e)' + Len(pipe_wire'[e]) = GivenBy(Other(e))'
  <2>1. Len(pipe_wire'[e]) = Len(pipe_wire[e]) - 1
    BY <1>5
  <2>2. TakenBy(e)' + Len(pipe_wire'[e]) = TakenBy(e) + Len(pipe_wire[e])
    BY <1>2, <1>5, <2>1
  <2>3. QED
    BY <1>1, <2>2
<1>7. AreMessages(Sender(Other(e))', Other(e), TakenBy(e)', pipe_wire'[e])
  BY <1>4
<1>8. QED
  BY <1>6, <1>7 DEF WireInv

\* ... of the one more that the other gave ...
LEMMA WireGives ==
  ASSUME PipeTypes, Monotone, NEW e \in PipeEnds, WireInv(e), Reading(e), Live(Other(e)), NEW m,
         pipe_wire'[e] = Append(pipe_wire[e], m), TakenBy(e)' = TakenBy(e),
         GivenBy(Other(e))' = GivenBy(Other(e)) + 1,
         IsMessage(Sender(Other(e))', Other(e), GivenBy(Other(e)) + 1, m)
  PROVE  WireInv(e)'
<1>1. /\ AreMessages(Sender(Other(e)), Other(e), TakenBy(e), pipe_wire[e])
      /\ TakenBy(e) + Len(pipe_wire[e]) = GivenBy(Other(e))
  BY DEF WireInv
<1>2. TakenBy(e) \in Nat /\ Other(e) \in PipeEnds /\ IsSeq(pipe_wire[e])
  BY Counters, Others DEF PipeTypes
<1>3. AreMessages(Sender(Other(e))', Other(e), TakenBy(e), pipe_wire[e])
  BY <1>1, <1>2, MessagesKept DEF Monotone
<1>4. AreMessages(Sender(Other(e))', Other(e), TakenBy(e), Append(pipe_wire[e], m))
  BY <1>1, <1>2, <1>3, MessageGiven
<1>5. Len(pipe_wire[e]) \in Nat /\ Len(Append(pipe_wire[e], m)) = Len(pipe_wire[e]) + 1
  BY <1>2, SeqAppended
<1>6. TakenBy(e)' + Len(pipe_wire'[e]) = GivenBy(Other(e))'
  BY <1>1, <1>2, <1>5
<1>7. AreMessages(Sender(Other(e))', Other(e), TakenBy(e)', pipe_wire'[e])
  BY <1>4
<1>8. QED
  BY <1>6, <1>7 DEF WireInv

\* ... or of the same.
LEMMA WireKeeps ==
  ASSUME PipeTypes, Monotone, NEW e \in PipeEnds, WireInv(e),
         Reading(e)' => /\ Reading(e) /\ pipe_wire'[e] = pipe_wire[e] /\ TakenBy(e)' = TakenBy(e)
                        /\ Live(Other(e))' => Live(Other(e)) /\ GivenBy(Other(e))' = GivenBy(Other(e))
  PROVE  WireInv(e)'
<1> SUFFICES ASSUME Reading(e)' PROVE WireInv(e)'
  BY DEF WireInv
<1>1. /\ AreMessages(Sender(Other(e)), Other(e), TakenBy(e), pipe_wire[e])
      /\ Live(Other(e)) => TakenBy(e) + Len(pipe_wire[e]) = GivenBy(Other(e))
  BY DEF WireInv
<1>2. TakenBy(e) \in Nat /\ Other(e) \in PipeEnds
  BY Counters, Others
<1>3. AreMessages(Sender(Other(e))', Other(e), TakenBy(e), pipe_wire[e])
  BY <1>1, <1>2, MessagesKept DEF Monotone
<1>4. QED
  BY <1>1, <1>3 DEF WireInv

\* A step of one end, which leaves the other what it was.
Moves(e) ==
  /\ PipeTypes'
  /\ part' = part /\ known' = known /\ attested' = attested
  /\ \A f \in PipeEnds : software[f] = "other" => software'[f] = "other"
  /\ nonces[e] = BothNonces => nonces'[e] = BothNonces
  /\ put[e] <= put'[e]
  /\ \A p \in PipeEnds \ {e} :
       /\ step'[p] = step[p] /\ nonces'[p] = nonces[p] /\ rehashed'[p] = rehashed[p] /\ put'[p] = put[p]
       /\ pipe_poisoned'[p] = pipe_poisoned[p] /\ pipe_got'[p] = pipe_got[p]
       /\ pipe_sent'[p] = pipe_sent[p] /\ pipe_received'[p] = pipe_received[p]

\* Such a step keeps the other end and what both were.
LEMMA MovesKeeps ==
  ASSUME PipeInv, NEW e \in PipeEnds, Moves(e)
  PROVE  /\ PipeTypes /\ Monotone
         /\ EndInv(e) /\ EndInv(Other(e)) /\ EndInv(Other(e))'
         /\ WireInv(e) /\ WireInv(Other(e))
         /\ TakenBy(Other(e))' = TakenBy(Other(e)) /\ GivenBy(Other(e))' = GivenBy(Other(e))
         /\ Live(Other(e))' = Live(Other(e)) /\ Reading(Other(e))' = Reading(Other(e))
<1> DEFINE p == Other(e)
<1>1. p \in PipeEnds /\ p # e /\ Other(p) = e
  BY Others
<1>2. PipeTypes /\ PipeTypes' /\ EndInv(e) /\ EndInv(p) /\ WireInv(e) /\ WireInv(p)
  BY <1>1 DEF PipeInv, Moves
<1>3. /\ step'[p] = step[p] /\ nonces'[p] = nonces[p] /\ rehashed'[p] = rehashed[p] /\ put'[p] = put[p]
      /\ pipe_poisoned'[p] = pipe_poisoned[p] /\ pipe_got'[p] = pipe_got[p]
      /\ pipe_sent'[p] = pipe_sent[p] /\ pipe_received'[p] = pipe_received[p]
  BY <1>1 DEF Moves
<1> HIDE DEF p
<1>4. Monotone
  <2>1. ASSUME NEW f \in PipeEnds PROVE Follows(Sender(f), Sender(f)')
    <3>1. f = e \/ f = p
      BY Others DEF PipeEnds, p, Other
    <3>2. /\ attested'[f] = attested[f] /\ (software[f] = "other" => software'[f] = "other")
          /\ nonces[f] = BothNonces => nonces'[f] = BothNonces
          /\ put[f] \in Int /\ put'[f] \in Int /\ put[f] <= put'[f] /\ part' = part
      BY SMTT(30), <1>2, <1>3, <3>1 DEF Moves, PipeTypes
    <3>3. QED
      BY <3>2 DEF Follows, Sender
  <2>2. QED
    BY <2>1 DEF Monotone
<1>5. EndInv(p)'
  <2>1. /\ known'[e] = known[e] /\ attested'[e] = attested[e]
        /\ nonces[e] = BothNonces => nonces'[e] = BothNonces
    BY DEF Moves
  <2>2. QED
    BY <1>1, <1>2, <1>3, <2>1 DEF EndInv
<1>6. TakenBy(p)' = TakenBy(p) /\ GivenBy(p)' = GivenBy(p) /\ Live(p)' = Live(p) /\ Reading(p)' = Reading(p)
  BY <1>3 DEF TakenBy, GivenBy, Live, Reading
<1>7. QED
  BY <1>2, <1>4, <1>5, <1>6 DEF p

\* So it is enough to look at the end itself and at the two directions.
LEMMA MovesEnds ==
  ASSUME PipeInv, NEW e \in PipeEnds, Moves(e), EndInv(e)', WireInv(e)', WireInv(Other(e))'
  PROVE  PipeInv'
<1>1. EndInv(Other(e))' /\ PipeTypes'
  BY MovesKeeps DEF Moves
<1>2. \A f \in PipeEnds : f = e \/ f = Other(e)
  BY DEF PipeEnds, Other
<1>3. QED
  BY <1>1, <1>2 DEF PipeInv

\* What an end that reads finds is the next message of the other.
LEMMA NextMessage ==
  ASSUME PipeTypes, NEW e \in PipeEnds, WireInv(e), Reading(e), pipe_wire[e] # <<>>, NEW n, n = TakenBy(e) + 1
  PROVE  IsMessage(Sender(Other(e)), Other(e), n, Head(pipe_wire[e]))
<1>1. AreMessages(Sender(Other(e)), Other(e), TakenBy(e), pipe_wire[e]) /\ IsSeq(pipe_wire[e])
  BY DEF WireInv, PipeTypes
<1>2. TakenBy(e) \in Nat /\ Other(e) \in PipeEnds
  BY Counters, Others
<1>3. IsMessage(Sender(Other(e)), Other(e), TakenBy(e) + 1, Head(pipe_wire[e]))
  BY <1>1, <1>2, MessageTaken
<1>4. QED
  BY <1>3

\* An end has answered the message that it took, ...
LEMMA Answered ==
  ASSUME PipeInv, NEW e \in PipeEnds, NEW p, p = Other(e), NEW m, Reading(e), pipe_wire[e] # <<>>,
         pipe_wire'[e] = Tail(pipe_wire[e]), pipe_wire'[p] = Append(pipe_wire[p], m),
         Moves(e), EndInv(e)', TakenBy(e)' = TakenBy(e) + 1, GivenBy(e)' = GivenBy(e) + 1,
         IsMessage(Sender(e)', e, GivenBy(e) + 1, m)
  PROVE  PipeInv'
<1>1. p \in PipeEnds /\ Other(p) = e /\ Live(e)
  BY Others DEF Reading
<1>2. /\ PipeTypes /\ Monotone /\ WireInv(e) /\ WireInv(p)
      /\ TakenBy(p)' = TakenBy(p) /\ GivenBy(p)' = GivenBy(p)
      /\ Live(p)' = Live(p) /\ Reading(p)' = Reading(p)
  BY MovesKeeps
<1>3. WireInv(e)'
  BY <1>1, <1>2, WireTakes
<1>4. WireInv(p)'
  <2>1. CASE Reading(p)
    BY <1>1, <1>2, <2>1, WireGives
  <2>2. CASE ~Reading(p)
    BY <1>1, <1>2, <2>2 DEF WireInv
  <2>3. QED
    BY <2>1, <2>2
<1>5. QED
  BY <1>3, <1>4, MovesEnds

\* ... has taken it only, ...
LEMMA Took ==
  ASSUME PipeInv, NEW e \in PipeEnds, NEW p, p = Other(e), Reading(e), pipe_wire[e] # <<>>,
         pipe_wire'[e] = Tail(pipe_wire[e]), pipe_wire'[p] = pipe_wire[p],
         Moves(e), EndInv(e)',
         Reading(e)' => TakenBy(e)' = TakenBy(e) + 1,
         Live(e)' => GivenBy(e)' = GivenBy(e)
  PROVE  PipeInv'
<1>1. p \in PipeEnds /\ Other(p) = e /\ Live(e)
  BY Others DEF Reading
<1>2. /\ PipeTypes /\ Monotone /\ WireInv(e) /\ WireInv(p)
      /\ TakenBy(p)' = TakenBy(p) /\ GivenBy(p)' = GivenBy(p)
      /\ Live(p)' = Live(p) /\ Reading(p)' = Reading(p)
  BY MovesKeeps
<1>3. WireInv(e)'
  <2>1. CASE Reading(e)'
    BY <1>1, <1>2, <2>1, WireTakes
  <2>2. CASE ~Reading(e)'
    BY <2>2 DEF WireInv
  <2>3. QED
    BY <2>1, <2>2
<1>4. WireInv(p)'
  BY <1>1, <1>2, WireKeeps
<1>5. QED
  BY <1>3, <1>4, MovesEnds

\* ... has sent one, ...
LEMMA Gave ==
  ASSUME PipeInv, NEW e \in PipeEnds, NEW p, p = Other(e), NEW m, Reading(e),
         pipe_wire'[e] = pipe_wire[e], pipe_wire'[p] = Append(pipe_wire[p], m),
         Moves(e), EndInv(e)', TakenBy(e)' = TakenBy(e), GivenBy(e)' = GivenBy(e) + 1,
         IsMessage(Sender(e)', e, GivenBy(e) + 1, m)
  PROVE  PipeInv'
<1>1. p \in PipeEnds /\ Other(p) = e /\ Live(e)
  BY Others DEF Reading
<1>2. /\ PipeTypes /\ Monotone /\ WireInv(e) /\ WireInv(p)
      /\ TakenBy(p)' = TakenBy(p) /\ GivenBy(p)' = GivenBy(p)
      /\ Live(p)' = Live(p) /\ Reading(p)' = Reading(p)
  BY MovesKeeps
<1>3. WireInv(e)'
  BY <1>1, <1>2, WireKeeps
<1>4. WireInv(p)'
  <2>1. CASE Reading(p)
    BY <1>1, <1>2, <2>1, WireGives
  <2>2. CASE ~Reading(p)
    BY <1>1, <1>2, <2>2 DEF WireInv
  <2>3. QED
    BY <2>1, <2>2
<1>5. QED
  BY <1>3, <1>4, MovesEnds

\* ... or has done neither.
LEMMA Rested ==
  ASSUME PipeInv, NEW e \in PipeEnds, pipe_wire' = pipe_wire, Moves(e), EndInv(e)',
         Reading(e)' => Reading(e) /\ TakenBy(e)' = TakenBy(e),
         Live(e)' => Live(e) /\ GivenBy(e)' = GivenBy(e)
  PROVE  PipeInv'
<1> DEFINE p == Other(e)
<1>1. p \in PipeEnds /\ Other(p) = e
  BY Others
<1>2. /\ PipeTypes /\ Monotone /\ WireInv(e) /\ WireInv(p)
      /\ TakenBy(p)' = TakenBy(p) /\ GivenBy(p)' = GivenBy(p)
      /\ Live(p)' = Live(p) /\ Reading(p)' = Reading(p)
  BY MovesKeeps
<1> HIDE DEF p
<1>3. WireInv(e)'
  BY <1>1, <1>2, WireKeeps DEF p
<1>4. WireInv(p)'
  BY <1>1, <1>2, WireKeeps
<1>5. QED
  BY <1>3, <1>4, MovesEnds DEF p

\* What is on its way stays a sequence.
LEMMA WireTypes ==
  ASSUME PipeTypes, NEW f \in PipeEnds, NEW m,
         \/ pipe_wire'[f] = pipe_wire[f]
         \/ pipe_wire'[f] = Append(pipe_wire[f], m)
         \/ pipe_wire[f] # <<>> /\ pipe_wire'[f] = Tail(pipe_wire[f])
  PROVE  IsSeq(pipe_wire'[f])
<1>1. IsSeq(pipe_wire[f])
  BY DEF PipeTypes
<1>2. IsSeq(Append(pipe_wire[f], m))
  BY <1>1, SeqAppended
<1>3. pipe_wire[f] # <<>> => IsSeq(Tail(pipe_wire[f]))
  BY <1>1, SeqTaken
<1>4. QED
  BY <1>1, <1>2, <1>3

\* The payloads of nothing.
LEMMA NoPayloads == \A p : FirstPayloads(p, 0) = <<>>
BY DEF FirstPayloads

\* What is made of both nonces.
LEMMA KeyOfBoth == {BothNonces[i] : i \in DOMAIN BothNonces} = PipeEnds
<1>1. DOMAIN BothNonces = {1, 2} /\ BothNonces[1] = "client" /\ BothNonces[2] = "host"
  BY DEF BothNonces
<1>2. QED
  BY <1>1 DEF PipeEnds

\* The client begins.
LEMMA ClientSent ==
  ASSUME PipeInv, UNCHANGED part, PipeCrossed!client_packet1
  PROVE  PipeInv'
<1> DEFINE e == "client"  p == "host"
           m == PipeCrossed!Packet1(e)
<1>1. /\ step[e] = "new" /\ step' = [step EXCEPT ![e] = "sent"]
      /\ pipe_wire' = [pipe_wire EXCEPT ![p] = Append(@, m)]
      /\ UNCHANGED <<known, attested, software>>
      /\ UNCHANGED <<nonces, rehashed, pipe_sent, pipe_received, pipe_poisoned, pipe_got, put>>
  BY DEF PipeCrossed!client_packet1, PipeCrossed!Step, PipeCrossed!Sends, PipeCrossed!Peer,
      PipeCrossed!keyVars, PipeCrossed!deviceVars
<1>2. m.kind = "packet1" /\ m.from = e /\ m.software = software[e]
  BY DEF PipeCrossed!Packet1
<1>3. e = "client" /\ p = "host" /\ e \in PipeEnds /\ p \in PipeEnds /\ p = Other(e) /\ p # e
  BY Others
<1> HIDE DEF e, p, m
<1>4. PipeTypes /\ EndInv(e) /\ WireInv(e)
  BY <1>3 DEF PipeInv
<1>5. Reading(e) /\ TakenBy(e) = 0 /\ GivenBy(e) = 0
  BY <1>1, <1>3, <1>4 DEF Reading, Live, EndInv, TakenBy, GivenBy
<1>8. /\ pipe_wire'[e] = pipe_wire[e] /\ pipe_wire'[p] = Append(pipe_wire[p], m)
      /\ pipe_wire' = [f \in PipeEnds |-> pipe_wire'[f]]
  BY <1>1, <1>3, <1>4 DEF PipeTypes
<1>9. PipeTypes'
  <2>1. \A f \in PipeEnds : IsSeq(pipe_wire'[f])
    BY <1>1, <1>3, <1>4, <1>8, WireTypes
  <2>2. QED
    BY <1>1, <1>3, <1>4, <1>8, <2>1 DEF PipeTypes
<1>10. Moves(e)
  <2>1. \A q \in PipeEnds \ {e} : /\ step'[q] = step[q] /\ nonces'[q] = nonces[q]
                                  /\ pipe_sent'[q] = pipe_sent[q] /\ pipe_received'[q] = pipe_received[q]
    BY <1>1, <1>3, <1>4, Others DEF PipeTypes
  <2>2. put[e] <= put'[e] /\ (nonces[e] = BothNonces => nonces'[e] = BothNonces)
    BY <1>1, <1>3, <1>4 DEF PipeTypes
  <2>3. QED
    BY <1>1, <1>9, <2>1, <2>2 DEF Moves
<1>11. step'[e] = "sent"
  BY <1>1, <1>3, <1>4 DEF PipeTypes
<1>12. EndInv(e)'
  BY <1>1, <1>3, <1>4, <1>11 DEF EndInv
<1>13. TakenBy(e)' = 0 /\ GivenBy(e)' = 1
  BY <1>3, <1>11 DEF TakenBy, GivenBy
<1>14. IsMessage(Sender(e)', e, 1, m)
  <2>1. m.software # "reference" => Sender(e)'.software = "other"
    BY <1>1, <1>2, <1>3, <1>4 DEF PipeTypes, Sender
  <2>2. QED
    BY <1>2, <2>1 DEF IsMessage, FirstMessage
<1>15. TakenBy(e)' = TakenBy(e) /\ GivenBy(e)' = GivenBy(e) + 1 /\ GivenBy(e) + 1 = 1
  BY <1>5, <1>13
<1>16. IsMessage(Sender(e)', e, GivenBy(e) + 1, m)
  BY <1>14, <1>15
<1>17. QED
  BY <1>1, <1>3, <1>5, <1>8, <1>10, <1>12, <1>15, <1>16, Gave

\* The host takes the first message of the client, and gives its own.
LEMMA HostKeyed ==
  ASSUME PipeInv, UNCHANGED part, PipeCrossed!host_packet1
  PROVE  PipeInv'
<1> DEFINE e == "host"  p == "client"  h == Head(pipe_wire[e])
           m == PipeCrossed!Packet1(e)
<1>1. /\ pipe_wire[e] # <<>> /\ h.kind = "packet1" /\ known[h.from] /\ h.software = "reference"
      /\ step[e] = "new" /\ step' = [step EXCEPT ![e] = "keyed"]
      /\ pipe_wire' = [pipe_wire EXCEPT ![e] = Tail(@), ![p] = Append(@, m)]
      /\ nonces' = [nonces EXCEPT ![e] = <<h.from, "host">>]
      /\ UNCHANGED <<known, attested, software>>
      /\ UNCHANGED <<rehashed, pipe_sent, pipe_received, pipe_poisoned, pipe_got, put>>
  BY DEF PipeCrossed!host_packet1, PipeCrossed!Arrived, PipeCrossed!Packet1Valid, PipeCrossed!Step,
      PipeCrossed!Answers, PipeCrossed!SharedKeys, PipeCrossed!Peer, PipeCrossed!deviceVars
<1>2. m.kind = "packet1" /\ m.from = e /\ m.software = software[e]
  BY DEF PipeCrossed!Packet1
<1>3. e = "host" /\ p = "client" /\ e \in PipeEnds /\ p \in PipeEnds /\ p = Other(e) /\ p # e
  BY Others
<1> HIDE DEF e, p, h, m
<1>4. PipeTypes /\ EndInv(e) /\ WireInv(e)
  BY <1>3 DEF PipeInv
<1>5. Reading(e) /\ TakenBy(e) = 0 /\ GivenBy(e) = 0
  BY <1>1, <1>3, <1>4 DEF Reading, Live, EndInv, TakenBy, GivenBy
<1>6. h.from = p /\ known[p]
  <2>1. IsMessage(Sender(p), p, 1, h)
    BY <1>1, <1>3, <1>4, <1>5, NextMessage DEF h
  <2>2. QED
    BY <1>1, <2>1 DEF IsMessage, FirstMessage, QuoteMessage, StartMessage, DataMessage
<1>7. nonces' = [nonces EXCEPT ![e] = BothNonces]
  BY <1>1, <1>3, <1>6 DEF BothNonces
<1>8. /\ pipe_wire'[e] = Tail(pipe_wire[e]) /\ pipe_wire'[p] = Append(pipe_wire[p], m)
      /\ pipe_wire' = [f \in PipeEnds |-> pipe_wire'[f]]
  BY <1>1, <1>3, <1>4 DEF PipeTypes
<1>9. PipeTypes'
  <2>1. \A f \in PipeEnds : IsSeq(pipe_wire'[f])
    BY <1>1, <1>3, <1>4, <1>8, WireTypes
  <2>2. QED
    BY <1>1, <1>3, <1>4, <1>7, <1>8, <2>1 DEF PipeTypes
<1>10. Moves(e)
  <2>1. \A q \in PipeEnds \ {e} : /\ step'[q] = step[q] /\ nonces'[q] = nonces[q]
                                  /\ pipe_sent'[q] = pipe_sent[q] /\ pipe_received'[q] = pipe_received[q]
    BY <1>1, <1>3, <1>4, <1>7, Others DEF PipeTypes
  <2>2. put[e] <= put'[e] /\ (nonces[e] = BothNonces => nonces'[e] = BothNonces)
    BY <1>1, <1>3, <1>4, <1>7 DEF PipeTypes
  <2>3. QED
    BY <1>1, <1>9, <2>1, <2>2 DEF Moves
<1>11. step'[e] = "keyed" /\ nonces'[e] = BothNonces
  BY <1>1, <1>3, <1>4, <1>7 DEF PipeTypes
<1>12. EndInv(e)'
  BY <1>1, <1>3, <1>4, <1>6, <1>11 DEF EndInv
<1>13. TakenBy(e)' = 1 /\ GivenBy(e)' = 1
  BY <1>3, <1>11 DEF TakenBy, GivenBy
<1>14. IsMessage(Sender(e)', e, 1, m)
  <2>1. m.software # "reference" => Sender(e)'.software = "other"
    BY <1>1, <1>2, <1>3, <1>4 DEF PipeTypes, Sender
  <2>2. QED
    BY <1>2, <2>1 DEF IsMessage, FirstMessage
<1>15. TakenBy(e)' = TakenBy(e) + 1 /\ GivenBy(e)' = GivenBy(e) + 1 /\ GivenBy(e) + 1 = 1
  BY <1>5, <1>13
<1>16. IsMessage(Sender(e)', e, GivenBy(e) + 1, m)
  BY <1>14, <1>15
<1>17. QED
  BY <1>1, <1>3, <1>5, <1>8, <1>10, <1>12, <1>15, <1>16, Answered

\* The client takes it, and quotes its platform.
LEMMA ClientQuoted ==
  ASSUME PipeInv, UNCHANGED part, PipeCrossed!client_quote
  PROVE  PipeInv'
<1> DEFINE e == "client"  p == "host"  h == Head(pipe_wire[e])
           m == [PipeCrossed!Quote("client") EXCEPT !.key = {"client", h.from}]
<1>1. /\ pipe_wire[e] # <<>> /\ h.kind = "packet1" /\ known[h.from] /\ h.software = "reference"
      /\ step[e] = "sent" /\ step' = [step EXCEPT ![e] = "quoted"]
      /\ pipe_wire' = [pipe_wire EXCEPT ![e] = Tail(@), ![p] = Append(@, m)]
      /\ nonces' = [nonces EXCEPT ![e] = <<"client", h.from>>]
      /\ UNCHANGED <<known, attested, software>>
      /\ UNCHANGED <<rehashed, pipe_sent, pipe_received, pipe_poisoned, pipe_got, put>>
  BY DEF PipeCrossed!client_quote, PipeCrossed!Arrived, PipeCrossed!Packet1Valid, PipeCrossed!Step,
      PipeCrossed!Answers, PipeCrossed!SharedKeys, PipeCrossed!Peer, PipeCrossed!deviceVars
<1>2. /\ m.kind = "quote" /\ m.key = {"client", h.from}
      /\ m.attests = (attested[e] /\ software[e] = "reference")
  BY DEF PipeCrossed!Quote
<1>3. e = "client" /\ p = "host" /\ e \in PipeEnds /\ p \in PipeEnds /\ p = Other(e) /\ p # e
  BY Others
<1> HIDE DEF e, p, h, m
<1>4. PipeTypes /\ EndInv(e) /\ WireInv(e)
  BY <1>3 DEF PipeInv
<1>5. Reading(e) /\ TakenBy(e) = 0 /\ GivenBy(e) = 1
  BY <1>1, <1>3, <1>4 DEF Reading, Live, EndInv, TakenBy, GivenBy
<1>6. h.from = p /\ known[p]
  <2>1. IsMessage(Sender(p), p, 1, h)
    BY <1>1, <1>3, <1>4, <1>5, NextMessage DEF h
  <2>2. QED
    BY <1>1, <2>1 DEF IsMessage, FirstMessage, QuoteMessage, StartMessage, DataMessage
<1>7. nonces' = [nonces EXCEPT ![e] = BothNonces]
  BY <1>1, <1>3, <1>6 DEF BothNonces
<1>8. /\ pipe_wire'[e] = Tail(pipe_wire[e]) /\ pipe_wire'[p] = Append(pipe_wire[p], m)
      /\ pipe_wire' = [f \in PipeEnds |-> pipe_wire'[f]]
  BY <1>1, <1>3, <1>4 DEF PipeTypes
<1>9. PipeTypes'
  <2>1. \A f \in PipeEnds : IsSeq(pipe_wire'[f])
    BY <1>1, <1>3, <1>4, <1>8, WireTypes
  <2>2. QED
    BY <1>1, <1>3, <1>4, <1>7, <1>8, <2>1 DEF PipeTypes
<1>10. Moves(e)
  <2>1. \A q \in PipeEnds \ {e} : /\ step'[q] = step[q] /\ nonces'[q] = nonces[q]
                                  /\ pipe_sent'[q] = pipe_sent[q] /\ pipe_received'[q] = pipe_received[q]
    BY <1>1, <1>3, <1>4, <1>7, Others DEF PipeTypes
  <2>2. put[e] <= put'[e] /\ (nonces[e] = BothNonces => nonces'[e] = BothNonces)
    BY <1>1, <1>3, <1>4, <1>7 DEF PipeTypes
  <2>3. QED
    BY <1>1, <1>9, <2>1, <2>2 DEF Moves
<1>11. step'[e] = "quoted" /\ nonces'[e] = BothNonces
  BY <1>1, <1>3, <1>4, <1>7 DEF PipeTypes
<1>12. EndInv(e)'
  BY <1>1, <1>3, <1>4, <1>6, <1>11 DEF EndInv
<1>13. TakenBy(e)' = 1 /\ GivenBy(e)' = 2
  BY <1>3, <1>11 DEF TakenBy, GivenBy
<1>14. IsMessage(Sender(e)', e, 2, m)
  <2>1. m.kind = "quote" /\ m.key = PipeEnds /\ m.attests = (attested[e] /\ software[e] = "reference")
    BY <1>1, <1>2, <1>3, <1>4, <1>6, KeyOfBoth DEF PipeEnds, EndInv
  <2>2. /\ Sender(e)'.attested = attested[e] /\ Sender(e)'.nonces = BothNonces
        /\ Sender(e)'.software = software[e] /\ software[e] \in {"reference", "other"}
    BY <1>1, <1>3, <1>4, <1>11 DEF Sender, PipeTypes, EndInv
  <2>3. QED
    BY <2>1, <2>2 DEF IsMessage, QuoteMessage
<1>15. TakenBy(e)' = TakenBy(e) + 1 /\ GivenBy(e)' = GivenBy(e) + 1 /\ GivenBy(e) + 1 = 2
  BY <1>5, <1>13
<1>16. IsMessage(Sender(e)', e, GivenBy(e) + 1, m)
  BY <1>14, <1>15
<1>17. QED
  BY <1>1, <1>3, <1>5, <1>8, <1>10, <1>12, <1>15, <1>16, Answered

\* The host takes the quote, and quotes its own.
LEMMA HostQuoted ==
  ASSUME PipeInv, UNCHANGED part, PipeCrossed!host_quote
  PROVE  PipeInv'
<1> DEFINE e == "host"  p == "client"  h == Head(pipe_wire[e])
           m == PipeCrossed!Quote(e)
<1>1. /\ pipe_wire[e] # <<>> /\ h.kind = "quote" /\ h.attests
      /\ step[e] = "keyed" /\ step' = [step EXCEPT ![e] = "quoted"]
      /\ pipe_wire' = [pipe_wire EXCEPT ![e] = Tail(@), ![p] = Append(@, m)]
      /\ UNCHANGED <<known, attested, software>>
      /\ UNCHANGED <<nonces, rehashed, pipe_sent, pipe_received, pipe_poisoned, pipe_got, put>>
  BY DEF PipeCrossed!host_quote, PipeCrossed!Arrived, PipeCrossed!QuoteValid, PipeCrossed!Step,
      PipeCrossed!Answers, PipeCrossed!Peer, PipeCrossed!deviceVars, PipeCrossed!keyVars
<1>2. /\ m.kind = "quote" /\ m.key = {nonces[e][i] : i \in DOMAIN nonces[e]}
      /\ m.attests = (attested[e] /\ software[e] = "reference")
  BY DEF PipeCrossed!Quote, PipeCrossed!Shared2
<1>3. e = "host" /\ p = "client" /\ e \in PipeEnds /\ p \in PipeEnds /\ p = Other(e) /\ p # e
  BY Others
<1> HIDE DEF e, p, h, m
<1>4. PipeTypes /\ EndInv(e) /\ WireInv(e)
  BY <1>3 DEF PipeInv
<1>5. Reading(e) /\ TakenBy(e) = 1 /\ GivenBy(e) = 1
  BY <1>1, <1>3, <1>4 DEF Reading, Live, EndInv, TakenBy, GivenBy
<1>6. attested[p] /\ nonces[p] = BothNonces
  <2>1. IsMessage(Sender(p), p, 2, h)
    BY <1>1, <1>3, <1>4, <1>5, NextMessage DEF h
  <2>2. h.attests /\ QuoteMessage(Sender(p), h)
    BY <1>1, <1>3, <2>1 DEF IsMessage, FirstMessage, QuoteMessage, StartMessage, DataMessage, StartMessages
  <2>3. QED
    BY <2>2 DEF QuoteMessage, Sender
<1>8. /\ pipe_wire'[e] = Tail(pipe_wire[e]) /\ pipe_wire'[p] = Append(pipe_wire[p], m)
      /\ pipe_wire' = [f \in PipeEnds |-> pipe_wire'[f]]
  BY <1>1, <1>3, <1>4 DEF PipeTypes
<1>9. PipeTypes'
  <2>1. \A f \in PipeEnds : IsSeq(pipe_wire'[f])
    BY <1>1, <1>3, <1>4, <1>8, WireTypes
  <2>2. QED
    BY <1>1, <1>3, <1>4, <1>8, <2>1 DEF PipeTypes
<1>10. Moves(e)
  <2>1. \A q \in PipeEnds \ {e} : /\ step'[q] = step[q] /\ nonces'[q] = nonces[q]
                                  /\ pipe_sent'[q] = pipe_sent[q] /\ pipe_received'[q] = pipe_received[q]
    BY <1>1, <1>3, <1>4, Others DEF PipeTypes
  <2>2. put[e] <= put'[e] /\ (nonces[e] = BothNonces => nonces'[e] = BothNonces)
    BY <1>1, <1>3, <1>4 DEF PipeTypes
  <2>3. QED
    BY <1>1, <1>9, <2>1, <2>2 DEF Moves
<1>11. step'[e] = "quoted"
  BY <1>1, <1>3, <1>4 DEF PipeTypes
<1>12. EndInv(e)'
  BY <1>1, <1>3, <1>4, <1>6, <1>11 DEF EndInv
<1>13. TakenBy(e)' = 2 /\ GivenBy(e)' = 2
  BY <1>3, <1>11 DEF TakenBy, GivenBy
<1>14. IsMessage(Sender(e)', e, 2, m)
  <2>1. m.kind = "quote" /\ m.key = PipeEnds /\ m.attests = (attested[e] /\ software[e] = "reference")
    <3>1. nonces[e] = BothNonces
      BY <1>1, <1>3, <1>4 DEF EndInv
    <3>2. m.key = {BothNonces[i] : i \in DOMAIN BothNonces}
      BY <1>2, <3>1
    <3>3. QED
      BY <1>2, <3>2, KeyOfBoth
  <2>2. /\ Sender(e)'.attested = attested[e] /\ Sender(e)'.nonces = BothNonces
        /\ Sender(e)'.software = software[e] /\ software[e] \in {"reference", "other"}
    BY <1>1, <1>3, <1>4, <1>11 DEF Sender, PipeTypes, EndInv
  <2>3. QED
    BY <2>1, <2>2 DEF IsMessage, QuoteMessage
<1>15. TakenBy(e)' = TakenBy(e) + 1 /\ GivenBy(e)' = GivenBy(e) + 1 /\ GivenBy(e) + 1 = 2
  BY <1>5, <1>13
<1>16. IsMessage(Sender(e)', e, GivenBy(e) + 1, m)
  BY <1>14, <1>15
<1>17. QED
  BY <1>1, <1>3, <1>5, <1>8, <1>10, <1>12, <1>15, <1>16, Answered

\* The client takes that, and starts.
LEMMA ClientStarted ==
  ASSUME PipeInv, UNCHANGED part, PipeCrossed!client_start
  PROVE  PipeInv'
<1> DEFINE e == "client"  p == "host"  h == Head(pipe_wire[e])
           m == [kind |-> "start", key |-> PipeCrossed!Shared2(e)]
<1>1. /\ pipe_wire[e] # <<>> /\ h.kind = "quote" /\ h.attests
      /\ step[e] = "quoted" /\ step' = [step EXCEPT ![e] = "running"]
      /\ pipe_wire' = [pipe_wire EXCEPT ![e] = Tail(@), ![p] = Append(@, m)]
      /\ pipe_sent' = [pipe_sent EXCEPT ![e].root = PipeCrossed!Root(e, "sent")]
      /\ pipe_received' = [pipe_received EXCEPT ![e].root = PipeCrossed!Root(e, "received")]
      /\ UNCHANGED <<known, attested, software>>
      /\ UNCHANGED <<nonces, rehashed, pipe_poisoned, pipe_got, put>>
  BY DEF PipeCrossed!client_start, PipeCrossed!Arrived, PipeCrossed!QuoteValid, PipeCrossed!Step,
      PipeCrossed!Answers, PipeCrossed!Peer, PipeCrossed!Chains, PipeCrossed!deviceVars
<1>2. m.kind = "start" /\ m.key = {nonces[e][i] : i \in DOMAIN nonces[e]}
  BY DEF PipeCrossed!Shared2
<1>3. e = "client" /\ p = "host" /\ e \in PipeEnds /\ p \in PipeEnds /\ p = Other(e) /\ p # e
  BY Others
<1> HIDE DEF e, p, h, m
<1>4. PipeTypes /\ EndInv(e) /\ WireInv(e)
  BY <1>3 DEF PipeInv
<1>5. Reading(e) /\ TakenBy(e) = 1 /\ GivenBy(e) = 2
  BY <1>1, <1>3, <1>4 DEF Reading, Live, EndInv, TakenBy, GivenBy
<1>6. attested[p] /\ nonces[p] = BothNonces
  <2>1. IsMessage(Sender(p), p, 2, h)
    BY <1>1, <1>3, <1>4, <1>5, NextMessage DEF h
  <2>2. h.attests /\ QuoteMessage(Sender(p), h)
    BY <1>1, <1>3, <2>1 DEF IsMessage, FirstMessage, QuoteMessage, StartMessage, DataMessage, StartMessages
  <2>3. QED
    BY <2>2 DEF QuoteMessage, Sender
<1>7. /\ pipe_sent' = [f \in PipeEnds |-> pipe_sent'[f]]
      /\ pipe_received' = [f \in PipeEnds |-> pipe_received'[f]]
      /\ pipe_sent'[p] = pipe_sent[p] /\ pipe_received'[p] = pipe_received[p]
      /\ pipe_sent'[e] = ChainOf(e, 0) /\ pipe_received'[e] = ChainOf(p, 0)
  <2>1. /\ pipe_sent = [f \in PipeEnds |-> pipe_sent[f]]
        /\ pipe_received = [f \in PipeEnds |-> pipe_received[f]]
    BY <1>4 DEF PipeTypes
  <2>2. pipe_sent[e] = NoChain /\ pipe_received[e] = NoChain /\ nonces[e] = BothNonces
    BY <1>1, <1>3, <1>4 DEF EndInv
  <2>3. PipeCrossed!Root(e, "sent") = RootOf(e) /\ PipeCrossed!Root(e, "received") = RootOf(p)
    BY <1>3, <2>2, KeyOfBoth DEF PipeCrossed!Root, PipeCrossed!Shared2, RootOf
  <2>4. /\ pipe_sent'[e] = [NoChain EXCEPT !.root = RootOf(e)]
        /\ pipe_received'[e] = [NoChain EXCEPT !.root = RootOf(p)]
    BY <1>1, <1>3, <2>1, <2>2, <2>3
  <2>5. pipe_sent'[e] = ChainOf(e, 0) /\ pipe_received'[e] = ChainOf(p, 0)
    BY <2>4, NoPayloads DEF NoChain, ChainOf
  <2>6. QED
    BY <1>1, <1>3, <2>1, <2>5
<1>8. /\ pipe_wire'[e] = Tail(pipe_wire[e]) /\ pipe_wire'[p] = Append(pipe_wire[p], m)
      /\ pipe_wire' = [f \in PipeEnds |-> pipe_wire'[f]]
  BY <1>1, <1>3, <1>4 DEF PipeTypes
<1>9. PipeTypes'
  <2>1. \A f \in PipeEnds : IsSeq(pipe_wire'[f])
    BY <1>1, <1>3, <1>4, <1>8, WireTypes
  <2>2. QED
    BY <1>1, <1>3, <1>4, <1>7, <1>8, <2>1 DEF PipeTypes
<1>10. Moves(e)
  <2>1. \A q \in PipeEnds \ {e} : /\ step'[q] = step[q] /\ nonces'[q] = nonces[q]
                                  /\ pipe_sent'[q] = pipe_sent[q] /\ pipe_received'[q] = pipe_received[q]
    BY <1>1, <1>3, <1>4, <1>7, Others DEF PipeTypes
  <2>2. put[e] <= put'[e] /\ (nonces[e] = BothNonces => nonces'[e] = BothNonces)
    BY <1>1, <1>3, <1>4, <1>7 DEF PipeTypes
  <2>3. QED
    BY <1>1, <1>9, <2>1, <2>2 DEF Moves
<1>11. step'[e] = "running"
  BY <1>1, <1>3, <1>4, <1>7 DEF PipeTypes
<1>12. EndInv(e)'
  <2>1. put'[e] = 0 /\ pipe_got'[e] = <<>> /\ Len(pipe_got'[e]) = 0 /\ ~pipe_poisoned'[e] /\ rehashed'[e] = 0
    BY <1>1, <1>3, <1>4, EmptySeq DEF EndInv
  <2>2. nonces'[e] = BothNonces /\ known'[p] /\ attested'[p] /\ nonces'[p] = BothNonces
    BY <1>1, <1>3, <1>4, <1>6 DEF EndInv
  <2>3. QED
    BY <1>3, <1>7, <1>11, <2>1, <2>2, NoPayloads DEF EndInv
<1>13. TakenBy(e)' = 2 /\ GivenBy(e)' = 3
  <2>1. Len(pipe_got'[e]) = 0 /\ put'[e] = 0
    BY <1>1, <1>3, <1>4, EmptySeq DEF EndInv
  <2>2. QED
    BY <1>3, <1>11, <2>1 DEF TakenBy, GivenBy, StartMessages
<1>14. IsMessage(Sender(e)', e, 3, m)
  <2>1. m.kind = "start" /\ m.key = PipeEnds
    BY <1>1, <1>2, <1>3, <1>4, KeyOfBoth DEF EndInv
  <2>2. QED
    BY <1>3, <2>1 DEF IsMessage, StartMessage
<1>15. TakenBy(e)' = TakenBy(e) + 1 /\ GivenBy(e)' = GivenBy(e) + 1 /\ GivenBy(e) + 1 = 3
  BY <1>5, <1>13
<1>16. IsMessage(Sender(e)', e, GivenBy(e) + 1, m)
  BY <1>14, <1>15
<1>17. QED
  BY <1>1, <1>3, <1>5, <1>8, <1>10, <1>12, <1>15, <1>16, Answered

\* The host starts.
LEMMA HostStarted ==
  ASSUME PipeInv, UNCHANGED part, PipeCrossed!host_start
  PROVE  PipeInv'
<1> DEFINE e == "host"  p == "client"  h == Head(pipe_wire[e])
<1>1. /\ pipe_wire[e] # <<>> /\ h.kind = "start"
      /\ step[e] = "quoted" /\ step' = [step EXCEPT ![e] = "running"]
      /\ pipe_wire' = [pipe_wire EXCEPT ![e] = Tail(@)]
      /\ pipe_sent' = [pipe_sent EXCEPT ![e].root = PipeCrossed!Root(e, "sent")]
      /\ pipe_received' = [pipe_received EXCEPT ![e].root = PipeCrossed!Root(e, "received")]
      /\ UNCHANGED <<known, attested, software>>
      /\ UNCHANGED <<nonces, rehashed, pipe_poisoned, pipe_got, put>>
  BY DEF PipeCrossed!host_start, PipeCrossed!Arrived, PipeCrossed!Step, PipeCrossed!Takes,
      PipeCrossed!Chains, PipeCrossed!deviceVars
<1>3. e = "host" /\ p = "client" /\ e \in PipeEnds /\ p \in PipeEnds /\ p = Other(e) /\ p # e
  BY Others
<1> HIDE DEF e, p, h
<1>4. PipeTypes /\ EndInv(e) /\ WireInv(e)
  BY <1>3 DEF PipeInv
<1>5. Reading(e) /\ TakenBy(e) = 2 /\ GivenBy(e) = 2
  BY <1>1, <1>3, <1>4 DEF Reading, Live, EndInv, TakenBy, GivenBy
<1>6. attested[p] /\ nonces[p] = BothNonces
  <2>1. IsMessage(Sender(p), p, 3, h)
    BY <1>1, <1>3, <1>4, <1>5, NextMessage DEF h
  <2>2. QED
    BY <1>1, <1>3, <1>4 DEF EndInv
<1>7. /\ pipe_sent' = [f \in PipeEnds |-> pipe_sent'[f]]
      /\ pipe_received' = [f \in PipeEnds |-> pipe_received'[f]]
      /\ pipe_sent'[p] = pipe_sent[p] /\ pipe_received'[p] = pipe_received[p]
      /\ pipe_sent'[e] = ChainOf(e, 0) /\ pipe_received'[e] = ChainOf(p, 0)
  <2>1. /\ pipe_sent = [f \in PipeEnds |-> pipe_sent[f]]
        /\ pipe_received = [f \in PipeEnds |-> pipe_received[f]]
    BY <1>4 DEF PipeTypes
  <2>2. pipe_sent[e] = NoChain /\ pipe_received[e] = NoChain /\ nonces[e] = BothNonces
    BY <1>1, <1>3, <1>4 DEF EndInv
  <2>3. PipeCrossed!Root(e, "sent") = RootOf(e) /\ PipeCrossed!Root(e, "received") = RootOf(p)
    BY <1>3, <2>2, KeyOfBoth DEF PipeCrossed!Root, PipeCrossed!Shared2, RootOf
  <2>4. /\ pipe_sent'[e] = [NoChain EXCEPT !.root = RootOf(e)]
        /\ pipe_received'[e] = [NoChain EXCEPT !.root = RootOf(p)]
    BY <1>1, <1>3, <2>1, <2>2, <2>3
  <2>5. pipe_sent'[e] = ChainOf(e, 0) /\ pipe_received'[e] = ChainOf(p, 0)
    BY <2>4, NoPayloads DEF NoChain, ChainOf
  <2>6. QED
    BY <1>1, <1>3, <2>1, <2>5
<1>8. /\ pipe_wire'[e] = Tail(pipe_wire[e]) /\ pipe_wire'[p] = pipe_wire[p]
      /\ pipe_wire' = [f \in PipeEnds |-> pipe_wire'[f]]
  BY <1>1, <1>3, <1>4 DEF PipeTypes
<1>9. PipeTypes'
  <2>1. \A f \in PipeEnds : IsSeq(pipe_wire'[f])
    BY <1>1, <1>3, <1>4, <1>8, WireTypes
  <2>2. QED
    BY <1>1, <1>3, <1>4, <1>7, <1>8, <2>1 DEF PipeTypes
<1>10. Moves(e)
  <2>1. \A q \in PipeEnds \ {e} : /\ step'[q] = step[q] /\ nonces'[q] = nonces[q]
                                  /\ pipe_sent'[q] = pipe_sent[q] /\ pipe_received'[q] = pipe_received[q]
    BY <1>1, <1>3, <1>4, <1>7, Others DEF PipeTypes
  <2>2. put[e] <= put'[e] /\ (nonces[e] = BothNonces => nonces'[e] = BothNonces)
    BY <1>1, <1>3, <1>4, <1>7 DEF PipeTypes
  <2>3. QED
    BY <1>1, <1>9, <2>1, <2>2 DEF Moves
<1>11. step'[e] = "running"
  BY <1>1, <1>3, <1>4, <1>7 DEF PipeTypes
<1>12. EndInv(e)'
  <2>1. put'[e] = 0 /\ pipe_got'[e] = <<>> /\ Len(pipe_got'[e]) = 0 /\ ~pipe_poisoned'[e] /\ rehashed'[e] = 0
    BY <1>1, <1>3, <1>4, EmptySeq DEF EndInv
  <2>2. nonces'[e] = BothNonces /\ known'[p] /\ attested'[p] /\ nonces'[p] = BothNonces
    BY <1>1, <1>3, <1>4, <1>6 DEF EndInv
  <2>3. QED
    BY <1>3, <1>7, <1>11, <2>1, <2>2, NoPayloads DEF EndInv
<1>13. TakenBy(e)' = 3 /\ GivenBy(e)' = 2
  <2>1. Len(pipe_got'[e]) = 0 /\ put'[e] = 0
    BY <1>1, <1>3, <1>4, EmptySeq DEF EndInv
  <2>2. QED
    BY <1>3, <1>11, <2>1 DEF TakenBy, GivenBy, StartMessages
<1>15. TakenBy(e)' = TakenBy(e) + 1 /\ GivenBy(e)' = GivenBy(e)
  BY <1>5, <1>13
<1>17. QED
  BY <1>1, <1>3, <1>5, <1>8, <1>10, <1>12, <1>15, Took

\* The ends of the module are those.
LEMMA PeerIsOther == PipeCrossed!Ends = PipeEnds /\ \A e : PipeCrossed!Peer(e) = Other(e)
BY DEF PipeCrossed!Ends, PipeCrossed!Peer, PipeEnds, Other

\* An end that is being started or runs reads, if it is not poisoned.
LEMMA StartingReads ==
  ASSUME PipeInv, NEW e \in PipeEnds, step[e] \in {"new", "sent", "keyed", "quoted"}
  PROVE  Reading(e)
<1>1. EndInv(e)
  BY DEF PipeInv
<1>2. QED
  BY <1>1 DEF EndInv, Reading, Live

\* An end that ends changes nothing but how far it is, and what it has read.
LEMMA Stopped ==
  ASSUME PipeInv, UNCHANGED part, NEW e \in PipeEnds, NEW s \in {"failed", "gone"},
         step' = [step EXCEPT ![e] = s],
         UNCHANGED <<known, attested, software, nonces, rehashed, pipe_sent, pipe_received>>,
         UNCHANGED <<pipe_poisoned, pipe_got, put>>,
         \/ UNCHANGED pipe_wire
         \/ Reading(e) /\ pipe_wire[e] # <<>> /\ pipe_wire' = [pipe_wire EXCEPT ![e] = Tail(@)]
  PROVE  PipeInv'
<1>1. PipeTypes /\ EndInv(e)
  BY DEF PipeInv
<1>2. step'[e] = s /\ (\A f \in PipeEnds \ {e} : step'[f] = step[f]) /\ ~Live(e)'
  BY <1>1 DEF PipeTypes, Live
<1>3. \A f \in PipeEnds : IsSeq(pipe_wire'[f])
  <2>1. ASSUME NEW f \in PipeEnds
        PROVE  pipe_wire'[f] = pipe_wire[f] \/ (pipe_wire[f] # <<>> /\ pipe_wire'[f] = Tail(pipe_wire[f]))
    BY <1>1 DEF PipeTypes
  <2>2. QED
    BY <1>1, <2>1, WireTypes
<1>4. PipeTypes'
  BY <1>1, <1>3 DEF PipeTypes
<1>5. Moves(e)
  <2>1. put[e] <= put'[e]
    BY <1>1 DEF PipeTypes
  <2>2. QED
    BY <1>2, <1>4, <2>1 DEF Moves
<1>6. EndInv(e)'
  BY <1>1, <1>2 DEF EndInv
<1>7. CASE UNCHANGED pipe_wire
  BY <1>2, <1>5, <1>6, <1>7, Rested DEF Reading
<1>8. CASE Reading(e) /\ pipe_wire[e] # <<>> /\ pipe_wire' = [pipe_wire EXCEPT ![e] = Tail(@)]
  <2>1. pipe_wire'[e] = Tail(pipe_wire[e]) /\ pipe_wire'[Other(e)] = pipe_wire[Other(e)]
    BY <1>1, <1>8, Others DEF PipeTypes
  <2>2. QED
    BY <1>2, <1>5, <1>6, <1>8, <2>1, Took DEF Reading
<1>9. QED
  BY <1>7, <1>8

\* A start that fails, ...
LEMMA StartFailed ==
  ASSUME PipeInv, UNCHANGED part, NEW e \in PipeEnds, PipeCrossed!start_fails(e)
  PROVE  PipeInv'
<1>1. /\ step[e] \in {"new", "sent", "keyed", "quoted"} /\ pipe_wire[e] # <<>>
      /\ step' = [step EXCEPT ![e] = "failed"] /\ pipe_wire' = [pipe_wire EXCEPT ![e] = Tail(@)]
      /\ UNCHANGED <<known, attested, software, nonces, rehashed, pipe_sent, pipe_received>>
      /\ UNCHANGED <<pipe_poisoned, pipe_got, put>>
  BY DEF PipeCrossed!start_fails, PipeCrossed!Reads, PipeCrossed!Starting, PipeCrossed!Refused,
         PipeCrossed!Takes, PipeCrossed!keyVars, PipeCrossed!deviceVars
<1>2. Reading(e)
  BY <1>1, StartingReads
<1>3. QED
  BY <1>1, <1>2, Stopped

\* ... or finds nothing more to read, as an end that runs may, ...
LEMMA FileEnded ==
  ASSUME PipeInv, UNCHANGED part, NEW e \in PipeEnds, PipeCrossed!end_of_file(e)
  PROVE  PipeInv'
<1>1. UNCHANGED <<known, attested, software, nonces, rehashed, pipe_sent, pipe_received>>
  BY DEF PipeCrossed!end_of_file, PipeCrossed!keyVars, PipeCrossed!deviceVars
<1>2. UNCHANGED <<pipe_got, put, pipe_wire>>
  BY DEF PipeCrossed!end_of_file
<1>3. CASE step' = [step EXCEPT ![e] = "failed"] /\ UNCHANGED pipe_poisoned
  BY <1>1, <1>2, <1>3, Stopped
<1>4. CASE /\ step[e] = "running" /\ ~pipe_poisoned[e]
           /\ pipe_poisoned' = [pipe_poisoned EXCEPT ![e] = TRUE] /\ UNCHANGED step
  <2>1. PipeTypes /\ EndInv(e)
    BY DEF PipeInv
  <2>2. pipe_poisoned'[e] /\ \A f \in PipeEnds \ {e} : pipe_poisoned'[f] = pipe_poisoned[f]
    BY <1>4, <2>1 DEF PipeTypes
  <2>3. PipeTypes'
    BY <1>1, <1>2, <1>4, <2>1 DEF PipeTypes
  <2>4. put[e] <= put'[e]
    BY <1>2, <2>1 DEF PipeTypes
  <2>5. Moves(e)
    BY <1>1, <1>2, <1>4, <2>2, <2>3, <2>4 DEF Moves
  <2>6. EndInv(e)'
    BY <1>1, <1>2, <1>4, <2>1 DEF EndInv
  <2>7. ~Reading(e)' /\ Live(e) /\ GivenBy(e)' = GivenBy(e)
    BY <1>2, <1>4, <2>2 DEF Reading, Live, GivenBy
  <2>8. QED
    BY <1>2, <2>5, <2>6, <2>7, Rested
<1>5. QED
  BY <1>3, <1>4 DEF PipeCrossed!end_of_file

\* ... but no end finds a part of a message, since none is cut.
LEMMA NothingIsCut ==
  ASSUME PipeInv, NEW e \in PipeEnds, Reading(e), pipe_wire[e] # <<>>
  PROVE  Head(pipe_wire[e]).kind # "part"
<1>1. IsMessage(Sender(Other(e)), Other(e), TakenBy(e) + 1, Head(pipe_wire[e]))
  BY NextMessage DEF PipeInv
<1>2. QED
  BY <1>1 DEF IsMessage, FirstMessage, QuoteMessage, StartMessage, DataMessage

\* So none reads again and again.
LEMMA NoneReadsAgain ==
  ASSUME PipeInv, NEW e \in PipeEnds
  PROVE  ~PipeCrossed!receive_again(e)
<1> SUFFICES ASSUME PipeCrossed!receive_again(e) PROVE FALSE
  OBVIOUS
<1>1. \/ step[e] \in {"new", "sent", "keyed", "quoted"}
      \/ step[e] = "running" /\ ~pipe_poisoned[e]
  BY DEF PipeCrossed!receive_again, PipeCrossed!Reads, PipeCrossed!Starting
<1>2. Reading(e)
  BY <1>1, StartingReads DEF Reading, Live
<1>3. pipe_wire[e] # <<>> /\ Head(pipe_wire[e]).kind = "part"
  BY DEF PipeCrossed!receive_again, PipeCrossed!Arrived
<1>4. QED
  BY <1>2, <1>3, NothingIsCut

\* A pipe that is whacked, and a process that is killed, is gone.
LEMMA EndGone ==
  ASSUME PipeInv, UNCHANGED part, NEW e \in PipeEnds, PipeCrossed!whack(e) \/ PipeCrossed!killed(e)
  PROVE  PipeInv'
<1>1. step' = [step EXCEPT ![e] = "gone"] /\ UNCHANGED pipe_wire
  BY DEF PipeCrossed!whack, PipeCrossed!killed
<1>2. UNCHANGED <<known, attested, software, nonces, rehashed, pipe_sent, pipe_received>>
  BY DEF PipeCrossed!whack, PipeCrossed!killed, PipeCrossed!keyVars, PipeCrossed!deviceVars
<1>3. UNCHANGED <<pipe_poisoned, pipe_got, put>>
  BY DEF PipeCrossed!whack, PipeCrossed!killed
<1>4. QED
  BY <1>1, <1>2, <1>3, Stopped

\* Other software can be run on a device at any time.
LEMMA SoftwareChanged ==
  ASSUME PipeInv, UNCHANGED part, NEW e \in PipeEnds, PipeCrossed!change_software(e)
  PROVE  PipeInv'
<1>1. software' = [software EXCEPT ![e] = "other"]
  BY DEF PipeCrossed!change_software
<1>2. /\ UNCHANGED <<known, attested, step, nonces, rehashed, pipe_sent, pipe_received>>
      /\ UNCHANGED <<pipe_poisoned, pipe_got, put, pipe_wire>>
  BY DEF PipeCrossed!change_software, PipeCrossed!keyVars
<1>3. PipeTypes /\ EndInv(e)
  BY DEF PipeInv
<1>4. PipeTypes' /\ put[e] <= put'[e]
  BY <1>1, <1>2, <1>3 DEF PipeTypes
<1>5. \A f \in PipeEnds : software[f] = "other" => software'[f] = "other"
  BY <1>1, <1>3 DEF PipeTypes
<1>6. Moves(e)
  BY <1>2, <1>4, <1>5 DEF Moves
<1>7. EndInv(e)'
  BY <1>2, <1>3 DEF EndInv
<1>8. TakenBy(e)' = TakenBy(e) /\ GivenBy(e)' = GivenBy(e) /\ Live(e)' = Live(e) /\ Reading(e)' = Reading(e)
  BY <1>2 DEF TakenBy, GivenBy, Live, Reading
<1>9. QED
  BY <1>2, <1>6, <1>7, <1>8, Rested

\* A packet of an end that runs is the next of its messages.
LEMMA PacketSent ==
  ASSUME PipeInv, UNCHANGED part, NEW e \in PipeEnds, PipeCrossed!send_packet(e),
         part = "pipe" => rehashed[e] = Turn(e, put[e] + 1)
  PROVE  PipeInv'
<1> DEFINE p == Other(e)  n == put[e]  payload == <<e, n + 1>>
           m == [kind |-> "data", payload |-> payload, shared1 |-> PipeCrossed!Shared1(e),
                 shared2 |-> PipeCrossed!Shared2(e), chain |-> pipe_sent[e], software |-> software[e]]
<1>1. /\ step[e] = "running" /\ ~pipe_poisoned[e]
      /\ put' = [put EXCEPT ![e] = @ + 1]
      /\ pipe_wire' = [pipe_wire EXCEPT ![p] = Append(@, m)]
      /\ pipe_sent' = [pipe_sent EXCEPT ![e].over = Append(@, payload)]
      /\ rehashed' = [rehashed EXCEPT ![e] = @ + 1]
      /\ UNCHANGED <<known, attested, software, step, nonces, pipe_received, pipe_poisoned, pipe_got>>
  BY PeerIsOther DEF PipeCrossed!send_packet, PipeCrossed!Sends, PipeCrossed!Rehash, PipeCrossed!deviceVars
<1>2. /\ m.kind = "data" /\ m.payload = payload
      /\ m.shared1 = [of |-> nonces[e], rehashed |-> rehashed[e]]
      /\ m.shared2 = {nonces[e][i] : i \in DOMAIN nonces[e]}
      /\ m.chain = pipe_sent[e] /\ m.software = software[e]
  BY DEF PipeCrossed!Shared1, PipeCrossed!Shared2
<1>3. p \in PipeEnds /\ p # e /\ p = Other(e)
  BY Others
<1> HIDE DEF p, m
<1>4. PipeTypes /\ EndInv(e) /\ Reading(e) /\ n \in Nat /\ Len(pipe_got[e]) \in Nat
  BY <1>1 DEF PipeInv, PipeTypes, Reading, Live
<1>5. pipe_sent[e] = ChainOf(e, n) /\ nonces[e] = BothNonces
  BY <1>1, <1>4 DEF EndInv
<1>6. put'[e] = n + 1 /\ \A f \in PipeEnds \ {e} : put'[f] = put[f]
  BY <1>1, <1>4 DEF PipeTypes
<1>7. /\ pipe_sent' = [f \in PipeEnds |-> pipe_sent'[f]]
      /\ \A f \in PipeEnds \ {e} : pipe_sent'[f] = pipe_sent[f]
      /\ pipe_sent'[e] = ChainOf(e, n + 1)
  <2>1. pipe_sent = [f \in PipeEnds |-> pipe_sent[f]]
    BY <1>4 DEF PipeTypes
  <2>2. pipe_sent'[e] = [ChainOf(e, n) EXCEPT !.over = Append(@, payload)]
    BY <1>1, <1>5, <2>1
  <2>3. ChainOf(e, n).over = FirstPayloads(e, n)
    BY DEF ChainOf
  <2>4. pipe_sent'[e] = [root |-> RootOf(e), over |-> Append(FirstPayloads(e, n), payload)]
    BY <2>2 DEF ChainOf
  <2>5. Append(FirstPayloads(e, n), payload) = FirstPayloads(e, n + 1)
    BY <1>4, NextPayload
  <2>6. pipe_sent'[e] = ChainOf(e, n + 1)
    BY <2>4, <2>5 DEF ChainOf
  <2>7. QED
    BY <1>1, <2>1, <2>6
<1>8. /\ pipe_wire'[e] = pipe_wire[e] /\ pipe_wire'[p] = Append(pipe_wire[p], m)
      /\ pipe_wire' = [f \in PipeEnds |-> pipe_wire'[f]]
  BY <1>1, <1>3, <1>4 DEF PipeTypes
<1>9. rehashed'[e] = rehashed[e] + 1 /\ \A f \in PipeEnds \ {e} : rehashed'[f] = rehashed[f]
  BY <1>1, <1>4 DEF PipeTypes
<1>10. PipeTypes'
  <2>1. \A f \in PipeEnds : f = e \/ f = p
    BY <1>3, Others
  <2>2. \A f \in PipeEnds : IsSeq(pipe_wire'[f])
    BY <1>3, <1>4, <1>8, <2>1, WireTypes
  <2>3. put' \in [PipeEnds -> Nat] /\ rehashed' \in [PipeEnds -> Nat]
    BY <1>1, <1>4 DEF PipeTypes
  <2>4. QED
    BY <1>1, <1>4, <1>7, <1>8, <2>2, <2>3 DEF PipeTypes
<1>11. Moves(e)
  BY <1>1, <1>4, <1>6, <1>7, <1>9, <1>10 DEF Moves
<1>12. EndInv(e)'
  <2>1. /\ pipe_got[e] = FirstPayloads(Other(e), Len(pipe_got[e])) /\ rehashed[e] = n + Len(pipe_got[e])
        /\ pipe_received[e] = ChainOf(Other(e), Len(pipe_got[e])) /\ known[Other(e)]
        /\ attested[Other(e)] /\ nonces[Other(e)] = BothNonces
    BY <1>1, <1>4 DEF EndInv
  <2>2. rehashed'[e] = put'[e] + Len(pipe_got[e])
    BY <1>4, <1>6, <1>9, <2>1
  <2>3. QED
    BY <1>1, <1>5, <1>6, <1>7, <2>1, <2>2 DEF EndInv
<1>13. TakenBy(e)' = TakenBy(e) /\ GivenBy(e) = StartMessages(e) + n /\ GivenBy(e)' = StartMessages(e) + (n + 1)
  BY <1>1, <1>6 DEF TakenBy, GivenBy
<1>14. StartMessages(e) \in Nat /\ StartMessages(e) > 1
  BY DEF StartMessages
<1>15. GivenBy(e)' = GivenBy(e) + 1 /\ GivenBy(e) + 1 > StartMessages(e)
       /\ GivenBy(e) + 1 - StartMessages(e) = n + 1
  BY <1>4, <1>13, <1>14
<1>16. DataMessage(Sender(e)', e, n + 1, m)
  <2>1. Sender(e)'.put = n + 1 /\ (m.software # "reference" => Sender(e)'.software = "other")
    BY <1>1, <1>2, <1>4, <1>6 DEF Sender, PipeTypes
  <2>2. m.chain = ChainOf(e, (n + 1) - 1)
    BY <1>2, <1>4, <1>5
  <2>3. m.shared2 = {BothNonces[i] : i \in DOMAIN BothNonces}
    BY <1>2, <1>5
  <2>4. m.shared2 = PipeEnds
    BY <2>3, KeyOfBoth
  <2>5. n + 1 <= Sender(e)'.put
    BY <1>4, <2>1
  <2>6. Sender(e)'.turns => part = "pipe"
    BY DEF Sender
  <2>7. Sender(e)'.turns => m.shared1 = [of |-> BothNonces, rehashed |-> Turn(e, n + 1)]
    BY <1>2, <1>5, <2>6
  <2>8. QED
    BY <1>2, <2>1, <2>2, <2>4, <2>5, <2>7 DEF DataMessage
<1>17. IsMessage(Sender(e)', e, GivenBy(e) + 1, m)
  <2> DEFINE k == GivenBy(e) + 1  j == k - StartMessages(e)
  <2>1. GivenBy(e) \in Nat /\ n + 1 \in Nat
    BY <1>4, Counters
  <2>2. k > StartMessages(e) /\ j = n + 1
    BY <1>14, <1>15, <2>1
  <2> HIDE DEF j, n
  <2>3. DataMessage(Sender(e)', e, j, m)
    BY <1>16, <2>2
  <2> HIDE DEF k
  <2>4. DataMessage(Sender(e)', e, k - StartMessages(e), m)
    BY <2>3 DEF j
  <2>5. IsMessage(Sender(e)', e, k, m)
    BY <2>2, <2>4 DEF IsMessage
  <2>6. QED
    BY <2>5 DEF k
<1>18. QED
  BY <1>3, <1>4, <1>8, <1>11, <1>12, <1>13, <1>15, <1>17, Gave

\* An end that runs finds the packet that follows those it has got.
LEMMA NextPacket ==
  ASSUME PipeInv, NEW e \in PipeEnds, step[e] = "running", ~pipe_poisoned[e], pipe_wire[e] # <<>>
  PROVE  DataMessage(Sender(Other(e)), Other(e), Len(pipe_got[e]) + 1, Head(pipe_wire[e]))
<1> DEFINE p == Other(e)  n == Len(pipe_got[e])  h == Head(pipe_wire[e])
<1>1. PipeTypes /\ WireInv(e) /\ Reading(e) /\ n \in Nat
  BY DEF PipeInv, PipeTypes, Reading, Live
<1>2. TakenBy(e) = StartMessages(p) + n
  BY DEF TakenBy
<1>3. IsMessage(Sender(p), p, TakenBy(e) + 1, h)
  BY <1>1, NextMessage
<1> HIDE DEF n, h
<1>4. /\ StartMessages(p) \in Nat /\ TakenBy(e) + 1 # 1 /\ TakenBy(e) + 1 # 2
      /\ p = "client" => TakenBy(e) + 1 # 3
      /\ TakenBy(e) + 1 - StartMessages(p) = n + 1
  BY <1>1, <1>2 DEF StartMessages
<1> DEFINE k == TakenBy(e) + 1
<1>5. DataMessage(Sender(p), p, k - StartMessages(p), h)
  <2>1. k # 1 /\ k # 2 /\ ~(k = 3 /\ p = "client")
    BY <1>4
  <2>2. IsMessage(Sender(p), p, k, h)
    BY <1>3
  <2> HIDE DEF k, p
  <2>3. QED
    BY <2>1, <2>2 DEF IsMessage
<1>6. DataMessage(Sender(p), p, n + 1, h)
  <2>1. n + 1 \in Nat /\ TakenBy(e) \in Nat
    BY <1>1, Counters DEF n
  <2>2. QED
    BY <1>4, <1>5, <2>1
<1>7. QED
  BY <1>6 DEF h, n

\* It takes it, or is poisoned.
LEMMA PacketReceived ==
  ASSUME PipeInv, UNCHANGED part, NEW e \in PipeEnds, PipeCrossed!receive_packet(e)
  PROVE  PipeInv'
<1> DEFINE p == Other(e)  n == Len(pipe_got[e])  h == Head(pipe_wire[e])
<1>1. /\ step[e] = "running" /\ ~pipe_poisoned[e] /\ pipe_wire[e] # <<>>
      /\ pipe_wire' = [pipe_wire EXCEPT ![e] = Tail(@)]
      /\ UNCHANGED <<known, attested, software, step, nonces, pipe_sent, put>>
  BY DEF PipeCrossed!receive_packet, PipeCrossed!Takes, PipeCrossed!deviceVars
<1>2. \/ /\ pipe_received' = [pipe_received EXCEPT ![e].over = Append(@, h.payload)]
         /\ pipe_got' = [pipe_got EXCEPT ![e] = Append(@, h.payload)]
         /\ rehashed' = [rehashed EXCEPT ![e] = @ + 1]
         /\ UNCHANGED pipe_poisoned
      \/ /\ pipe_poisoned' = [pipe_poisoned EXCEPT ![e] = TRUE]
         /\ UNCHANGED <<pipe_received, pipe_got, rehashed>>
  BY DEF PipeCrossed!receive_packet, PipeCrossed!Rehash
<1>3. p \in PipeEnds /\ p # e /\ p = Other(e)
  BY Others
<1>4. PipeTypes /\ EndInv(e) /\ Reading(e) /\ n \in Nat
  BY <1>1 DEF PipeInv, PipeTypes, Reading, Live
<1>5. h.payload = <<p, n + 1>>
  BY <1>1, NextPacket DEF DataMessage
<1>6. pipe_wire'[e] = Tail(pipe_wire[e]) /\ pipe_wire'[p] = pipe_wire[p]
      /\ pipe_wire' = [f \in PipeEnds |-> pipe_wire'[f]]
  BY <1>1, <1>3, <1>4 DEF PipeTypes
<1>7. \A f \in PipeEnds : IsSeq(pipe_wire'[f])
  BY SMTT(30), <1>1, <1>3, <1>4, <1>6, Others, WireTypes
<1>8. /\ pipe_got[e] = FirstPayloads(p, n) /\ rehashed[e] = put[e] + n
      /\ pipe_sent[e] = ChainOf(e, put[e]) /\ pipe_received[e] = ChainOf(p, n)
      /\ nonces[e] = BothNonces /\ known[p] /\ attested[p] /\ nonces[p] = BothNonces
  BY <1>1, <1>4 DEF EndInv
<1>9. put[e] \in Nat /\ put[e] <= put'[e] /\ GivenBy(e)' = GivenBy(e)
  BY <1>1, <1>4 DEF PipeTypes, GivenBy
<1>10. CASE /\ pipe_poisoned' = [pipe_poisoned EXCEPT ![e] = TRUE]
            /\ UNCHANGED <<pipe_received, pipe_got, rehashed>>
  <2>1. pipe_poisoned'[e] /\ \A f \in PipeEnds \ {e} : pipe_poisoned'[f] = pipe_poisoned[f]
    BY <1>4, <1>10 DEF PipeTypes
  <2>2. PipeTypes'
    BY <1>1, <1>4, <1>6, <1>7, <1>10 DEF PipeTypes
  <2>3. Moves(e)
    BY <1>1, <1>9, <1>10, <2>1, <2>2 DEF Moves
  <2>4. EndInv(e)'
    BY <1>1, <1>4, <1>10 DEF EndInv
  <2>5. ~Reading(e)'
    BY <2>1 DEF Reading
  <2>6. QED
    BY <1>1, <1>3, <1>4, <1>6, <1>9, <2>3, <2>4, <2>5, Took
<1>11. CASE /\ pipe_received' = [pipe_received EXCEPT ![e].over = Append(@, h.payload)]
            /\ pipe_got' = [pipe_got EXCEPT ![e] = Append(@, h.payload)]
            /\ rehashed' = [rehashed EXCEPT ![e] = @ + 1]
            /\ UNCHANGED pipe_poisoned
  <2> HIDE DEF p, n, h
  <2>1. Append(FirstPayloads(p, n), h.payload) = FirstPayloads(p, n + 1) /\ Len(FirstPayloads(p, n + 1)) = n + 1
    BY <1>4, <1>5, NextPayload
  <2>2. /\ pipe_got = [f \in PipeEnds |-> pipe_got[f]]
        /\ pipe_received = [f \in PipeEnds |-> pipe_received[f]]
    BY <1>4 DEF PipeTypes
  <2>3. /\ pipe_got'[e] = FirstPayloads(p, n + 1) /\ pipe_got' = [f \in PipeEnds |-> pipe_got'[f]]
        /\ \A f \in PipeEnds \ {e} : pipe_got'[f] = pipe_got[f]
    BY <1>8, <1>11, <2>1, <2>2
  <2>4. /\ pipe_received' = [f \in PipeEnds |-> pipe_received'[f]]
        /\ \A f \in PipeEnds \ {e} : pipe_received'[f] = pipe_received[f]
        /\ pipe_received'[e] = [ChainOf(p, n) EXCEPT !.over = Append(@, h.payload)]
    BY <1>8, <1>11, <2>2
  <2>5. pipe_received'[e] = ChainOf(p, n + 1)
    <3>1. pipe_received'[e] = [root |-> RootOf(p), over |-> Append(FirstPayloads(p, n), h.payload)]
      BY <2>4 DEF ChainOf
    <3>2. QED
      BY <2>1, <3>1 DEF ChainOf
  <2>6. rehashed'[e] = rehashed[e] + 1 /\ \A f \in PipeEnds \ {e} : rehashed'[f] = rehashed[f]
    BY <1>4, <1>11 DEF PipeTypes
  <2>7. Len(pipe_got'[e]) = n + 1
    BY SMTT(30), <2>1, <2>3
  <2>8. PipeTypes'
    <3>1. \A f \in PipeEnds : Len(pipe_got'[f]) \in Nat
      BY <1>4, <2>3, <2>7 DEF PipeTypes
    <3>2. rehashed' \in [PipeEnds -> Nat]
      BY <1>4, <1>11 DEF PipeTypes
    <3>3. QED
      BY <1>1, <1>4, <1>6, <1>7, <1>11, <2>3, <2>4, <3>1, <3>2 DEF PipeTypes
  <2>9. Moves(e)
    BY <1>1, <1>9, <1>11, <2>3, <2>4, <2>6, <2>8 DEF Moves
  <2>10. rehashed'[e] = put'[e] + Len(pipe_got'[e])
    BY <1>1, <1>4, <1>8, <1>9, <2>6, <2>7
  <2>11. EndInv(e)'
    BY <1>1, <1>3, <1>8, <2>3, <2>5, <2>7, <2>10 DEF EndInv
  <2>12. TakenBy(e)' = TakenBy(e) + 1
    <3>1. TakenBy(e) = StartMessages(p) + n /\ TakenBy(e)' = StartMessages(p) + (n + 1)
      BY <1>1, <2>7 DEF TakenBy, p, n
    <3>2. StartMessages(p) \in Nat
      BY DEF StartMessages
    <3>3. QED
      BY <1>4, <3>1, <3>2
  <2>13. QED
    BY <1>1, <1>3, <1>4, <1>6, <1>9, <2>9, <2>11, <2>12, Took
<1>12. QED
  BY <1>2, <1>10, <1>11

\* What the two ends do, where those of the part "pipe" send in turn.
PipeMove ==
  \/ PipeCrossed!start_mode
  \/ \E e \in PipeEnds :
       \/ PipeCrossed!send_packet(e) /\ (part = "pipe" => rehashed[e] = Turn(e, put[e] + 1))
       \/ PipeCrossed!receive_packet(e) \/ PipeCrossed!whack(e) \/ PipeCrossed!killed(e)
       \/ PipeCrossed!change_software(e)

\* So every step of the two ends keeps it.
LEMMA PipeStep ==
  ASSUME PipeInv, UNCHANGED part, PipeMove \/ UNCHANGED pipeVars
  PROVE  PipeInv'
<1>1. CASE PipeCrossed!start_mode
  <2>1. CASE \E e \in PipeEnds :
               PipeCrossed!start_fails(e) \/ PipeCrossed!end_of_file(e) \/ PipeCrossed!receive_again(e)
    BY <2>1, StartFailed, FileEnded, NoneReadsAgain
  <2>2. QED
    BY <1>1, <2>1, PeerIsOther, ClientSent, HostKeyed, ClientQuoted, HostQuoted, ClientStarted, HostStarted
       DEF PipeCrossed!start_mode
<1>2. CASE \E e \in PipeEnds :
             \/ PipeCrossed!send_packet(e) /\ (part = "pipe" => rehashed[e] = Turn(e, put[e] + 1))
             \/ PipeCrossed!receive_packet(e) \/ PipeCrossed!whack(e) \/ PipeCrossed!killed(e)
             \/ PipeCrossed!change_software(e)
  BY <1>2, PacketSent, PacketReceived, EndGone, SoftwareChanged
<1>3. CASE UNCHANGED pipeVars
  <2>1. PipeTypes' = PipeTypes
    BY <1>3 DEF pipeVars, PipeTypes
  <2>2. \A e : EndInv(e)' = EndInv(e)
    BY <1>3 DEF pipeVars, EndInv
  <2>3. \A e : WireInv(e)' = WireInv(e)
    BY <1>3 DEF pipeVars, WireInv, Reading, Live, TakenBy, GivenBy, Sender
  <2>4. QED
    BY <2>1, <2>2, <2>3 DEF PipeInv
<1>4. QED
  BY <1>1, <1>2, <1>3 DEF PipeMove

\* The two begin with nothing.
LEMMA PipeBegins ==
  ASSUME Pipe!Init
  PROVE  PipeInv
<1>1. /\ known \in [PipeEnds -> BOOLEAN] /\ attested \in [PipeEnds -> BOOLEAN]
      /\ software = [e \in PipeEnds |-> "reference"] /\ step = [e \in PipeEnds |-> "new"]
      /\ nonces = [e \in PipeEnds |-> <<>>] /\ rehashed = [e \in PipeEnds |-> 0]
      /\ pipe_sent = [e \in PipeEnds |-> NoChain] /\ pipe_received = [e \in PipeEnds |-> NoChain]
      /\ pipe_poisoned = [e \in PipeEnds |-> FALSE] /\ pipe_got = [e \in PipeEnds |-> <<>>]
      /\ put = [e \in PipeEnds |-> 0] /\ pipe_wire = [e \in PipeEnds |-> <<>>]
  BY DEF Pipe!Init, Pipe!Ends, PipeEnds, NoChain
<1>2. IsSeq(<<>>) /\ Len(<<>>) = 0
  BY EmptySeq DEF IsSeq
<1>3. PipeTypes
  BY <1>1, <1>2 DEF PipeTypes
<1>4. ASSUME NEW e \in PipeEnds PROVE EndInv(e)
  <2>1. /\ step[e] = "new" /\ put[e] = 0 /\ pipe_got[e] = <<>> /\ Len(pipe_got[e]) = 0 /\ rehashed[e] = 0
        /\ pipe_sent[e] = NoChain /\ pipe_received[e] = NoChain /\ ~pipe_poisoned[e]
    BY <1>1, <1>2
  <2>2. QED
    BY <2>1, NoPayloads DEF EndInv
<1>5. ASSUME NEW e \in PipeEnds PROVE WireInv(e)
  <2>1. /\ pipe_wire[e] = <<>> /\ Len(pipe_wire[e]) = 0 /\ TakenBy(e) = 0 /\ GivenBy(Other(e)) = 0
    BY <1>1, <1>2, Others DEF TakenBy, GivenBy
  <2>2. QED
    BY <2>1 DEF WireInv, AreMessages
<1>6. QED
  BY <1>3, <1>4, <1>5 DEF PipeInv

-----------------------------------------------------------------------------
(* The pipe: ends that take turns.                                         *)

\* They do nothing that ends that do not could not do.
LEMMA TurnsAreSteps ==
  /\ Pipe!Ends = PipeEnds
  /\ Pipe!start_mode => PipeCrossed!start_mode
  /\ \A e : Pipe!send_packet(e) =>
       /\ PipeCrossed!send_packet(e)
       /\ IF e = "client" THEN put[e] = Len(pipe_got[e]) ELSE put[e] < Len(pipe_got[e])
  /\ \A e : Pipe!receive_packet(e) => PipeCrossed!receive_packet(e)
  /\ \A e : Pipe!whack(e) => PipeCrossed!whack(e)
  /\ \A e : Pipe!killed(e) => PipeCrossed!killed(e)
  /\ \A e : Pipe!change_software(e) => PipeCrossed!change_software(e)
<1>1. Pipe!Ends = PipeEnds /\ PipeCrossed!Ends = PipeEnds
  BY DEF Pipe!Ends, PipeCrossed!Ends, PipeEnds
<1>2. \A e : Pipe!Peer(e) = PipeCrossed!Peer(e)
  BY DEF Pipe!Peer, PipeCrossed!Peer
<1>3. \A e, k : Pipe!Arrived(e, k) = PipeCrossed!Arrived(e, k)
  BY DEF Pipe!Arrived, PipeCrossed!Arrived
<1>4. \A e : Pipe!Shared2(e) = PipeCrossed!Shared2(e) /\ Pipe!Shared1(e) = PipeCrossed!Shared1(e)
  BY DEF Pipe!Shared2, PipeCrossed!Shared2, Pipe!Shared1, PipeCrossed!Shared1
<1>5. \A e, m : PipeCrossed!PacketValid(e, m) = Pipe!PacketValid(e, m)
  BY <1>4 DEF Pipe!PacketValid, Pipe!ChecksumValid, Pipe!Decrypts,
     PipeCrossed!PacketValid, PipeCrossed!ChecksumValid, PipeCrossed!Decrypts
<1>6. /\ Pipe!client_packet1 => PipeCrossed!client_packet1
      /\ Pipe!host_packet1 => PipeCrossed!host_packet1
      /\ Pipe!client_quote => PipeCrossed!client_quote
  BY <1>2, <1>3, <1>4
     DEF Pipe!client_packet1, Pipe!host_packet1, Pipe!client_quote, Pipe!Step, Pipe!Sends, Pipe!Answers,
         Pipe!Packet1, Pipe!Packet1Valid, Pipe!Quote, Pipe!SharedKeys, Pipe!deviceVars, Pipe!keyVars,
         PipeCrossed!client_packet1, PipeCrossed!host_packet1, PipeCrossed!client_quote, PipeCrossed!Step,
         PipeCrossed!Sends, PipeCrossed!Answers, PipeCrossed!Packet1, PipeCrossed!Packet1Valid,
         PipeCrossed!Quote, PipeCrossed!SharedKeys, PipeCrossed!deviceVars, PipeCrossed!keyVars
<1>7. /\ Pipe!host_quote => PipeCrossed!host_quote
      /\ Pipe!client_start => PipeCrossed!client_start
      /\ Pipe!host_start => PipeCrossed!host_start
  BY <1>2, <1>3, <1>4
     DEF Pipe!host_quote, Pipe!client_start, Pipe!host_start, Pipe!Step, Pipe!Takes, Pipe!Answers,
         Pipe!Quote, Pipe!QuoteValid, Pipe!Chains, Pipe!Root, Pipe!deviceVars, Pipe!keyVars,
         PipeCrossed!host_quote, PipeCrossed!client_start, PipeCrossed!host_start, PipeCrossed!Step,
         PipeCrossed!Takes, PipeCrossed!Answers, PipeCrossed!Quote, PipeCrossed!QuoteValid,
         PipeCrossed!Chains, PipeCrossed!Root, PipeCrossed!deviceVars, PipeCrossed!keyVars
<1>8. \A e : /\ Pipe!start_fails(e) => PipeCrossed!start_fails(e)
             /\ Pipe!end_of_file(e) => PipeCrossed!end_of_file(e)
             /\ Pipe!receive_again(e) => PipeCrossed!receive_again(e)
  BY <1>2, <1>3, <1>4
     DEF Pipe!start_fails, Pipe!end_of_file, Pipe!receive_again, Pipe!Reads, Pipe!Starting, Pipe!Refused,
         Pipe!Packet1Valid, Pipe!QuoteValid, Pipe!Takes, Pipe!deviceVars, Pipe!keyVars,
         PipeCrossed!start_fails, PipeCrossed!end_of_file, PipeCrossed!receive_again, PipeCrossed!Reads,
         PipeCrossed!Starting, PipeCrossed!Refused, PipeCrossed!Packet1Valid, PipeCrossed!QuoteValid,
         PipeCrossed!Takes, PipeCrossed!deviceVars, PipeCrossed!keyVars
<1>9. Pipe!start_mode => PipeCrossed!start_mode
  BY <1>1, <1>6, <1>7, <1>8 DEF Pipe!start_mode, PipeCrossed!start_mode
<1>10. \A e : Pipe!send_packet(e) =>
         /\ PipeCrossed!send_packet(e)
         /\ IF e = "client" THEN put[e] = Len(pipe_got[e]) ELSE put[e] < Len(pipe_got[e])
  BY <1>2, <1>4
     DEF Pipe!send_packet, Pipe!MaySend, Pipe!Sends, Pipe!Rehash, Pipe!deviceVars,
         PipeCrossed!send_packet, PipeCrossed!MaySend, PipeCrossed!Sends, PipeCrossed!Rehash,
         PipeCrossed!deviceVars
<1>11. \A e : Pipe!receive_packet(e) => PipeCrossed!receive_packet(e)
  BY <1>3, <1>5 DEF Pipe!receive_packet, Pipe!Takes, Pipe!Rehash, Pipe!deviceVars,
     PipeCrossed!receive_packet, PipeCrossed!Takes, PipeCrossed!Rehash, PipeCrossed!deviceVars
<1>12. \A e : /\ Pipe!whack(e) => PipeCrossed!whack(e)
              /\ Pipe!killed(e) => PipeCrossed!killed(e)
              /\ Pipe!change_software(e) => PipeCrossed!change_software(e)
  BY DEF Pipe!whack, Pipe!killed, Pipe!change_software, Pipe!deviceVars, Pipe!keyVars,
         PipeCrossed!whack, PipeCrossed!killed, PipeCrossed!change_software, PipeCrossed!deviceVars,
         PipeCrossed!keyVars
<1>13. QED
  BY <1>1, <1>9, <1>10, <1>11, <1>12

\* An end that takes turns has sent what it has received, or one packet less or more.
PipeCounts ==
  part = "pipe" =>
    /\ put["host"] <= Len(pipe_got["host"]) /\ Len(pipe_got["host"]) <= put["client"]
    /\ put["client"] <= Len(pipe_got["client"]) + 1 /\ Len(pipe_got["client"]) <= put["host"]

\* What an end that fails may give as its reason.
Reason == \E f \in PipeEnds : ~known[f] \/ ~attested[f] \/ software[f] = "other"

PipeFails ==
  part = "pipe" =>
    \A e \in PipeEnds : pipe_poisoned[e] \/ step[e] = "failed" => Reason \/ step[Other(e)] = "gone"

\* So it has rehashed its key as often as the turn says.
LEMMA TurnIsTaken ==
  ASSUME PipeInv, PipeCounts, part = "pipe", NEW e \in PipeEnds, Pipe!send_packet(e)
  PROVE  rehashed[e] = Turn(e, put[e] + 1)
<1>1. /\ rehashed[e] = put[e] + Len(pipe_got[e])
      /\ \A f \in PipeEnds : put[f] \in Nat /\ Len(pipe_got[f]) \in Nat
  BY DEF PipeInv, PipeTypes, EndInv
<1>2. IF e = "client" THEN put[e] = Len(pipe_got[e]) ELSE put[e] < Len(pipe_got[e])
  BY TurnsAreSteps
<1>3. CASE e = "client"
  <2>1. rehashed[e] = put[e] + put[e]
    BY <1>1, <1>2, <1>3
  <2>2. Turn(e, put[e] + 1) = 2 * ((put[e] + 1) - 1)
    BY <1>3 DEF Turn
  <2>3. QED
    BY <1>1, <2>1, <2>2
<1>4. CASE e = "host"
  <2>1. put[e] < Len(pipe_got[e]) /\ Len(pipe_got[e]) <= put[e] + 1
    BY SMTT(30), <1>1, <1>2, <1>4, Others DEF PipeCounts
  <2>2. Len(pipe_got[e]) = put[e] + 1
    BY <1>1, <2>1
  <2>3. Turn(e, put[e] + 1) = 2 * (put[e] + 1) - 1
    BY <1>4 DEF Turn
  <2>4. QED
    BY <1>1, <2>2, <2>3
<1>5. QED
  BY <1>3, <1>4 DEF PipeEnds

\* The steps of either part are those above.
LEMMA PartsMove ==
  ASSUME PipeInv, PipeCounts,
         \/ part = "pipe" /\ Pipe!Next
         \/ part # "pipe" /\ PipeCrossed!Next
  PROVE  PipeMove
<1>1. CASE part = "pipe" /\ Pipe!Next
  <2>1. CASE \E e \in PipeEnds : Pipe!send_packet(e)
    BY <1>1, <2>1, TurnsAreSteps, TurnIsTaken DEF PipeMove
  <2>2. CASE ~\E e \in PipeEnds : Pipe!send_packet(e)
    BY <1>1, <2>2, TurnsAreSteps DEF Pipe!Next, PipeMove
  <2>3. QED
    BY <2>1, <2>2
<1>2. CASE part # "pipe" /\ PipeCrossed!Next
  BY <1>2, PeerIsOther DEF PipeCrossed!Next, PipeMove
<1>3. QED
  BY <1>1, <1>2

\* All other steps send and receive nothing.
LEMMA NoPacketMoves ==
  ASSUME \/ PipeCrossed!start_mode
         \/ \E e \in PipeEnds : PipeCrossed!whack(e) \/ PipeCrossed!killed(e) \/ PipeCrossed!change_software(e)
  PROVE  UNCHANGED <<put, pipe_got>>
<1>1. CASE PipeCrossed!start_mode
  BY <1>1 DEF PipeCrossed!start_mode, PipeCrossed!client_packet1, PipeCrossed!host_packet1,
              PipeCrossed!client_quote,
              PipeCrossed!host_quote, PipeCrossed!client_start, PipeCrossed!host_start, PipeCrossed!start_fails,
              PipeCrossed!end_of_file, PipeCrossed!receive_again
<1>2. CASE \E e \in PipeEnds : PipeCrossed!whack(e) \/ PipeCrossed!killed(e) \/ PipeCrossed!change_software(e)
  BY <1>2 DEF PipeCrossed!whack, PipeCrossed!killed, PipeCrossed!change_software
<1>3. QED
  BY <1>1, <1>2

\* Neither end gets ahead of the other by more than its turn.
LEMMA CountsKept ==
  ASSUME PipeInv, PipeCounts, UNCHANGED part,
         \/ part = "pipe" /\ Pipe!Next
         \/ part # "pipe"
         \/ UNCHANGED pipeVars
  PROVE  PipeCounts'
<1> SUFFICES ASSUME part = "pipe", Pipe!Next \/ UNCHANGED pipeVars PROVE PipeCounts'
  BY DEF PipeCounts
<1> DEFINE cp == put["client"]  hp == put["host"]  cg == Len(pipe_got["client"])  hg == Len(pipe_got["host"])
<1>0. /\ cp \in Nat /\ hp \in Nat /\ cg \in Nat /\ hg \in Nat
      /\ hp <= hg /\ hg <= cp /\ cp <= cg + 1 /\ cg <= hp
  BY Others DEF PipeInv, PipeTypes, PipeCounts
<1>1. CASE UNCHANGED <<put, pipe_got>>
  BY <1>0, <1>1 DEF PipeCounts
<1>2. ASSUME NEW e \in PipeEnds, Pipe!send_packet(e) PROVE PipeCounts'
  <2>1. /\ put' = [put EXCEPT ![e] = @ + 1] /\ UNCHANGED pipe_got
        /\ IF e = "client" THEN put[e] = Len(pipe_got[e]) ELSE put[e] < Len(pipe_got[e])
    BY <1>2, TurnsAreSteps DEF PipeCrossed!send_packet
  <2>2. put \in [PipeEnds -> Nat]
    BY DEF PipeInv, PipeTypes
  <2>3. CASE e = "client"
    <3>1. put'["client"] = cp + 1 /\ put'["host"] = hp /\ cp = cg
      BY <2>1, <2>2, <2>3, Others
    <3>2. QED
      BY <1>0, <2>1, <3>1 DEF PipeCounts
  <2>4. CASE e = "host"
    <3>1. put'["host"] = hp + 1 /\ put'["client"] = cp /\ hp < hg
      BY <2>1, <2>2, <2>4, Others
    <3>2. QED
      BY <1>0, <2>1, <3>1 DEF PipeCounts
  <2>5. QED
    BY <2>3, <2>4 DEF PipeEnds
<1>3. ASSUME NEW e \in PipeEnds, Pipe!receive_packet(e) PROVE PipeCounts'
  <2> DEFINE n == Len(pipe_got[e])  h == Head(pipe_wire[e])
  <2>1. /\ step[e] = "running" /\ ~pipe_poisoned[e] /\ pipe_wire[e] # <<>> /\ UNCHANGED put
        /\ pipe_got' = [pipe_got EXCEPT ![e] = Append(@, h.payload)] \/ UNCHANGED pipe_got
    BY <1>3, TurnsAreSteps DEF PipeCrossed!receive_packet
  <2>2. DataMessage(Sender(Other(e)), Other(e), n + 1, h)
    BY <2>1, NextPacket
  <2>3. h.payload = <<Other(e), n + 1>> /\ n + 1 <= put[Other(e)]
    BY <2>2 DEF DataMessage, Sender
  <2>4. n \in Nat /\ pipe_got[e] = FirstPayloads(Other(e), n) /\ pipe_got = [f \in PipeEnds |-> pipe_got[f]]
    BY DEF PipeInv, PipeTypes, EndInv
  <2>5. CASE pipe_got' = [pipe_got EXCEPT ![e] = Append(@, h.payload)]
    <3>1. Len(pipe_got'[e]) = n + 1 /\ \A f \in PipeEnds \ {e} : pipe_got'[f] = pipe_got[f]
      <4>1. pipe_got'[e] = Append(FirstPayloads(Other(e), n), <<Other(e), n + 1>>)
        BY <2>3, <2>4, <2>5
      <4>2. pipe_got'[e] = FirstPayloads(Other(e), n + 1) /\ Len(FirstPayloads(Other(e), n + 1)) = n + 1
        BY <2>4, <4>1, NextPayload
      <4>3. QED
        BY <2>4, <2>5, <4>2
    <3>2. CASE e = "client"
      <4>1. Len(pipe_got'["client"]) = cg + 1 /\ pipe_got'["host"] = pipe_got["host"] /\ cg + 1 <= hp
        BY <2>3, <3>1, <3>2, Others
      <4>2. QED
        BY <1>0, <2>1, <4>1 DEF PipeCounts
    <3>3. CASE e = "host"
      <4>1. Len(pipe_got'["host"]) = hg + 1 /\ pipe_got'["client"] = pipe_got["client"] /\ hg + 1 <= cp
        BY <2>3, <3>1, <3>3, Others
      <4>2. QED
        BY <1>0, <2>1, <4>1 DEF PipeCounts
    <3>4. QED
      BY <3>2, <3>3 DEF PipeEnds
  <2>6. QED
    BY <1>1, <2>1, <2>5
<1>4. QED
  <2>1. \/ Pipe!start_mode
        \/ \E e \in PipeEnds :
             \/ Pipe!send_packet(e) \/ Pipe!receive_packet(e) \/ Pipe!whack(e) \/ Pipe!killed(e)
                               \/ Pipe!change_software(e)
        \/ UNCHANGED pipeVars
    BY TurnsAreSteps DEF Pipe!Next
  <2>2. UNCHANGED pipeVars => UNCHANGED <<put, pipe_got>>
    BY DEF pipeVars
  <2>3. CASE Pipe!start_mode \/ \E e \in PipeEnds : Pipe!whack(e) \/ Pipe!killed(e) \/ Pipe!change_software(e)
    BY <1>1, <2>3, TurnsAreSteps, NoPacketMoves
  <2>4. QED
    BY <1>1, <1>2, <1>3, <2>1, <2>2, <2>3

\* A packet that an end which takes turns does not accept is from a device that has changed.
LEMMA PacketsAreValid ==
  ASSUME PipeInv, PipeCounts, part = "pipe", NEW e \in PipeEnds, step[e] = "running", ~pipe_poisoned[e],
         pipe_wire[e] # <<>>, ~PipeCrossed!PacketValid(e, Head(pipe_wire[e]))
  PROVE  Reason
<1> DEFINE p == Other(e)  n == Len(pipe_got[e])  m == Head(pipe_wire[e])
<1>1. DataMessage(Sender(p), p, n + 1, m)
  BY NextPacket
<1>2. /\ n \in Nat /\ put[e] \in Nat /\ nonces[e] = BothNonces /\ rehashed[e] = put[e] + n
      /\ pipe_received[e] = ChainOf(p, n) /\ p \in PipeEnds
  BY Others DEF PipeInv, PipeTypes, EndInv
<1>3. n + 1 <= put[p] /\ m.kind = "data" /\ m.shared2 = PipeEnds /\ m.chain = ChainOf(p, (n + 1) - 1)
      /\ (m.software # "reference" => software[p] = "other")
      /\ m.shared1 = [of |-> BothNonces, rehashed |-> Turn(p, n + 1)]
  BY <1>1 DEF DataMessage, Sender
<1> HIDE DEF m, n
<1>4. rehashed[e] = Turn(p, n + 1)
  <2>1. put["client"] \in Nat /\ put["host"] \in Nat
    BY DEF PipeInv, PipeTypes, PipeEnds
  <2>2. CASE e = "client"
    <3>1. put[e] = n + 1
      BY <1>2, <1>3, <2>1, <2>2, Others DEF PipeCounts, PipeInv, PipeTypes, n
    <3>2. Turn(p, n + 1) = 2 * (n + 1) - 1
      BY <2>2 DEF Turn, Other
    <3>3. QED
      BY <1>2, <3>1, <3>2
  <2>3. CASE e = "host"
    <3>1. put[e] = n
      BY <1>2, <1>3, <2>1, <2>3, Others DEF PipeCounts, PipeInv, PipeTypes, n
    <3>2. Turn(p, n + 1) = 2 * ((n + 1) - 1)
      BY <2>3 DEF Turn, Other
    <3>3. QED
      BY <1>2, <3>1, <3>2
  <2>4. QED
    BY <2>2, <2>3 DEF PipeEnds
<1>5. m.shared1 = PipeCrossed!Shared1(e)
  BY <1>2, <1>3, <1>4 DEF PipeCrossed!Shared1
<1>6. m.shared2 = PipeCrossed!Shared2(e)
  <2>1. PipeCrossed!Shared2(e) = {BothNonces[i] : i \in DOMAIN BothNonces}
    BY <1>2 DEF PipeCrossed!Shared2
  <2>2. QED
    BY <1>3, <2>1, KeyOfBoth
<1>7. m.chain = pipe_received[e]
  BY <1>2, <1>3
<1>8. m.software # "reference"
  BY <1>3, <1>5, <1>6, <1>7 DEF PipeCrossed!PacketValid, PipeCrossed!ChecksumValid, PipeCrossed!Decrypts, m
<1>9. QED
  BY <1>2, <1>3, <1>8 DEF Reason

\* Nor is a message of the start refused without a reason.
LEMMA RefusalsHaveReason ==
  ASSUME PipeInv, NEW e \in PipeEnds, PipeCrossed!start_fails(e)
  PROVE  Reason
<1> DEFINE p == Other(e)  m == Head(pipe_wire[e])
<1>1. /\ step[e] \in {"new", "sent", "keyed", "quoted"} /\ ~(e = "client" /\ step[e] = "new")
      /\ pipe_wire[e] # <<>>
      /\ \/ m.kind = "packet1" /\ ~(known[m.from] /\ m.software = "reference")
         \/ m.kind = "quote" /\ ~(m.key = PipeCrossed!Shared2(e) /\ m.attests)
         \/ m.kind = "start" /\ m.key # PipeCrossed!Shared2(e)
  BY DEF PipeCrossed!start_fails, PipeCrossed!Reads, PipeCrossed!Starting, PipeCrossed!Refused,
         PipeCrossed!Arrived,
         PipeCrossed!Packet1Valid, PipeCrossed!QuoteValid
<1>2. p \in PipeEnds /\ PipeTypes /\ EndInv(e) /\ WireInv(e) /\ Reading(e)
  BY <1>1, Others, StartingReads DEF PipeInv
<1>3. IsMessage(Sender(p), p, TakenBy(e) + 1, m)
  BY <1>1, <1>2, NextMessage
<1> HIDE DEF m
<1>4. CASE step[e] \in {"new", "sent"}
  <2>1. TakenBy(e) = 0
    BY <1>4 DEF TakenBy
  <2>2. FirstMessage(Sender(p), p, m)
    BY <1>3, <2>1 DEF IsMessage, StartMessages
  <2>3. /\ m.from = p /\ (m.software # "reference" => software[p] = "other")
        /\ ~(known[p] /\ m.software = "reference")
    BY <1>1, <2>2 DEF FirstMessage, Sender
  <2>4. QED
    BY <1>2, <2>3 DEF Reason
<1>5. CASE step[e] \in {"keyed", "quoted"}
  <2>1. nonces[e] = BothNonces /\ (step[e] = "keyed" => e = "host")
    BY <1>2, <1>5 DEF EndInv
  <2>2. PipeCrossed!Shared2(e) = PipeEnds
    <3>1. PipeCrossed!Shared2(e) = {BothNonces[i] : i \in DOMAIN BothNonces}
      BY <2>1 DEF PipeCrossed!Shared2
    <3>2. QED
      BY <3>1, KeyOfBoth
  <2>3. TakenBy(e) = IF step[e] = "quoted" /\ e = "host" THEN 2 ELSE 1
    BY <1>5, <2>1 DEF TakenBy, PipeEnds
  <2>4. QuoteMessage(Sender(p), m) \/ StartMessage(m)
    BY <1>3, <2>1, <2>3 DEF IsMessage, StartMessages, Other
  <2>5. m.kind = "quote" /\ ~m.attests /\ QuoteMessage(Sender(p), m)
    BY <1>1, <2>2, <2>4 DEF QuoteMessage, StartMessage
  <2>6. ~attested[p] \/ software[p] = "other"
    BY <2>5 DEF QuoteMessage, Sender
  <2>7. QED
    BY <1>2, <2>6 DEF Reason
<1>6. QED
  BY <1>1, <1>4, <1>5

\* A step of one end, which may end or fail, for a reason if it takes turns.
EndStep(e) ==
  /\ UNCHANGED <<known, attested>>
  /\ software' = software \/ software' = [software EXCEPT ![e] = "other"]
  /\ \/ step' = step
     \/ \E s : /\ step[e] # "gone" /\ step' = [step EXCEPT ![e] = s]
               /\ s = "failed" => Reason \/ step[Other(e)] = "gone"
  /\ \/ pipe_poisoned' = pipe_poisoned
     \/ pipe_poisoned' = [pipe_poisoned EXCEPT ![e] = TRUE] /\ (Reason \/ step[Other(e)] = "gone")

\* Every step is one.
LEMMA EndsStep ==
  ASSUME PipeInv, PipeCounts, part = "pipe", PipeMove
  PROVE  \E e \in PipeEnds : EndStep(e)
<1>1. CASE \/ PipeCrossed!client_packet1 \/ PipeCrossed!client_quote \/ PipeCrossed!client_start
  <2>1. /\ UNCHANGED <<known, attested, software, pipe_poisoned>> /\ step["client"] # "gone"
        /\ \E s \in {"sent", "quoted", "running"} : step' = [step EXCEPT !["client"] = s]
    BY <1>1 DEF PipeCrossed!client_packet1, PipeCrossed!client_quote, PipeCrossed!client_start,
                PipeCrossed!Step,
                PipeCrossed!deviceVars
  <2>2. EndStep("client")
    BY <2>1 DEF EndStep
  <2>3. QED
    BY <2>2, Others
<1>2. CASE \/ PipeCrossed!host_packet1 \/ PipeCrossed!host_quote \/ PipeCrossed!host_start
  <2>1. /\ UNCHANGED <<known, attested, software, pipe_poisoned>> /\ step["host"] # "gone"
        /\ \E s \in {"keyed", "quoted", "running"} : step' = [step EXCEPT !["host"] = s]
    BY <1>2 DEF PipeCrossed!host_packet1, PipeCrossed!host_quote, PipeCrossed!host_start, PipeCrossed!Step,
                PipeCrossed!deviceVars
  <2>2. EndStep("host")
    BY <2>1 DEF EndStep
  <2>3. QED
    BY <2>2, Others
<1>3. ASSUME NEW e \in PipeEnds, PipeCrossed!start_fails(e) PROVE EndStep(e)
  <2>1. Reason
    BY <1>3, RefusalsHaveReason
  <2>2. /\ UNCHANGED <<known, attested, software, pipe_poisoned>> /\ step[e] # "gone"
        /\ step' = [step EXCEPT ![e] = "failed"]
    BY <1>3 DEF PipeCrossed!start_fails, PipeCrossed!Reads, PipeCrossed!Starting, PipeCrossed!deviceVars
  <2>3. QED
    BY <2>1, <2>2 DEF EndStep
<1>4. ASSUME NEW e \in PipeEnds, PipeCrossed!end_of_file(e) PROVE EndStep(e)
  <2>1. step[Other(e)] = "gone" /\ UNCHANGED <<known, attested, software>>
    BY <1>4, PeerIsOther DEF PipeCrossed!end_of_file, PipeCrossed!deviceVars
  <2>2. \/ step[e] # "gone" /\ step' = [step EXCEPT ![e] = "failed"] /\ UNCHANGED pipe_poisoned
        \/ pipe_poisoned' = [pipe_poisoned EXCEPT ![e] = TRUE] /\ UNCHANGED step
    BY <1>4 DEF PipeCrossed!end_of_file, PipeCrossed!Reads, PipeCrossed!Starting
  <2>3. QED
    BY <2>1, <2>2 DEF EndStep
<1>5. ASSUME NEW e \in PipeEnds, PipeCrossed!send_packet(e) PROVE EndStep(e)
  BY <1>5 DEF PipeCrossed!send_packet, PipeCrossed!deviceVars, EndStep
<1>6. ASSUME NEW e \in PipeEnds, PipeCrossed!receive_packet(e) PROVE EndStep(e)
  <2>1. /\ step[e] = "running" /\ ~pipe_poisoned[e] /\ pipe_wire[e] # <<>>
        /\ UNCHANGED <<known, attested, software, step>>
        /\ \/ PipeCrossed!PacketValid(e, Head(pipe_wire[e])) /\ UNCHANGED pipe_poisoned
           \/ /\ ~PipeCrossed!PacketValid(e, Head(pipe_wire[e]))
              /\ pipe_poisoned' = [pipe_poisoned EXCEPT ![e] = TRUE]
    BY <1>6 DEF PipeCrossed!receive_packet, PipeCrossed!deviceVars
  <2>2. CASE PipeCrossed!PacketValid(e, Head(pipe_wire[e]))
    BY <2>1, <2>2 DEF EndStep
  <2>3. CASE ~PipeCrossed!PacketValid(e, Head(pipe_wire[e]))
    <3>1. Reason
      BY <2>1, <2>3, PacketsAreValid
    <3>2. QED
      BY <2>1, <2>3, <3>1 DEF EndStep
  <2>4. QED
    BY <2>2, <2>3
<1>7. ASSUME NEW e \in PipeEnds, PipeCrossed!whack(e) \/ PipeCrossed!killed(e) PROVE EndStep(e)
  <2>1. /\ UNCHANGED <<known, attested, software, pipe_poisoned>> /\ step[e] # "gone"
        /\ \E s \in {"gone"} : step' = [step EXCEPT ![e] = s]
    BY <1>7 DEF PipeCrossed!whack, PipeCrossed!killed, PipeCrossed!deviceVars
  <2>2. QED
    BY <2>1 DEF EndStep
<1>8. ASSUME NEW e \in PipeEnds, PipeCrossed!change_software(e) PROVE EndStep(e)
  BY <1>8 DEF PipeCrossed!change_software, EndStep
<1>9. CASE PipeCrossed!start_mode
  BY <1>1, <1>2, <1>3, <1>4, <1>9, NoneReadsAgain, PeerIsOther DEF PipeCrossed!start_mode
<1>10. QED
  BY <1>5, <1>6, <1>7, <1>8, <1>9 DEF PipeMove

\* What has been a reason, is one.
LEMMA FailsKept ==
  ASSUME PipeInv, PipeCounts, PipeFails, UNCHANGED part, part = "pipe" => PipeMove \/ UNCHANGED pipeVars
  PROVE  PipeFails'
<1> SUFFICES ASSUME part = "pipe", PipeMove \/ UNCHANGED pipeVars, NEW f \in PipeEnds,
                    pipe_poisoned'[f] \/ step'[f] = "failed"
             PROVE  (Reason \/ step[Other(f)] = "gone")'
  BY DEF PipeFails
<1>1. CASE UNCHANGED pipeVars
  BY <1>1 DEF PipeFails, Reason, pipeVars
<1>2. CASE PipeMove
  <2>1. PICK e \in PipeEnds : EndStep(e)
    BY <1>2, EndsStep
  <2>2. PipeTypes /\ Other(f) \in PipeEnds /\ (f = e \/ f # e)
    BY Others DEF PipeInv
  <2>3. Reason => Reason'
    BY <2>1, <2>2 DEF EndStep, Reason, PipeTypes
  <2>4. \A g \in PipeEnds : step[g] = "gone" => step'[g] = "gone"
    BY <2>1, <2>2 DEF EndStep, PipeTypes
  <2>5. Reason \/ step[Other(f)] = "gone"
    <3>1. CASE pipe_poisoned[f] \/ step[f] = "failed"
      BY <3>1 DEF PipeFails
    <3>2. CASE ~(pipe_poisoned[f] \/ step[f] = "failed")
      <4>1. f = e
        BY <2>1, <2>2, <3>2 DEF EndStep, PipeTypes
      <4>2. QED
        BY <2>1, <2>2, <3>2, <4>1 DEF EndStep, PipeTypes
    <3>3. QED
      BY <3>1, <3>2
  <2>6. QED
    BY <2>2, <2>3, <2>4, <2>5
<1>3. QED
  BY <1>1, <1>2

-----------------------------------------------------------------------------
(* The pipe among the transports.                                          *)

PipesInv == PipeInv /\ PipeCounts /\ PipeFails

\* A behaviour of another part leaves the pipe as it began.
LEMMA PipesStep ==
  ASSUME PipesInv, [MCNext]_allVars
  PROVE  PipesInv'
<1>1. UNCHANGED part
  BY DEF MCNext, Part, allVars
<1>2. \/ part = "pipe" /\ Pipe!Next
      \/ part # "pipe" /\ PipeCrossed!Next
      \/ UNCHANGED pipeVars
  BY DEF MCNext, Part, allVars
<1>0. PipeInv /\ PipeCounts /\ PipeFails
  BY DEF PipesInv
<1>3. PipeMove \/ UNCHANGED pipeVars
  <2>1. CASE part = "pipe" /\ Pipe!Next
    BY <1>0, <2>1, PartsMove
  <2>2. CASE part # "pipe" /\ PipeCrossed!Next
    BY <1>0, <2>2, PartsMove
  <2>3. QED
    BY <1>2, <2>1, <2>2
<1>4. PipeInv'
  BY <1>0, <1>1, <1>3, PipeStep
<1>5. PipeCounts'
  BY <1>0, <1>1, <1>2, CountsKept
<1>6. PipeFails'
  BY <1>0, <1>1, <1>3, FailsKept
<1>7. QED
  BY <1>4, <1>5, <1>6 DEF PipesInv

\* What the run checks follows.
LEMMA PipesAreInStep == PipesInv => PipeIsInStep
<1> SUFFICES ASSUME PipesInv PROVE PipeIsInStep
  OBVIOUS
<1>1. Pipe!Ends = PipeEnds /\ \A e : Pipe!Peer(e) = Other(e)
  BY DEF Pipe!Ends, Pipe!Peer, PipeEnds, Other
<1>2. PipeTypes /\ \A e \in PipeEnds : EndInv(e) /\ WireInv(e) /\ Other(e) \in PipeEnds
  BY Others DEF PipesInv, PipeInv
<1>3. Pipe!PeerIsVerified
  <2>1. ASSUME NEW e \in PipeEnds, step[e] = "running"
        PROVE  known[Other(e)] /\ attested[Other(e)] /\ nonces[e] = nonces[Other(e)]
    BY <1>2, <2>1 DEF EndInv
  <2>2. \A e \in PipeEnds : nonces[e] = nonces[Other(e)] => nonces["client"] = nonces["host"]
    BY Others DEF PipeEnds
  <2>3. QED
    BY <1>1, <2>1, <2>2 DEF Pipe!PeerIsVerified
<1>4. Pipe!ReceivedIsSent
  <2>1. ASSUME NEW e \in PipeEnds, NEW i \in DOMAIN pipe_got[e] PROVE pipe_got[e][i] = <<Other(e), i>>
    <3> DEFINE n == Len(pipe_got[e])
    <3>1. pipe_got[e] = [j \in 1..n |-> <<Other(e), j>>]
      BY <1>2 DEF EndInv, FirstPayloads
    <3> HIDE DEF n
    <3>2. QED
      BY <3>1
  <2>2. QED
    BY <1>1, <2>1 DEF Pipe!ReceivedIsSent
<1>5. Pipe!ChainsAgree
  <2> SUFFICES ASSUME NEW e \in PipeEnds, step = [f \in PipeEnds |-> "running"],
                      pipe_poisoned = [f \in PipeEnds |-> FALSE], pipe_wire[e] = <<>>
               PROVE  pipe_sent[Other(e)] = pipe_received[e]
    BY <1>1 DEF Pipe!ChainsAgree
  <2>1. Reading(e) /\ Live(Other(e)) /\ step[e] = "running" /\ step[Other(e)] = "running"
    BY Others DEF Reading, Live
  <2>2. TakenBy(e) + Len(pipe_wire[e]) = GivenBy(Other(e)) /\ Len(pipe_wire[e]) = 0 /\ TakenBy(e) \in Nat
    BY <1>2, <2>1, Counters, EmptySeq DEF WireInv
  <2>3. StartMessages(Other(e)) + Len(pipe_got[e]) = StartMessages(Other(e)) + put[Other(e)]
    BY <2>1, <2>2 DEF TakenBy, GivenBy
  <2>4. Len(pipe_got[e]) = put[Other(e)]
    BY <1>2, <2>3 DEF StartMessages, PipeTypes
  <2>5. QED
    BY <1>2, <2>1, <2>4, Others DEF EndInv
<1>6. part = "pipe" => Pipe!FailsForReason
  BY <1>1 DEF PipesInv, PipeFails, Reason, Pipe!FailsForReason
<1>7. Pipe!NeverSpins
  BY <1>1, <1>2 DEF Pipe!NeverSpins, PipeTypes
<1>8. QED
  BY <1>3, <1>4, <1>5, <1>6, <1>7 DEF PipeIsInStep

\* Through the pipe of lib/PossumPipe.c, for any number of packets, whoever
\* changes, is killed or leaves: an end that runs has verified the other, what is
\* received is what was sent, in order and whole, the chains agree whenever
\* nothing is on its way, and ends that take turns fail only for a reason.
THEOREM PipeStaysInStep == MCSpec => []PipeIsInStep
<1>1. MCInit => PipesInv
  <2> SUFFICES ASSUME MCInit PROVE PipesInv
    OBVIOUS
  <2>1. Pipe!Init
    BY DEF MCInit
  <2>2. PipeInv
    BY <2>1, PipeBegins
  <2>3. /\ \A e \in PipeEnds : put[e] = 0 /\ pipe_got[e] = <<>> /\ ~pipe_poisoned[e] /\ step[e] = "new"
    BY <2>1 DEF Pipe!Init, Pipe!Ends, PipeEnds
  <2>4. PipeCounts
    BY <2>3, Others, EmptySeq DEF PipeCounts
  <2>5. PipeFails
    BY <2>3 DEF PipeFails
  <2>6. QED
    BY <2>2, <2>4, <2>5 DEF PipesInv
<1>2. QED
  BY <1>1, PipesStep, PipesAreInStep, PTL DEF MCSpec

-----------------------------------------------------------------------------
(* The publisher: the messages of its caller.                              *)

\* What the library still has are the last messages it took; the broker has
\* earlier ones, as they were sent, and as long as no connection was lost all.
MessagesInv ==
  /\ mqtt_sent \in Nat /\ losses \in Nat
  /\ queue \in Seq(Nat) /\ broker \in Seq(Nat)
  /\ Len(queue) <= mqtt_sent
  /\ \A i \in 1..Len(queue) : queue[i] = (mqtt_sent - Len(queue)) + i
  /\ \A i \in 1..Len(broker) : broker[i] <= mqtt_sent - Len(queue)
  /\ \A i, j \in 1..Len(broker) : i < j => broker[i] < broker[j]
  /\ user = "destroyed" => queue = <<>>
  /\ losses = 0 =>
       /\ \A i \in 1..Len(broker) : broker[i] = i
       /\ user # "destroyed" => Len(broker) + Len(queue) = mqtt_sent

\* What a step does with them.
Sending ==
  /\ user = "idle" /\ user' = "counting"
  /\ mqtt_sent' = mqtt_sent + 1 /\ queue' = Append(queue, mqtt_sent + 1)
  /\ UNCHANGED <<broker, losses>>

Writing ==
  /\ queue # <<>> /\ broker' = Append(broker, Head(queue)) /\ queue' = Tail(queue)
  /\ UNCHANGED <<user, mqtt_sent, losses>>

Losing ==
  /\ losses' = losses + 1 /\ queue' = <<>>
  /\ UNCHANGED <<user, mqtt_sent, broker>>

Resetting ==
  /\ user = "resetting" /\ user' = "destroyed" /\ queue' = <<>>
  /\ UNCHANGED <<mqtt_sent, broker, losses>>

Resting ==
  /\ user' = "destroyed" <=> user = "destroyed"
  /\ UNCHANGED <<mqtt_sent, queue, broker, losses>>

\* The steps of the two parts are those.
LEMMA PublisherSteps ==
  ASSUME Mqtt!Next
  PROVE  Sending \/ Writing \/ Losing \/ Resetting \/ Resting
<1>1. CASE Mqtt!init_publisher \/ Mqtt!init_connected \/ Mqtt!count_up \/ Mqtt!count_load
           \/ Mqtt!count_store \/ Mqtt!whack
  BY <1>1 DEF Mqtt!init_publisher, Mqtt!init_connected, Mqtt!count_up, Mqtt!count_load, Mqtt!count_store,
              Mqtt!whack, Mqtt!UserStep, Mqtt!libraryVars, Resting
<1>2. CASE Mqtt!send_String
  BY <1>2 DEF Mqtt!send_String, Mqtt!UserStep, Sending, Resting
<1>3. CASE Mqtt!reset
  BY <1>3 DEF Mqtt!reset, Mqtt!UserStep, Resetting
<1>4. CASE Mqtt!connect_callback \/ Mqtt!publish_callback \/ Mqtt!publish_load \/ Mqtt!publish_store
  BY <1>4 DEF Mqtt!connect_callback, Mqtt!publish_callback, Mqtt!publish_load, Mqtt!publish_store,
              Mqtt!libraryVars, Resting
<1>5. CASE Mqtt!write
  BY <1>5 DEF Mqtt!write, Writing
<1>6. CASE Mqtt!lose
  BY <1>6 DEF Mqtt!lose, Losing
<1>7. QED
  BY <1>1, <1>2, <1>3, <1>4, <1>5, <1>6 DEF Mqtt!Next, Mqtt!User, Mqtt!Library

LEMMA QuietSteps ==
  ASSUME MqttQuiet!Next
  PROVE  Sending \/ Writing \/ Losing \/ Resetting \/ Resting
<1>1. CASE MqttQuiet!init_publisher \/ MqttQuiet!init_connected \/ MqttQuiet!count_up
           \/ MqttQuiet!count_load \/ MqttQuiet!count_store \/ MqttQuiet!whack
  BY <1>1 DEF MqttQuiet!init_publisher, MqttQuiet!init_connected, MqttQuiet!count_up, MqttQuiet!count_load,
              MqttQuiet!count_store, MqttQuiet!whack, MqttQuiet!UserStep, MqttQuiet!libraryVars, Resting
<1>2. CASE MqttQuiet!send_String
  BY <1>2 DEF MqttQuiet!send_String, MqttQuiet!UserStep, Sending, Resting
<1>3. CASE MqttQuiet!reset
  BY <1>3 DEF MqttQuiet!reset, MqttQuiet!UserStep, Resetting
<1>4. CASE MqttQuiet!connect_callback \/ MqttQuiet!publish_callback \/ MqttQuiet!publish_load
           \/ MqttQuiet!publish_store
  BY <1>4 DEF MqttQuiet!connect_callback, MqttQuiet!publish_callback, MqttQuiet!publish_load,
              MqttQuiet!publish_store, MqttQuiet!libraryVars, Resting
<1>5. CASE MqttQuiet!write
  BY <1>5 DEF MqttQuiet!write, Writing
<1>6. CASE MqttQuiet!lose
  BY <1>6 DEF MqttQuiet!lose, Losing
<1>7. QED
  BY <1>1, <1>2, <1>3, <1>4, <1>5, <1>6 DEF MqttQuiet!Next, MqttQuiet!User, MqttQuiet!Library

\* One message is sent ...
LEMMA OneSent ==
  ASSUME MessagesInv, Sending
  PROVE  MessagesInv'
<1> DEFINE s == mqtt_sent  q == queue  n == Len(queue)  r == Append(queue, mqtt_sent + 1)
<1>1. /\ s \in Nat /\ n \in Nat /\ q \in Seq(Nat) /\ broker \in Seq(Nat) /\ Len(broker) \in Nat
      /\ losses \in Nat
      /\ n <= s /\ \A i \in 1..Len(broker) : broker[i] \in Nat
  BY ElementOfSeq, LenProperties DEF MessagesInv
<1>2. r \in Seq(Nat) /\ Len(r) = n + 1 /\ r[n + 1] = s + 1 /\ \A i \in 1..n : r[i] = q[i]
  BY <1>1, AppendProperties
<1>3. /\ mqtt_sent' = s + 1 /\ queue' = r /\ user # "destroyed" /\ user' # "destroyed"
      /\ broker' = broker /\ losses' = losses
  BY DEF Sending
<1>4. \A i \in 1..n : q[i] = (s - n) + i
  BY DEF MessagesInv
<1> HIDE DEF s, q, n, r
<1>5. \A i \in 1..(n + 1) : r[i] = ((s + 1) - (n + 1)) + i
  <2>1. ASSUME NEW i \in 1..(n + 1) PROVE r[i] = ((s + 1) - (n + 1)) + i
    <3>1. CASE i \in 1..n
      BY <1>1, <1>2, <1>4, <3>1
    <3>2. CASE i = n + 1
      BY <1>1, <1>2, <3>2
    <3>3. QED
      BY <1>1, <3>1, <3>2
  <2>2. QED
    BY <2>1
<1>6. (s + 1) - (n + 1) = s - n /\ n + 1 <= s + 1 /\ s + 1 \in Nat
  BY <1>1
<1>7. \A i \in 1..Len(broker) : broker[i] <= (s + 1) - (n + 1)
  BY <1>6 DEF MessagesInv, s, n
<1>8. losses = 0 => Len(broker) + n = s
  BY <1>3 DEF MessagesInv, s, n
<1>9. losses = 0 => Len(broker) + (n + 1) = s + 1
  BY <1>1, <1>8
<1>10. QED
  <2>1. Len(queue') = n + 1
    BY <1>2, <1>3
  <2>2. /\ \A i, j \in 1..Len(broker) : i < j => broker[i] < broker[j]
        /\ losses = 0 => \A i \in 1..Len(broker) : broker[i] = i
    BY DEF MessagesInv
  <2>3. QED
    BY <1>1, <1>2, <1>3, <1>5, <1>6, <1>7, <1>9, <2>1, <2>2 DEF MessagesInv

\* ... one is written ...
LEMMA OneWritten ==
  ASSUME MessagesInv, Writing
  PROVE  MessagesInv'
<1> DEFINE s == mqtt_sent  q == queue  n == Len(queue)  b == broker  k == Len(broker)
           c == Append(broker, Head(queue))  t == Tail(queue)
<1>1. /\ s \in Nat /\ n \in Nat /\ q \in Seq(Nat) /\ q # <<>> /\ b \in Seq(Nat) /\ k \in Nat /\ losses \in Nat
      /\ n <= s
  BY LenProperties DEF MessagesInv, Writing
<1>2. n # 0 /\ Head(q) = q[1] /\ Head(q) \in Nat /\ 1 \in 1..n
  BY <1>1, EmptySeq, HeadTailProperties
<1>3. t \in Seq(Nat) /\ Len(t) = n - 1 /\ \A i \in 1..(n - 1) : t[i] = q[i + 1]
  BY <1>1, HeadTailProperties
<1>4. c \in Seq(Nat) /\ Len(c) = k + 1 /\ c[k + 1] = Head(q) /\ \A i \in 1..k : c[i] = b[i]
  BY <1>1, <1>2, AppendProperties
<1>5. /\ mqtt_sent' = s /\ queue' = t /\ broker' = c /\ losses' = losses /\ user' = user /\ user # "destroyed"
  BY <1>1 DEF Writing, MessagesInv
<1>6. /\ \A i \in 1..n : q[i] = (s - n) + i
      /\ \A i \in 1..k : b[i] \in Nat /\ b[i] <= s - n
      /\ \A i, j \in 1..k : i < j => b[i] < b[j]
      /\ losses = 0 => (\A i \in 1..k : b[i] = i) /\ k + n = s
  BY <1>1, <1>5, ElementOfSeq DEF MessagesInv
<1> HIDE DEF s, q, n, b, k, c, t
<1>7. Head(q) = (s - n) + 1
  BY <1>2, <1>6
<1>8. \A i \in 1..(n - 1) : t[i] = (s - (n - 1)) + i
  <2>1. ASSUME NEW i \in 1..(n - 1) PROVE t[i] = (s - (n - 1)) + i
    <3>1. i + 1 \in 1..n /\ t[i] = q[i + 1]
      BY <1>1, <1>3
    <3>2. q[i + 1] = (s - n) + (i + 1)
      BY <1>6, <3>1
    <3>3. QED
      BY <1>1, <3>1, <3>2
  <2>2. QED
    BY <2>1
<1>9. \A i \in 1..(k + 1) : c[i] <= s - (n - 1)
  <2>1. ASSUME NEW i \in 1..(k + 1) PROVE c[i] <= s - (n - 1)
    <3>1. CASE i \in 1..k
      BY <1>1, <1>4, <1>6, <3>1
    <3>2. CASE i = k + 1
      BY <1>1, <1>4, <1>7, <3>2
    <3>3. QED
      BY <1>1, <3>1, <3>2
  <2>2. QED
    BY <2>1
<1>10. \A i, j \in 1..(k + 1) : i < j => c[i] < c[j]
  <2>1. ASSUME NEW i \in 1..(k + 1), NEW j \in 1..(k + 1), i < j PROVE c[i] < c[j]
    <3>1. i \in 1..k
      BY <1>1, <2>1
    <3>2. CASE j \in 1..k
      BY <1>4, <1>6, <2>1, <3>1, <3>2
    <3>3. CASE j = k + 1
      BY <1>1, <1>4, <1>6, <1>7, <3>1, <3>3
    <3>4. QED
      BY <1>1, <3>2, <3>3
  <2>2. QED
    BY <2>1
<1>11. losses = 0 => (\A i \in 1..(k + 1) : c[i] = i) /\ (k + 1) + (n - 1) = s
  <2> SUFFICES ASSUME losses = 0 PROVE (\A i \in 1..(k + 1) : c[i] = i) /\ (k + 1) + (n - 1) = s
    OBVIOUS
  <2>1. k + n = s /\ Head(q) = k + 1
    BY <1>1, <1>6, <1>7
  <2>2. ASSUME NEW i \in 1..(k + 1) PROVE c[i] = i
    <3>1. CASE i \in 1..k
      BY <1>4, <1>6, <3>1
    <3>2. CASE i = k + 1
      BY <1>4, <2>1, <3>2
    <3>3. QED
      BY <1>1, <3>1, <3>2
  <2>3. QED
    BY <1>1, <2>1, <2>2
<1>12. Len(queue') = n - 1 /\ Len(broker') = k + 1 /\ n - 1 <= s
  BY <1>1, <1>3, <1>4, <1>5
<1>13. QED
  BY <1>1, <1>3, <1>4, <1>5, <1>8, <1>9, <1>10, <1>11, <1>12 DEF MessagesInv

\* ... none is, and what the library has may be lost.
LEMMA NoneWritten ==
  ASSUME MessagesInv, Losing \/ Resetting \/ Resting \/ UNCHANGED mqttVars
  PROVE  MessagesInv'
<1>1. /\ mqtt_sent \in Nat /\ losses \in Nat /\ queue \in Seq(Nat) /\ broker \in Seq(Nat) /\ Len(queue) \in Nat
      /\ Len(broker) \in Nat /\ Len(queue) <= mqtt_sent /\ \A i \in 1..Len(broker) : broker[i] \in Nat
  BY ElementOfSeq, LenProperties DEF MessagesInv
<1>2. CASE Losing \/ Resetting
  <2>1. /\ mqtt_sent' = mqtt_sent /\ broker' = broker /\ queue' = <<>>
        /\ \/ losses' = losses + 1
           \/ losses' = losses /\ user' = "destroyed"
    BY <1>2 DEF Losing, Resetting
  <2>2. Len(queue') = 0 /\ queue' \in Seq(Nat)
    BY <2>1, EmptySeq
  <2>3. \A i \in 1..Len(broker) : broker[i] <= mqtt_sent - 0
    BY <1>1 DEF MessagesInv
  <2>4. losses' \in Nat /\ (losses' = 0 => losses = 0 /\ user' = "destroyed")
    BY <1>1, <2>1
  <2>5. /\ \A i, j \in 1..Len(broker) : i < j => broker[i] < broker[j]
        /\ losses = 0 => \A i \in 1..Len(broker) : broker[i] = i
    BY DEF MessagesInv
  <2>6. QED
    BY <1>1, <2>1, <2>2, <2>3, <2>4, <2>5 DEF MessagesInv
<1>3. CASE Resting \/ UNCHANGED mqttVars
  BY <1>3 DEF MessagesInv, Resting, mqttVars
<1>4. QED
  BY <1>2, <1>3

\* So every step of either part keeps it.
LEMMA MessagesStep ==
  ASSUME MessagesInv, Mqtt!Next \/ MqttQuiet!Next \/ UNCHANGED mqttVars
  PROVE  MessagesInv'
<1>1. Sending \/ Writing \/ Losing \/ Resetting \/ Resting \/ UNCHANGED mqttVars
  BY PublisherSteps, QuietSteps
<1>2. QED
  BY <1>1, OneSent, OneWritten, NoneWritten

-----------------------------------------------------------------------------
(* The publisher: the count of what was not transmitted.                   *)

\* What count would be if it could be negative: what the library took and has
\* not called back for, but for the message the caller has still to count.
Outstanding ==
  (mqtt_sent - Len(broker)) + (IF thread = "called" THEN 1 ELSE 0) - (IF user = "counting" THEN 1 ELSE 0)

\* It is at most one behind, and then the unsigned count has wrapped.
Wrapped(d) == IF d < 0 THEN d + Width ELSE d

CountInv ==
  /\ losses = 0 /\ mqtt_sent <= ToSend
  /\ thread # "subtracting" /\ user # "adding"
  /\ thread = "called" => Len(broker) # 0
  /\ user # "destroyed" => count = Wrapped(Outstanding)
  /\ user = "destroyed" => Len(broker) = mqtt_sent

\* One more, and one less, of a count that wraps.
LEMMA Wraps ==
  ASSUME NEW d \in Int, -1 <= d, d < Width
  PROVE  /\ d + 1 < Width => (Wrapped(d) + 1) % Width = Wrapped(d + 1)
         /\ 0 <= d => (Wrapped(d) + Width - 1) % Width = Wrapped(d - 1)
<1>1. Width \in Nat /\ 0 < Width
  BY TransportsAssumption
<1>2. \A x \in 0..(Width - 1) : x % Width = x /\ (x + Width) % Width = x
  BY <1>1
<1>3. Width % Width = 0
  BY <1>1
<1>4. CASE d = -1
  <2>1. Wrapped(d) + 1 = Width /\ Wrapped(d + 1) = 0
    BY <1>1, <1>4 DEF Wrapped
  <2>2. QED
    BY <1>3, <1>4, <2>1
<1>5. CASE 0 <= d
  <2>1. Wrapped(d) = d /\ Wrapped(d + 1) = d + 1
    BY <1>5 DEF Wrapped
  <2>2. d + 1 < Width => (d + 1) % Width = d + 1
    BY <1>1, <1>2, <1>5
  <2>3. (d + Width - 1) % Width = Wrapped(d - 1)
    <3>1. CASE d = 0
      <4>1. d + Width - 1 = Width - 1 /\ Width - 1 \in 0..(Width - 1) /\ Wrapped(d - 1) = Width - 1
        BY <1>1, <3>1 DEF Wrapped
      <4>2. QED
        BY <1>2, <4>1
    <3>2. CASE d # 0
      <4>1. d - 1 \in 0..(Width - 1) /\ d + Width - 1 = (d - 1) + Width /\ Wrapped(d - 1) = d - 1
        BY <1>1, <1>5, <3>2 DEF Wrapped
      <4>2. QED
        BY <1>2, <4>1
    <3>3. QED
      BY <3>1, <3>2
  <2>4. QED
    BY <2>1, <2>2, <2>3
<1>6. QED
  BY <1>4, <1>5

\* Where what is outstanding lies.
LEMMA OutstandingBounds ==
  ASSUME MessagesInv, CountInv
  PROVE  /\ Len(broker) \in Nat /\ Len(queue) \in Nat /\ Len(broker) <= mqtt_sent
         /\ Outstanding \in Int /\ -1 <= Outstanding /\ Outstanding < Width
         /\ thread = "called" => 0 <= Outstanding
         /\ user = "counting" => Outstanding + 1 < Width
         /\ user # "counting" => 0 <= Outstanding
<1>1. /\ mqtt_sent \in Nat /\ Len(broker) \in Nat /\ Len(queue) \in Nat /\ mqtt_sent <= ToSend
      /\ thread = "called" => Len(broker) # 0
  BY LenProperties DEF MessagesInv, CountInv
<1>2. Len(broker) <= mqtt_sent
  <2>1. CASE user = "destroyed"
    BY <1>1, <2>1 DEF CountInv
  <2>2. CASE user # "destroyed"
    <3>1. Len(broker) + Len(queue) = mqtt_sent
      BY <2>2 DEF MessagesInv, CountInv
    <3>2. QED
      BY <1>1, <3>1
  <2>3. QED
    BY <2>1, <2>2
<1>3. ToSend \in Nat /\ Width \in Nat /\ ToSend < Width
  BY TransportsAssumption
<1> DEFINE d == mqtt_sent - Len(broker)
<1>4. d \in Nat /\ d <= ToSend /\ (thread = "called" => d + 1 <= ToSend)
  BY <1>1, <1>2, <1>3
<1>5. Outstanding = d + (IF thread = "called" THEN 1 ELSE 0) - (IF user = "counting" THEN 1 ELSE 0)
  BY DEF Outstanding
<1> HIDE DEF d
<1>6. QED
  BY <1>1, <1>2, <1>3, <1>4, <1>5

\* A step that leaves it, leaves the invariant.
LEMMA CountRests ==
  ASSUME CountInv, UNCHANGED <<count, losses>>, Outstanding' = Outstanding,
         mqtt_sent' \in Nat, mqtt_sent' <= ToSend, user # "destroyed", user' # "destroyed",
         thread' # "subtracting", user' # "adding", thread' = "called" => Len(broker)' # 0
  PROVE  CountInv'
<1>1. count' = Wrapped(Outstanding)
  BY DEF CountInv
<1>2. count' = Wrapped(Outstanding')
  BY <1>1
<1>3. losses' = 0
  BY DEF CountInv
<1>4. QED
  BY <1>2, <1>3 DEF CountInv

\* Each step of the quiet publisher keeps it.
LEMMA CountStep ==
  ASSUME MessagesInv, CountInv, MqttQuiet!Next
  PROVE  CountInv'
<1>0. /\ Len(broker) \in Nat /\ Len(queue) \in Nat /\ Len(broker) <= mqtt_sent
      /\ Outstanding \in Int /\ -1 <= Outstanding /\ Outstanding < Width
      /\ thread = "called" => 0 <= Outstanding
      /\ user = "counting" => Outstanding + 1 < Width
      /\ user # "counting" => 0 <= Outstanding
      /\ mqtt_sent \in Nat /\ broker \in Seq(Nat) /\ queue \in Seq(Nat)
  BY OutstandingBounds DEF MessagesInv
<1>1. CASE MqttQuiet!init_publisher \/ MqttQuiet!init_connected \/ MqttQuiet!whack
  <2>1. /\ UNCHANGED <<count, losses, mqtt_sent, broker>>
        /\ user # "destroyed" /\ user' # "destroyed" /\ user' # "adding"
        /\ user # "counting" /\ user' # "counting"
        /\ thread' = thread \/ (thread # "called" /\ thread' = "loop")
    BY <1>1 DEF MqttQuiet!init_publisher, MqttQuiet!init_connected, MqttQuiet!whack, MqttQuiet!UserStep,
                MqttQuiet!ThreadStep, MqttQuiet!libraryVars
  <2>2. Outstanding' = Outstanding
    BY <2>1 DEF Outstanding
  <2>3. QED
    BY <1>0, <2>1, <2>2, CountRests DEF CountInv
<1>2. CASE MqttQuiet!send_String
  <2>1. /\ UNCHANGED <<count, losses, broker, thread>> /\ user = "idle" /\ mqtt_sent < ToSend
        /\ \/ user' = "counting" /\ mqtt_sent' = mqtt_sent + 1
           \/ user' = "idle" /\ mqtt_sent' = mqtt_sent
    BY <1>2 DEF MqttQuiet!send_String, MqttQuiet!UserStep
  <2>2. mqtt_sent' \in Nat /\ mqtt_sent' <= ToSend
    BY <1>0, <2>1, TransportsAssumption
  <2>3. Outstanding' = Outstanding
    <3>1. CASE user' = "counting" /\ mqtt_sent' = mqtt_sent + 1
      BY <1>0, <2>1, <3>1 DEF Outstanding
    <3>2. CASE user' = "idle" /\ mqtt_sent' = mqtt_sent
      BY <2>1, <3>2 DEF Outstanding
    <3>3. QED
      BY <2>1, <3>1, <3>2
  <2>4. QED
    BY <2>1, <2>2, <2>3, CountRests DEF CountInv
<1>3. CASE MqttQuiet!count_up
  <2>1. /\ UNCHANGED <<losses, mqtt_sent, broker, thread>> /\ user = "counting" /\ user' = "idle"
        /\ count' = (count + 1) % Width
    BY <1>3 DEF MqttQuiet!count_up, MqttQuiet!UserStep, MqttQuiet!libraryVars
  <2>2. Outstanding' = Outstanding + 1
    BY <1>0, <2>1 DEF Outstanding
  <2>3. count = Wrapped(Outstanding)
    BY <2>1 DEF CountInv
  <2>4. (Wrapped(Outstanding) + 1) % Width = Wrapped(Outstanding + 1)
    BY <1>0, <2>1, Wraps
  <2>5. count' = Wrapped(Outstanding')
    BY <2>1, <2>2, <2>3, <2>4
  <2>6. QED
    BY <2>1, <2>5 DEF CountInv
<1>4. CASE MqttQuiet!count_load \/ MqttQuiet!publish_load \/ MqttQuiet!lose
  BY <1>4 DEF MqttQuiet!count_load, MqttQuiet!publish_load, MqttQuiet!lose, CountInv
<1>5. CASE MqttQuiet!count_store \/ MqttQuiet!publish_store
  BY <1>5 DEF MqttQuiet!count_store, MqttQuiet!publish_store, MqttQuiet!UserStep, MqttQuiet!ThreadStep, CountInv
<1>6. CASE MqttQuiet!reset
  <2>1. /\ count = 0 /\ user = "resetting" /\ user' = "destroyed" /\ thread' = "gone"
        /\ UNCHANGED <<mqtt_sent, broker, losses>>
    BY <1>6 DEF MqttQuiet!reset, MqttQuiet!UserStep
  <2>2. Wrapped(Outstanding) = 0 /\ 0 <= Outstanding
    BY <1>0, <2>1 DEF CountInv
  <2>3. Outstanding = 0
    BY <1>0, <2>2 DEF Wrapped
  <2>4. Len(broker) = mqtt_sent
    <3>1. (mqtt_sent - Len(broker)) + (IF thread = "called" THEN 1 ELSE 0) = 0
      BY <1>0, <2>1, <2>3 DEF Outstanding
    <3>2. QED
      BY <1>0, <3>1
  <2>5. QED
    BY <2>1, <2>4 DEF CountInv
<1>7. CASE MqttQuiet!connect_callback
  <2>1. UNCHANGED <<user, thread, count, mqtt_sent, broker, losses>>
    BY <1>7 DEF MqttQuiet!connect_callback
  <2>2. Outstanding' = Outstanding
    BY <2>1 DEF Outstanding
  <2>3. QED
    BY <2>1, <2>2 DEF CountInv, Wrapped
<1>8. CASE MqttQuiet!write
  <2>1. /\ UNCHANGED <<user, count, mqtt_sent, losses>> /\ queue # <<>>
        /\ thread = "loop" /\ thread' = "called" /\ broker' = Append(broker, Head(queue))
    BY <1>8 DEF MqttQuiet!write, MqttQuiet!ThreadStep
  <2>2. user # "destroyed"
    BY <2>1 DEF MessagesInv
  <2>3. Len(broker') = Len(broker) + 1
    <3>1. Head(queue) \in Nat
      BY <1>0, <2>1, HeadTailProperties
    <3>2. QED
      BY <1>0, <2>1, <3>1, AppendProperties
  <2>4. Outstanding' = Outstanding
    BY <1>0, <2>1, <2>3 DEF Outstanding
  <2>5. Len(broker') # 0
    BY <1>0, <2>3
  <2>6. mqtt_sent' \in Nat /\ mqtt_sent' <= ToSend /\ user' # "adding" /\ user' # "destroyed"
    BY <1>0, <2>1, <2>2 DEF CountInv
  <2>7. QED
    BY <2>1, <2>2, <2>4, <2>5, <2>6, CountRests
<1>9. CASE MqttQuiet!publish_callback
  <2>1. /\ UNCHANGED <<user, losses, mqtt_sent, broker>> /\ thread = "called" /\ thread' = "loop"
        /\ count' = (count + Width - 1) % Width
    BY <1>9 DEF MqttQuiet!publish_callback, MqttQuiet!ThreadStep, MqttQuiet!libraryVars
  <2>2. Outstanding' = Outstanding - 1
    BY <1>0, <2>1 DEF Outstanding
  <2>3. (Wrapped(Outstanding) + Width - 1) % Width = Wrapped(Outstanding - 1)
    BY <1>0, <2>1, Wraps
  <2>4. user # "destroyed" => count' = Wrapped(Outstanding')
    BY <2>1, <2>2, <2>3 DEF CountInv
  <2>5. QED
    BY <2>1, <2>4 DEF CountInv
<1>10. QED
  BY <1>1, <1>2, <1>3, <1>4, <1>5, <1>6, <1>7, <1>8, <1>9 DEF MqttQuiet!Next, MqttQuiet!User, MqttQuiet!Library

-----------------------------------------------------------------------------
(* The publisher among the transports.                                     *)

PublisherInv == MessagesInv /\ (part = "mqtt quiet" => CountInv)

\* A behaviour of another part leaves the publisher as it began.
LEMMA PublisherStep ==
  ASSUME PublisherInv, [MCNext]_allVars
  PROVE  PublisherInv'
<1>0. MessagesInv /\ (part = "mqtt quiet" => CountInv)
  BY ZenonT(60) DEF PublisherInv
<1>1. UNCHANGED part
  BY DEF MCNext, Part, allVars
<1>2. \/ part = "mqtt" /\ Mqtt!Next
      \/ part = "mqtt quiet" /\ MqttQuiet!Next
      \/ UNCHANGED mqttVars
  BY DEF MCNext, Part, allVars
<1>3. MessagesInv'
  <2>1. CASE Mqtt!Next
    BY <1>0, <2>1, MessagesStep
  <2>2. CASE MqttQuiet!Next
    BY <1>0, <2>2, MessagesStep
  <2>3. CASE UNCHANGED mqttVars
    BY <1>0, <2>3, MessagesStep
  <2>4. QED
    BY <1>2, <2>1, <2>2, <2>3
<1>4. (part = "mqtt quiet" => CountInv)'
  <2>1. CASE part = "mqtt" /\ Mqtt!Next
    BY <1>1, <2>1
  <2>2. CASE part = "mqtt quiet" /\ MqttQuiet!Next
    BY <1>0, <1>1, <2>2, CountStep
  <2>3. CASE UNCHANGED mqttVars
    BY <1>0, <1>1, <2>3 DEF CountInv, Outstanding, Wrapped, mqttVars
  <2>4. QED
    BY <1>2, <2>1, <2>2, <2>3
<1>5. QED
  BY <1>3, <1>4 DEF PublisherInv

\* Through the publisher of lib/MQTTduct.c, for any number of messages and any
\* width of its count that can hold it, what the broker has was sent in order,
\* each message once, and is left out only when the connection was lost; and a
\* publisher whose threads do not meet in the count is destroyed only when all
\* it sent has reached the broker, though the count wraps below zero on the way.
THEOREM PublisherDrains == MCSpec => []PublishedInOrder
<1>1. MCInit => PublisherInv
  <2> SUFFICES ASSUME MCInit PROVE PublisherInv
    OBVIOUS
  <2>1. Mqtt!Init
    BY DEF MCInit
  <2>2. /\ mqtt_sent = 0 /\ losses = 0 /\ queue = <<>> /\ broker = <<>> /\ count = 0
        /\ user = "new" /\ thread = "off"
    BY <2>1 DEF Mqtt!Init
  <2>3. Len(queue) = 0 /\ Len(broker) = 0 /\ queue \in Seq(Nat) /\ broker \in Seq(Nat)
    BY <2>2, EmptySeq
  <2>4. MessagesInv
    BY <2>2, <2>3 DEF MessagesInv
  <2>5. Outstanding = 0
    <3>1. mqtt_sent = 0 /\ Len(broker) = 0 /\ thread # "called" /\ user # "counting"
      BY <2>2, <2>3
    <3>2. QED
      BY <3>1 DEF Outstanding
  <2>6. CountInv
    BY <2>2, <2>3, <2>5, TransportsAssumption DEF CountInv, Wrapped
  <2>7. QED
    BY <2>4, <2>6 DEF PublisherInv
<1>2. PublisherInv => PublishedInOrder
  <2> SUFFICES ASSUME PublisherInv PROVE PublishedInOrder
    OBVIOUS
  <2>1. MessagesInv /\ DOMAIN broker = 1..Len(broker)
    BY LenProperties DEF PublisherInv, MessagesInv
  <2>2. Mqtt!InOrder
    BY <2>1 DEF Mqtt!InOrder, MessagesInv
  <2>3. part = "mqtt quiet" => Mqtt!DrainedBeforeDestroyed
    BY DEF PublisherInv, CountInv, Mqtt!DrainedBeforeDestroyed
  <2>4. QED
    BY <2>2, <2>3 DEF PublishedInOrder
<1>3. QED
  BY <1>1, <1>2, PublisherStep, PTL DEF MCSpec

-----------------------------------------------------------------------------
(* The identity manager: what IDmgrProofs shows of it, with the values the *)
(* two parts have.                                                         *)

Own == INSTANCE IDmgrProofs WITH
  Clients <- Identities, Requests <- 1, Leaves <- TRUE, Overlap <- FALSE,
  Early <- FALSE, Interrupts <- FALSE, Kills <- TRUE, Hoists <- TRUE, path <- identity_path,
  client <- identity_client, asked <- identity_asked, got <- identity_got

OwnQuiet == INSTANCE IDmgrProofs WITH
  Clients <- Identities, Requests <- 2, Leaves <- FALSE, Overlap <- FALSE,
  Early <- FALSE, Interrupts <- FALSE, Kills <- FALSE, Hoists <- FALSE, path <- identity_path,
  client <- identity_client, asked <- identity_asked, got <- identity_got

\* Daemons and clients are started in turn.
LEMMA StartedInTurn == Own!InTurn /\ OwnQuiet!InTurn
BY TransportsAssumption DEF Own!InTurn, OwnQuiet!InTurn

\* The steps of the parts are those the proofs are about.
LEMMA OwnSteps ==
  ASSUME Identity!Next
  PROVE  Own!Next
<1>1. CASE \E d \in Identity!Started :
             Identity!Serve(d) \/ Identity!whack(d) \/ Identity!whack_sem(d) \/ Identity!daemon_killed(d)
  BY ZenonT(60), <1>1 DEF Identity!create, Identity!create_sem, Identity!setup, Identity!get_idtype,
              Identity!set_assertion, Identity!set_id_key, Identity!whack, Identity!whack_sem,
              Identity!daemon_killed, Identity!Serve, Identity!Daemon, Identity!Empty, Identity!clientVars,
              Identity!nameVars, Identity!Started, Own!Next, Own!Started, Own!create, Own!create_sem,
              Own!setup, Own!get_idtype, Own!set_assertion, Own!set_id_key, Own!whack, Own!whack_sem,
              Own!daemon_killed, Own!Serve, Own!Daemon, Own!Empty, Own!clientVars, Own!nameVars
<1>2. CASE \E c \in Identities : Identity!Ask(c) \/ Identity!detach(c) \/ Identity!client_killed(c)
  BY ZenonT(60), <1>2 DEF Identity!attach, Identity!lock, Identity!Exchange, Identity!write_request,
    Identity!signal,
              Identity!spin, Identity!read_answer, Identity!clear_ipc, Identity!unlock, Identity!detach,
              Identity!client_killed, Identity!Ask, Identity!Client, Identity!Kinds, Identity!Nothing,
              Identity!Request, Identity!daemonVars, Identity!nameVars, Identity!Started, Own!Next,
              Own!Started, Own!attach, Own!lock, Own!Exchange, Own!write_request, Own!signal, Own!spin,
              Own!read_answer, Own!clear_ipc, Own!unlock, Own!detach, Own!client_killed, Own!Ask,
              Own!Client, Own!Kinds, Own!Nothing, Own!Request, Own!daemonVars, Own!nameVars
<1>3. QED
  BY SMTT(30), <1>1, <1>2 DEF Identity!Next

\* So are those of the quiet part.
LEMMA OwnQuietSteps ==
  ASSUME IdentityQuiet!Next
  PROVE  OwnQuiet!Next
<1>1. CASE \E d \in IdentityQuiet!Started :
             \/ IdentityQuiet!Serve(d) \/ IdentityQuiet!whack(d) \/ IdentityQuiet!whack_sem(d)
             \/ IdentityQuiet!daemon_killed(d)
  BY ZenonT(60), <1>1 DEF IdentityQuiet!create, IdentityQuiet!create_sem, IdentityQuiet!setup,
    IdentityQuiet!get_idtype,
              IdentityQuiet!set_assertion, IdentityQuiet!set_id_key, IdentityQuiet!whack,
              IdentityQuiet!whack_sem, IdentityQuiet!daemon_killed, IdentityQuiet!Serve,
              IdentityQuiet!Daemon, IdentityQuiet!Empty, IdentityQuiet!clientVars, IdentityQuiet!nameVars,
              IdentityQuiet!Started, OwnQuiet!Next, OwnQuiet!Started, OwnQuiet!create, OwnQuiet!create_sem,
              OwnQuiet!setup, OwnQuiet!get_idtype, OwnQuiet!set_assertion, OwnQuiet!set_id_key,
              OwnQuiet!whack, OwnQuiet!whack_sem, OwnQuiet!daemon_killed, OwnQuiet!Serve, OwnQuiet!Daemon,
              OwnQuiet!Empty, OwnQuiet!clientVars, OwnQuiet!nameVars
<1>2. CASE \E c \in Identities :
             IdentityQuiet!Ask(c) \/ IdentityQuiet!detach(c) \/ IdentityQuiet!client_killed(c)
  BY ZenonT(60), <1>2 DEF IdentityQuiet!attach, IdentityQuiet!lock, IdentityQuiet!Exchange,
    IdentityQuiet!write_request,
              IdentityQuiet!signal, IdentityQuiet!spin, IdentityQuiet!read_answer, IdentityQuiet!clear_ipc,
              IdentityQuiet!unlock, IdentityQuiet!detach, IdentityQuiet!client_killed, IdentityQuiet!Ask,
              IdentityQuiet!Client, IdentityQuiet!Kinds, IdentityQuiet!Nothing, IdentityQuiet!Request,
              IdentityQuiet!daemonVars, IdentityQuiet!nameVars, IdentityQuiet!Started, OwnQuiet!Next,
              OwnQuiet!Started, OwnQuiet!attach, OwnQuiet!lock, OwnQuiet!Exchange, OwnQuiet!write_request,
              OwnQuiet!signal, OwnQuiet!spin, OwnQuiet!read_answer, OwnQuiet!clear_ipc, OwnQuiet!unlock,
              OwnQuiet!detach, OwnQuiet!client_killed, OwnQuiet!Ask, OwnQuiet!Client, OwnQuiet!Kinds,
              OwnQuiet!Nothing, OwnQuiet!Request, OwnQuiet!daemonVars, OwnQuiet!nameVars
<1>3. QED
  BY SMTT(30), <1>1, <1>2 DEF IdentityQuiet!Next

\* So is what is checked.
LEMMA OwnIsOwn == Own!IdentityIsOwn => Identity!IdentityIsOwn
BY DEF Own!IdentityIsOwn, Own!OneExchange, Own!AnswerIsForName, Own!NothingIsLeft, Own!DaemonIsReachable,
         Own!DaemonIsSignalled, Own!Exchanging, Own!Started, Identity!IdentityIsOwn, Identity!OneExchange,
         Identity!AnswerIsForName, Identity!NothingIsLeft, Identity!DaemonIsReachable,
         Identity!DaemonIsSignalled, Identity!Exchanging, Identity!Started

\* So is what is checked of the quiet part.
LEMMA OwnQuietIsOwn == OwnQuiet!IdentityIsOwn => Identity!IdentityIsOwn
BY DEF OwnQuiet!IdentityIsOwn, OwnQuiet!OneExchange, OwnQuiet!AnswerIsForName, OwnQuiet!NothingIsLeft,
         OwnQuiet!DaemonIsReachable, OwnQuiet!DaemonIsSignalled, OwnQuiet!Exchanging, OwnQuiet!Started,
         Identity!IdentityIsOwn, Identity!OneExchange, Identity!AnswerIsForName, Identity!NothingIsLeft,
         Identity!DaemonIsReachable, Identity!DaemonIsSignalled, Identity!Exchanging, Identity!Started

IdentityInv ==
  /\ part # "identity quiet" => Own!IInv
  /\ part = "identity quiet" => OwnQuiet!IInv

\* A behaviour of another part leaves the identity manager as it began.
LEMMA IdentityStep ==
  ASSUME IdentityInv, [MCNext]_allVars
  PROVE  IdentityInv'
<1>0. /\ part # "identity quiet" => Own!IInv
      /\ part = "identity quiet" => OwnQuiet!IInv
  BY ZenonT(60) DEF IdentityInv
<1>1. UNCHANGED part
  BY DEF MCNext, Part, allVars
<1>2. \/ part = "identity" /\ Identity!Next
      \/ part = "identity quiet" /\ IdentityQuiet!Next
      \/ UNCHANGED identityVars
  BY DEF MCNext, Part, allVars
<1>3. CASE part = "identity" /\ Identity!Next
  <2>1. Own!IInv'
    BY <1>0, <1>3, OwnSteps, StartedInTurn, Own!IInvKept
  <2>2. QED
    BY <1>1, <1>3, <2>1 DEF IdentityInv
<1>4. CASE part = "identity quiet" /\ IdentityQuiet!Next
  <2>1. OwnQuiet!IInv'
    BY <1>0, <1>4, OwnQuietSteps, StartedInTurn, OwnQuiet!IInvKept
  <2>2. QED
    BY <1>1, <1>4, <2>1 DEF IdentityInv
<1>5. CASE UNCHANGED identityVars
  <2>1. UNCHANGED Own!vars /\ UNCHANGED OwnQuiet!vars
    BY <1>5 DEF identityVars, Own!vars, Own!nameVars, Own!daemonVars, Own!clientVars, OwnQuiet!vars,
                OwnQuiet!nameVars, OwnQuiet!daemonVars, OwnQuiet!clientVars
  <2>2. Own!IInv => Own!IInv'
    BY <2>1, StartedInTurn, Own!IInvKept
  <2>3. OwnQuiet!IInv => OwnQuiet!IInv'
    BY <2>1, StartedInTurn, OwnQuiet!IInvKept
  <2>4. QED
    BY <1>0, <1>1, <2>2, <2>3 DEF IdentityInv
<1>6. QED
  BY <1>2, <1>3, <1>4, <1>5

\* Among the transports too, for any number of daemons and of clients: a client of
\* the identity manager of lib/IDmgr.c has its daemon alone and is answered what it
\* asked for, whole, no key is left behind, and it is the daemon that is signalled.
THEOREM ClientsGetTheirIdentity == MCSpec => []IdentityIsOwn
<1>1. MCInit => IdentityInv
  <2> SUFFICES ASSUME MCInit PROVE IdentityInv
    OBVIOUS
  <2>1. Identity!Init
    BY DEF MCInit
  <2>2. Own!Init /\ OwnQuiet!Init
    BY <2>1 DEF Identity!Init, Identity!Started, Identity!Empty, Identity!Nothing, Own!Init, Own!Started,
                Own!Empty, Own!Nothing, OwnQuiet!Init, OwnQuiet!Started, OwnQuiet!Empty, OwnQuiet!Nothing
  <2>3. QED
    BY <2>2, StartedInTurn, Own!IInvBegins, OwnQuiet!IInvBegins DEF IdentityInv
<1>2. IdentityInv => IdentityIsOwn
  BY Own!IInvOwns, OwnQuiet!IInvOwns, OwnIsOwn, OwnQuietIsOwn DEF IdentityInv, IdentityIsOwn
<1>3. QED
  BY <1>1, <1>2, IdentityStep, PTL DEF MCSpec

-----------------------------------------------------------------------------
(* The shared page: what XENductProofs shows of it, with the values the    *)
(* two parts have.                                                         *)

Ring == INSTANCE XENductProofs WITH
  Hosts <- XenHosts, Replies <- <<1, 2, 1>>, Length <- <<1, 1, 1>>, Reset <- {3},
  Exclusive <- TRUE, Kills <- TRUE, InitFaults <- TRUE, StubReady <- FALSE

RingQuiet == INSTANCE XENductProofs WITH
  Hosts <- XenHosts, Replies <- <<1, 2, 1>>, Length <- <<1, 1, 1>>, Reset <- {},
  Exclusive <- TRUE, Kills <- FALSE, InitFaults <- FALSE, StubReady <- TRUE

\* One orchestrator at a time is at work, and the reset is the last command.
LEMMA RingsAssume == Ring!OneAtATime /\ RingQuiet!OneAtATime /\ RingQuiet!Undisturbed
<1>1. <<1, 2, 1>> \in Seq(Nat \ {0}) /\ Len(<<1, 2, 1>>) = 3
  OBVIOUS
<1>2. None \notin XenHosts
  BY TransportsAssumption
<1>3. Ring!OneAtATime /\ RingQuiet!OneAtATime
  BY <1>1, <1>2 DEF Ring!OneAtATime, RingQuiet!OneAtATime
<1>4. QED
  BY <1>3 DEF RingQuiet!Undisturbed

\* The steps of the parts are those the proofs are about.
LEMMA RingSteps ==
  ASSUME Xen!Next
  PROVE  Ring!Next
<1>1. CASE \E h \in XenHosts : Xen!Host(h) \/ Xen!kill(h)
  BY SMTT(30), <1>1 DEF Xen!init_connect, Xen!init_grant, Xen!init_channel, Xen!init_pending,
    Xen!init_confirm,
              Xen!init_fails, Xen!send_load, Xen!send_notify, Xen!send_status, Xen!receive,
              Xen!receive_nothing, Xen!receive_acked, Xen!whack, Xen!remove_grant, Xen!remove_channel,
              Xen!whack_notify, Xen!whack_pending, Xen!kill, Xen!Host, Xen!Announce, Xen!Remove,
              Xen!HostStep, Xen!NotifyStub, Xen!Pending, Xen!InReceive, Xen!More, Xen!Empty, Xen!End,
              Xen!Command, Xen!Gone, Xen!AtWork, Xen!MaxReceiveSize, Xen!stubVars, Xen!pageVars,
              Xen!storeVars,
              Ring!Next, Ring!init_connect, Ring!init_grant, Ring!init_channel, Ring!init_pending,
              Ring!init_confirm, Ring!init_fails, Ring!send_load, Ring!send_notify, Ring!send_status,
              Ring!receive, Ring!receive_nothing, Ring!receive_acked, Ring!whack, Ring!remove_grant,
              Ring!remove_channel, Ring!whack_notify, Ring!whack_pending, Ring!kill, Ring!Host,
              Ring!Announce, Ring!Remove, Ring!HostStep, Ring!NotifyStub, Ring!Pending, Ring!InReceive,
              Ring!More, Ring!Empty, Ring!End, Ring!Command, Ring!Gone, Ring!AtWork,
              Ring!MaxReceiveSize, Ring!stubVars, Ring!pageVars, Ring!storeVars
<1>2. CASE Xen!Stub \/ Xen!event_handler
  BY <1>2 DEF Xen!accept_connect, Xen!accept_grant, Xen!accept_channel, Xen!receive_flag,
              Xen!receive_status, Xen!receive_end, Xen!receive_command, Xen!receive_taken, Xen!reset,
              Xen!reply, Xen!reply_notify, Xen!reply_status, Xen!Stub, Xen!event_handler, Xen!StubStep,
              Xen!NotifyHost, Xen!Usable, Xen!Last, Xen!Empty, Xen!End, Xen!Reply, Xen!Gone,
              Xen!hostVars, Xen!pageVars, Xen!storeVars,
              Ring!Next, Ring!accept_connect, Ring!accept_grant, Ring!accept_channel, Ring!receive_flag,
              Ring!receive_status, Ring!receive_end, Ring!receive_command, Ring!receive_taken,
              Ring!reset, Ring!reply, Ring!reply_notify, Ring!reply_status, Ring!Stub,
              Ring!event_handler, Ring!StubStep, Ring!NotifyHost, Ring!Usable, Ring!Last, Ring!Empty,
              Ring!End, Ring!Reply, Ring!Gone, Ring!hostVars, Ring!pageVars, Ring!storeVars
<1>3. QED
  BY SMTT(30), <1>1, <1>2 DEF Xen!Next

\* So are those of the quiet part.
LEMMA RingQuietSteps ==
  ASSUME XenQuiet!Next
  PROVE  RingQuiet!Next
<1>1. CASE \E h \in XenHosts : XenQuiet!Host(h) \/ XenQuiet!kill(h)
  BY SMTT(30), <1>1 DEF XenQuiet!init_connect, XenQuiet!init_grant, XenQuiet!init_channel,
    XenQuiet!init_pending,
              XenQuiet!init_confirm, XenQuiet!init_fails, XenQuiet!send_load, XenQuiet!send_notify,
              XenQuiet!send_status, XenQuiet!receive, XenQuiet!receive_nothing, XenQuiet!receive_acked,
              XenQuiet!whack, XenQuiet!remove_grant, XenQuiet!remove_channel, XenQuiet!whack_notify,
              XenQuiet!whack_pending, XenQuiet!kill, XenQuiet!Host, XenQuiet!Announce, XenQuiet!Remove,
              XenQuiet!HostStep, XenQuiet!NotifyStub, XenQuiet!Pending, XenQuiet!InReceive,
              XenQuiet!More, XenQuiet!Empty, XenQuiet!End, XenQuiet!Command, XenQuiet!Gone,
              XenQuiet!AtWork, XenQuiet!MaxReceiveSize, XenQuiet!stubVars, XenQuiet!pageVars,
              XenQuiet!storeVars,
              RingQuiet!Next, RingQuiet!init_connect, RingQuiet!init_grant, RingQuiet!init_channel,
              RingQuiet!init_pending, RingQuiet!init_confirm, RingQuiet!init_fails, RingQuiet!send_load,
              RingQuiet!send_notify, RingQuiet!send_status, RingQuiet!receive,
              RingQuiet!receive_nothing, RingQuiet!receive_acked, RingQuiet!whack,
              RingQuiet!remove_grant, RingQuiet!remove_channel, RingQuiet!whack_notify,
              RingQuiet!whack_pending, RingQuiet!kill, RingQuiet!Host, RingQuiet!Announce,
              RingQuiet!Remove, RingQuiet!HostStep, RingQuiet!NotifyStub, RingQuiet!Pending,
              RingQuiet!InReceive, RingQuiet!More, RingQuiet!Empty, RingQuiet!End, RingQuiet!Command,
              RingQuiet!Gone, RingQuiet!AtWork, RingQuiet!MaxReceiveSize, RingQuiet!stubVars,
              RingQuiet!pageVars, RingQuiet!storeVars
<1>2. CASE XenQuiet!Stub \/ XenQuiet!event_handler
  BY SMTT(30), <1>2 DEF XenQuiet!accept_connect, XenQuiet!accept_grant, XenQuiet!accept_channel,
              XenQuiet!receive_flag, XenQuiet!receive_status, XenQuiet!receive_end,
              XenQuiet!receive_command, XenQuiet!receive_taken, XenQuiet!reset, XenQuiet!reply,
              XenQuiet!reply_notify, XenQuiet!reply_status, XenQuiet!Stub, XenQuiet!event_handler,
              XenQuiet!StubStep, XenQuiet!NotifyHost, XenQuiet!Usable, XenQuiet!Last, XenQuiet!Empty,
              XenQuiet!End, XenQuiet!Reply, XenQuiet!Gone, XenQuiet!hostVars, XenQuiet!pageVars,
              XenQuiet!storeVars,
              RingQuiet!Next, RingQuiet!accept_connect, RingQuiet!accept_grant,
              RingQuiet!accept_channel, RingQuiet!receive_flag, RingQuiet!receive_status,
              RingQuiet!receive_end, RingQuiet!receive_command, RingQuiet!receive_taken,
              RingQuiet!reset, RingQuiet!reply, RingQuiet!reply_notify, RingQuiet!reply_status,
              RingQuiet!Stub, RingQuiet!event_handler, RingQuiet!StubStep, RingQuiet!NotifyHost,
              RingQuiet!Usable, RingQuiet!Last, RingQuiet!Empty, RingQuiet!End, RingQuiet!Reply,
              RingQuiet!Gone, RingQuiet!hostVars, RingQuiet!pageVars, RingQuiet!storeVars
<1>3. QED
  BY <1>1, <1>2 DEF XenQuiet!Next

\* So is what is checked.
LEMMA RingIsXen ==
  /\ Ring!RepliesAreToCommand => Xen!RepliesAreToCommand
  /\ RingQuiet!RepliesAreToCommand => Xen!RepliesAreToCommand
  /\ Ring!CommandsInOrder => Xen!CommandsInOrder
  /\ RingQuiet!CommandsInOrder => Xen!CommandsInOrder
  /\ RingQuiet!StubStaysUp => Xen!StubStaysUp
BY DEF Ring!RepliesAreToCommand, Ring!CommandsInOrder, Ring!Reply, Ring!Command, Ring!Empty,
       RingQuiet!RepliesAreToCommand, RingQuiet!CommandsInOrder, RingQuiet!StubStaysUp,
       RingQuiet!Reply, RingQuiet!Command, RingQuiet!Empty,
       Xen!RepliesAreToCommand, Xen!CommandsInOrder, Xen!StubStaysUp, Xen!Reply, Xen!Command, Xen!Empty

RingInv ==
  /\ part # "xen quiet" => Ring!IInv
  /\ part = "xen quiet" => RingQuiet!IInv /\ RingQuiet!QuietInv

\* A behaviour of another part leaves the page as it began.
LEMMA RingStep ==
  ASSUME RingInv, [MCNext]_allVars
  PROVE  RingInv'
<1>0. /\ part # "xen quiet" => Ring!IInv
      /\ part = "xen quiet" => RingQuiet!IInv /\ RingQuiet!QuietInv
  BY ZenonT(60) DEF RingInv
<1>1. UNCHANGED part
  BY DEF MCNext, Part, allVars
<1>2. \/ part = "xen" /\ Xen!Next
      \/ part = "xen quiet" /\ XenQuiet!Next
      \/ UNCHANGED xenVars
  BY DEF MCNext, Part, allVars
<1>3. CASE part = "xen" /\ Xen!Next
  <2>1. Ring!IInv'
    BY <1>0, <1>3, RingSteps, RingsAssume, Ring!IInvKept
  <2>2. QED
    BY <1>1, <1>3, <2>1 DEF RingInv
<1>4. CASE part = "xen quiet" /\ XenQuiet!Next
  <2>1. RingQuiet!IInv' /\ RingQuiet!QuietInv'
    BY ZenonT(60), <1>0, <1>4, RingQuietSteps, RingsAssume, RingQuiet!IInvKept, RingQuiet!QuietKept
  <2>2. QED
    BY ZenonT(60), <1>1, <1>4, <2>1 DEF RingInv
<1>5. CASE UNCHANGED xenVars
  <2>1. UNCHANGED Ring!vars /\ UNCHANGED RingQuiet!vars
    BY <1>5 DEF xenVars, Ring!vars, Ring!hostVars, Ring!stubVars, Ring!pageVars, Ring!storeVars,
                RingQuiet!vars, RingQuiet!hostVars, RingQuiet!stubVars, RingQuiet!pageVars,
                RingQuiet!storeVars
  <2>2. Ring!IInv => Ring!IInv'
    BY <2>1, RingsAssume, Ring!IInvKept
  <2>3. RingQuiet!IInv /\ RingQuiet!QuietInv => RingQuiet!IInv' /\ RingQuiet!QuietInv'
    BY <2>1, RingsAssume, RingQuiet!IInvKept, RingQuiet!QuietKept
  <2>4. QED
    BY ZenonT(60), <1>0, <1>1, <2>2, <2>3 DEF RingInv
<1>6. QED
  BY ZenonT(60), <1>2, <1>3, <1>4, <1>5

\* Over the page lib/XENduct.c shares with the stub domain, for any number of
\* orchestrators that are started one after the other, killed whenever, or refused:
\* what one has received is the beginning of the answer to its last command, and the
\* stub domain interprets the commands of a session in order, each once; when no
\* orchestrator is killed and none resets, the stub domain stays up.
THEOREM SharedPageIsInStep == MCSpec => []XenIsInStep
<1>1. MCInit => RingInv
  <2> SUFFICES ASSUME MCInit PROVE RingInv
    OBVIOUS
  <2>1. Xen!Init
    BY DEF MCInit
  <2>2. Ring!Init /\ RingQuiet!Init
    BY <2>1 DEF Xen!Init, Xen!Empty, Ring!Init, Ring!Empty, RingQuiet!Init, RingQuiet!Empty
  <2>3. QED
    BY <2>2, RingsAssume, Ring!IInvBegins, RingQuiet!IInvBegins, RingQuiet!QuietBegins DEF RingInv
<1>2. RingInv => XenIsInStep
  BY ZenonT(60), RingsAssume, Ring!IInvAnswers, RingQuiet!IInvAnswers, RingQuiet!QuietIsUp,
    RingIsXen
     DEF RingInv, XenIsInStep
<1>3. QED
  BY <1>1, <1>2, RingStep, PTL DEF MCSpec

-----------------------------------------------------------------------------
(* The management socket.                                                  *)

USE DuctAssumption DEF ServerStep, ClientStep, TakeMessage, SendEnd, reset, unlink

\* The part of the state the path has to do with.
PathTypes == /\ path \in Servers \cup {None}
             /\ server \in [Servers -> {"new", "bound", "serving", "failing", "ended", "crashed"}]

PathInv == PathTypes /\ OnlyCrashLeavesPath

\* An orchestrator that has bound the path keeps it, if no other one is started.
AloneAtWork == \A s, t \in Servers : AtWork(s) /\ AtWork(t) => s = t

BoundHasPath == \A s \in Servers : server[s] \in {"bound", "serving"} => path = s

AloneInv == PathTypes /\ AloneAtWork /\ BoundHasPath

\* A step of a console leaves the path and the orchestrators alone.
LEMMA ClientsLeavePath ==
  ASSUME NEW c \in Clients, Client(c)
  PROVE  UNCHANGED <<path, server>>
BY DEF Client, Enquire, connect, send_Buffer, receive_answer, ClientCrash

\* How a step of an orchestrator moves the path and its own state.
LEMMA ServersMovePath ==
  ASSUME NEW s \in Servers, Server(s)
  PROVE  \E to \in {"bound", "serving", "failing", "ended", "crashed"} :
           /\ server' = [server EXCEPT ![s] = to]
           /\ \/ /\ init_port(s)
                 /\ server[s] = "new"
                 /\ path = None /\ to = "bound" /\ path' = s
              \/ /\ init_port(s)
                 /\ server[s] = "new"
                 /\ path # None /\ to = "failing" /\ path' = path
              \/ /\ server[s] = "bound" /\ to = "serving" /\ path' = path
              \/ /\ server[s] = "serving" /\ to \in {"serving", "failing", "crashed"}
                 /\ path' = path
              \/ /\ AtWork(s) /\ to = "crashed" /\ path' = path
              \/ to = "ended" /\ path' = None
<1>1. CASE init_port(s)
  BY <1>1 DEF init_port
<1>2. CASE listen(s)
  BY <1>2 DEF listen
<1>3. CASE accept_connection(s)
  BY <1>3 DEF accept_connection
<1>4. CASE receive_command(s)
  BY <1>4 DEF receive_command
<1>5. CASE receive_end(s)
  BY <1>5 DEF receive_end
<1>6. CASE receive_fails(s)
  BY <1>6 DEF receive_fails
<1>7. CASE whack(s)
  BY <1>7 DEF whack
<1>8. CASE ServerCrash(s)
  BY <1>8 DEF ServerCrash, AtWork
<1>9. QED
  BY <1>1, <1>2, <1>3, <1>4, <1>5, <1>6, <1>7, <1>8 DEF Server, Serve

LEMMA PathTypesStep == PathTypes /\ [Next]_vars => PathTypes'
<1> SUFFICES ASSUME PathTypes, [Next]_vars PROVE PathTypes'
  OBVIOUS
<1>1. CASE UNCHANGED vars
  BY <1>1 DEF vars, PathTypes
<1>2. ASSUME NEW c \in Clients, Client(c) PROVE PathTypes'
  BY <1>2, ClientsLeavePath DEF PathTypes
<1>3. ASSUME NEW s \in Servers, Server(s) PROVE PathTypes'
  BY <1>3, ServersMovePath DEF PathTypes
<1>4. QED
  BY <1>1, <1>2, <1>3 DEF Next

LEMMA PathInvStep == PathInv /\ [Next]_vars => PathInv'
<1> SUFFICES ASSUME PathInv, [Next]_vars PROVE OnlyCrashLeavesPath'
  BY PathTypesStep DEF PathInv
<1>1. CASE UNCHANGED vars
  BY <1>1 DEF vars, PathInv, OnlyCrashLeavesPath, AtWork
<1>2. ASSUME NEW c \in Clients, Client(c) PROVE OnlyCrashLeavesPath'
  BY <1>2, ClientsLeavePath DEF PathInv, OnlyCrashLeavesPath, AtWork
<1>3. ASSUME NEW s \in Servers, Server(s) PROVE OnlyCrashLeavesPath'
  BY <1>3, ServersMovePath DEF PathInv, PathTypes, OnlyCrashLeavesPath, AtWork
<1>4. QED
  BY <1>1, <1>2, <1>3 DEF Next

\* An orchestrator that ends leaves no path: of any number of orchestrators and
\* consoles, started and killed in any order, only one that was killed does.
THEOREM PathIsLeftByCrash == Spec => []OnlyCrashLeavesPath
<1>1. Init => PathInv
  BY DEF Init, PathInv, PathTypes, OnlyCrashLeavesPath
<1>2. PathInv => OnlyCrashLeavesPath
  BY DEF PathInv
<1>3. QED
  BY <1>1, <1>2, PathInvStep, PTL DEF Spec

-----------------------------------------------------------------------------
(* Where the path leads.                                                   *)

LEMMA AloneInvStep ==
  ASSUME Exclusive
  PROVE  AloneInv /\ [Next]_vars => AloneInv'
<1> SUFFICES ASSUME AloneInv, [Next]_vars PROVE AloneAtWork' /\ BoundHasPath'
  BY PathTypesStep DEF AloneInv
<1>1. CASE UNCHANGED vars
  BY <1>1 DEF vars, AloneInv, AloneAtWork, BoundHasPath, AtWork
<1>2. ASSUME NEW c \in Clients, Client(c) PROVE AloneAtWork' /\ BoundHasPath'
  BY <1>2, ClientsLeavePath DEF AloneInv, AloneAtWork, BoundHasPath, AtWork
<1>3. ASSUME NEW s \in Servers, Server(s) PROVE AloneAtWork' /\ BoundHasPath'
  <2>1. PICK to \in {"bound", "serving", "failing", "ended", "crashed"} :
          /\ server' = [server EXCEPT ![s] = to]
          /\ \/ /\ init_port(s)
                /\ server[s] = "new"
                /\ path = None /\ to = "bound" /\ path' = s
             \/ /\ init_port(s)
                /\ server[s] = "new"
                /\ path # None /\ to = "failing" /\ path' = path
             \/ /\ server[s] = "bound" /\ to = "serving" /\ path' = path
             \/ /\ server[s] = "serving" /\ to \in {"serving", "failing", "crashed"}
                /\ path' = path
             \/ /\ AtWork(s) /\ to = "crashed" /\ path' = path
             \/ to = "ended" /\ path' = None
    BY <1>3, ServersMovePath
  <2>2. init_port(s) => \A other \in Servers : ~AtWork(other)
    BY DEF init_port
  <2>3. to # "ended" => AloneAtWork' /\ BoundHasPath'
    BY <2>1, <2>2 DEF AloneInv, PathTypes, AloneAtWork, BoundHasPath, AtWork
  <2>4. CASE to = "ended"
    <3>1. AtWork(s)
      BY <1>3, <2>1, <2>4 DEF Server, Serve, init_port, listen, accept_connection,
        receive_command, receive_end, receive_fails, whack, ServerCrash, AtWork,
        AloneInv, PathTypes
    <3>2. QED
      BY <2>1, <2>4, <3>1 DEF AloneInv, PathTypes, AloneAtWork, BoundHasPath, AtWork
  <2>5. QED
    BY <2>3, <2>4
<1>4. QED
  BY <1>1, <1>2, <1>3 DEF Next

\* As long as an orchestrator is started only when none is at work for its
\* cartridge, every one that runs can be reached, after any number of crashes.
THEOREM OneAtATimeIsReachable ==
  ASSUME Exclusive
  PROVE  Spec => []RunningIsReachable
<1>1. Init => AloneInv
  BY DEF Init, AloneInv, PathTypes, AloneAtWork, BoundHasPath, AtWork
<1>2. AloneInv => RunningIsReachable
  BY DEF AloneInv, BoundHasPath, RunningIsReachable
<1>3. QED
  BY <1>1, <1>2, AloneInvStep, PTL DEF Spec

-----------------------------------------------------------------------------
(* The USB port.                                                           *)

\* m bytes of a body of n.
BodyBytes(n, m) == [i \in 1..m |-> [is |-> "body", of |-> n]]

\* The commands of the session that the interpreter has: all, or all but the last.
AllReceived == received = port_sent
AllButLast(n) == n \in PortSizes /\ received \in Seq(PortSizes) /\ port_sent = Append(received, n)

\* The queue begins with the end of a transmission that the firmware waits for.
QueueIs(rest) ==
  events = IF pc \in {"nested", "send"} /\ ~TX_Done /\ tx = "none" THEN <<"tx">> \o rest ELSE rest

\* The firmware has what was sent, and no packet is left to write.
Settled == tx = "none" /\ (pc = "send" => left = 0)

\* It has nothing of a command: it synchronises, or the read of a header is scheduled.
Quiet ==
  /\ pc \in {"accept", "nested", "size", "send"}
  /\ IF pc = "nested" THEN Receive_State = "sync" /\ read = 0
     ELSE Receive_State = "size" /\ read \in {0, PortHeader} /\ Receive_Buffer = <<>>
  /\ pc \in {"size", "send"} => bufr = <<>>

\* Of a body the handler has yet to get Rest bytes, and has asked for Asked of them.
Rest ==
  IF Receive_State = "block" THEN PortBlock + Receive_Blocks * PortBlock + Receive_Residual
  ELSE Receive_Residual
Asked == IF Receive_State = "block" THEN PortBlock ELSE Receive_Residual

InBody(n) ==
  /\ pc \in {"size", "block", "residual"} /\ Receive_State \in {"block", "residual"}
  /\ Receive_Blocks \in Nat /\ Receive_Residual \in Nat
  /\ pc = "size" => bufr = <<>>
  /\ pc = "residual" => Receive_State = "residual"
  /\ bufr = BodyBytes(n, Len(bufr)) /\ Len(bufr) \in Nat /\ Len(bufr) + Rest = n

\* The interpreter has yet to notice that it has all of it.
Whole(n) ==
  /\ pc \in {"block", "residual"} /\ Receive_State = "size" /\ Receive_Buffer = <<>>
  /\ bufr = BodyBytes(n, n)

\* Before the host and the firmware have synchronised.
Opening ==
  /\ Receive_State = "sync" /\ AllReceived
  /\ \/ /\ pc = "accept" /\ port_host = "closed" /\ events = <<>> /\ read = 0 /\ tx = "none"
     \/ /\ port_host = "sync" /\ back = <<>> /\ port_sent = <<>>
        /\ \/ /\ pc = "accept" /\ events = <<"open">> /\ wire = <<Port!NL>> /\ read = 0 /\ tx = "none"
           \/ /\ pc = "accept" /\ events = <<>> /\ wire = <<Port!NL>> /\ read = 1 /\ tx = "none"
              /\ Port_Open /\ ~Port_Close
           \/ /\ pc = "accept" /\ events = <<"rx">> /\ wire = <<>> /\ read = 0 /\ tx = "none"
              /\ Receive_Buffer = <<Port!NL>> /\ Port_Open /\ ~Port_Close
           \/ /\ pc = "nested" /\ events = <<>> /\ wire = <<>> /\ read = 0 /\ tx = "@" /\ ~TX_Done
              /\ Port_Open /\ ~Port_Close

\* From then on: between two commands, ...
Between ==
  /\ Quiet /\ Settled /\ AllReceived
  /\ \/ port_host = "sync" /\ back = <<"@">> /\ wire = <<>> /\ QueueIs(<<>>) /\ port_sent = <<>>
     \/ port_host = "idle" /\ back = <<>> /\ wire = <<>> /\ QueueIs(<<>>)
     \/ port_host = "closed" /\ back = <<>> /\ wire = <<>> /\ QueueIs(<<"close">>)
     \/ /\ port_host = "sync" /\ back = <<>> /\ wire = <<Port!NL>> /\ QueueIs(<<"close", "open">>)
        /\ port_sent = <<>>

\* ... in the middle of one, ...
Commanded(n) ==
  /\ port_host = "wait" /\ back = <<>> /\ port_got = 0 /\ Settled /\ AllButLast(n)
  /\ \/ Quiet /\ QueueIs(<<>>) /\ wire = Port!Header(n) \o BodyBytes(n, n)
     \/ /\ pc \in {"accept", "size", "send"} /\ Receive_State = "size" /\ read = 0
        /\ pc \in {"size", "send"} => bufr = <<>>
        /\ QueueIs(<<"rx">>) /\ Receive_Buffer = Port!Header(n) /\ wire = BodyBytes(n, n)
     \/ /\ InBody(n) /\ events = <<>> /\ Receive_Buffer = <<>> /\ read \in {0, Asked}
        /\ wire = BodyBytes(n, Rest)
     \/ /\ InBody(n) /\ events = <<"rx">> /\ Receive_Buffer = BodyBytes(n, Asked) /\ read = 0
        /\ wire = BodyBytes(n, Rest - Asked)
     \/ Whole(n) /\ events = <<>> /\ read \in {0, PortHeader} /\ wire = <<>>

\* ... and in the middle of its reply, of which all packets are somewhere.
Replied ==
  /\ port_host = "wait" /\ Quiet /\ pc # "nested" /\ wire = <<>> /\ QueueIs(<<>>) /\ AllReceived
  /\ back \in Seq({"piece"}) /\ {port_got, left} \subseteq Nat
  /\ port_got + Len(back) + (IF tx = "none" THEN 0 ELSE 1) + (IF pc = "send" THEN left ELSE 0)
       = PortPieces

Connected ==
  /\ Port_Open /\ ~Port_Close
  /\ tx # "none" => pc = "send" /\ tx = "piece" /\ ~TX_Done
  /\ Between \/ Replied \/ \E n \in PortSizes : Commanded(n)

LiveInv ==
  /\ sessions \in Nat /\ (port_host # "closed" => sessions >= 1)
  /\ TX_Done \in BOOLEAN /\ {port_sent, received} \subseteq Seq(PortSizes)
  /\ Opening \/ Connected

\* When the host has gone for good at most one read is still to be handled.
EventNames == {"open", "close", "rx", "tx"}
NoRead(q) == \A i \in DOMAIN q : q[i] # "rx"
OneRead(q) == \E i \in DOMAIN q : q[i] = "rx" /\ \A j \in DOMAIN q : q[j] = "rx" => j = i

\* Without one no command will be complete.
Incomplete ==
  /\ Receive_State = "sync" => pc \in {"accept", "nested"}
  /\ Receive_State = "size" => pc \in {"accept", "nested", "size", "send"} /\ Receive_Buffer = <<>>
  /\ Receive_State = "block" => pc \in {"nested", "size", "block", "send"}
  /\ Receive_State = "residual" => pc \in {"nested", "size", "block", "residual", "send"}
  /\ Receive_State \in {"sync", "size", "block", "residual"}

Complete == \E n \in PortSizes : AllButLast(n) /\ Whole(n)

\* One is of the line feed, of a header, or of a part of a body.
OfSync == Receive_State = "sync" /\ pc = "accept" /\ Receive_Buffer \in {<<>>, <<Port!NL>>}
OfHeader ==
  /\ Receive_State = "size" /\ pc \in {"accept", "size", "send"}
  /\ \E n \in PortSizes : Receive_Buffer = Port!Header(n)
OfBody ==
  \E n \in PortSizes : AllButLast(n) /\ InBody(n) /\ Receive_Buffer = BodyBytes(n, Asked)

ReadsEnd ==
  \/ NoRead(events) /\ (Incomplete \/ Complete)
  \/ OneRead(events) /\ (OfSync \/ OfHeader \/ OfBody)

GoneInv ==
  /\ port_host = "closed" /\ sessions \in Nat \ {0} /\ wire = <<>> /\ TX_Done \in BOOLEAN
  /\ events \in Seq(EventNames)
  /\ {port_sent, received} \subseteq Seq(PortSizes)
  /\ AllReceived \/ \E n \in PortSizes : AllButLast(n)
  /\ ReadsEnd

PortInv == LiveInv \/ (part = "port gone" /\ GoneInv)
ByteKinds == [is : {"nl", "header", "body"}, of : Nat]

LEMMA PortConstants ==
  /\ PortHeader \in Nat /\ PortHeader >= 2
  /\ PortBlock \in Nat /\ PortBlock >= 1 /\ PortPieces \in Nat /\ PortPieces >= 1
  /\ \A n \in PortSizes : n \in Nat /\ n >= 1
BY TransportsAssumption

\* The beginning and the rest of some bytes of a body.
LEMMA BodyParts ==
  ASSUME NEW n \in PortSizes, NEW a \in Nat, NEW b \in Nat
  PROVE  /\ BodyBytes(n, a) \in Seq(ByteKinds) /\ Len(BodyBytes(n, a)) = a
         /\ a <= b => SubSeq(BodyBytes(n, b), 1, a) = BodyBytes(n, a)
         /\ a <= b => SubSeq(BodyBytes(n, b), a + 1, b) = BodyBytes(n, b - a)
         /\ BodyBytes(n, a) \o BodyBytes(n, b) = BodyBytes(n, a + b)
         /\ BodyBytes(n, 0) = <<>>
         /\ BodyBytes(n, a) = <<>> => a = 0
<1> DEFINE x == [is |-> "body", of |-> n]
<1>1. x \in ByteKinds
  BY PortConstants DEF ByteKinds
<1> HIDE DEF x
<1>2. \A m \in Nat : BodyBytes(n, m) = [i \in 1..m |-> x]
  BY DEF BodyBytes, x
<1>3. \A m \in Nat : /\ [i \in 1..m |-> x] \in Seq(ByteKinds) /\ Len([i \in 1..m |-> x]) = m
                     /\ DOMAIN [i \in 1..m |-> x] = 1..m
  BY <1>1
<1>4. a <= b => SubSeq([i \in 1..b |-> x], 1, a) = [i \in 1..a |-> x]
  <2> SUFFICES ASSUME a <= b PROVE SubSeq([i \in 1..b |-> x], 1, a) = [i \in 1..a |-> x]
    OBVIOUS
  <2>1. \A i \in 1..a : i \in 1..b
    OBVIOUS
  <2>2. SubSeq([i \in 1..b |-> x], 1, a) = [i \in 1..a |-> [j \in 1..b |-> x][i]]
    BY <1>3
  <2>3. QED
    BY <2>1, <2>2
<1>5. a <= b => SubSeq([i \in 1..b |-> x], a + 1, b) = [i \in 1..(b - a) |-> x]
  BY <1>3
<1>6. [i \in 1..a |-> x] \o [i \in 1..b |-> x] = [i \in 1..(a + b) |-> x]
  BY <1>3
<1>7. BodyBytes(n, 0) = <<>>
  BY <1>2, <1>3, EmptySeq
<1>8. BodyBytes(n, a) = <<>> => a = 0
  BY <1>2, <1>3, EmptySeq
<1>9. a <= b => b - a \in Nat
  OBVIOUS
<1>10. a + b \in Nat
  OBVIOUS
<1>11. BodyBytes(n, a) \in Seq(ByteKinds) /\ Len(BodyBytes(n, a)) = a
  BY <1>2, <1>3
<1>12. BodyBytes(n, a) \o BodyBytes(n, b) = BodyBytes(n, a + b)
  BY <1>2, <1>6, <1>10
<1>13. a <= b => SubSeq(BodyBytes(n, b), 1, a) = BodyBytes(n, a)
  BY <1>2, <1>4
<1>14. a <= b => SubSeq(BodyBytes(n, b), a + 1, b) = BodyBytes(n, b - a)
  BY <1>2, <1>5, <1>9
<1>15. QED
  BY <1>7, <1>8, <1>11, <1>12, <1>13, <1>14

\* A header, and the command that follows it.
LEMMA Headers ==
  ASSUME NEW n \in PortSizes
  PROVE  /\ Port!Header(n) \in Seq(ByteKinds) /\ Len(Port!Header(n)) = PortHeader
         /\ Port!SizeIn(Port!Header(n)) = n
         /\ LET c == Port!Header(n) \o BodyBytes(n, n)
            IN  /\ c \in Seq(ByteKinds) /\ Len(c) = PortHeader + n
                /\ SubSeq(c, 1, PortHeader) = Port!Header(n)
                /\ SubSeq(c, PortHeader + 1, Len(c)) = BodyBytes(n, n)
<1> DEFINE h == Port!Header(n)
           y == [is |-> "header", of |-> n]
<1>0. n \in Nat /\ PortHeader \in Nat /\ PortHeader >= 2
  BY PortConstants
<1>1. h = [i \in 1..PortHeader |-> y] /\ y \in ByteKinds /\ y.of = n
  BY <1>0 DEF Port!Header, ByteKinds
<1> HIDE DEF y
<1>2. h \in Seq(ByteKinds) /\ Len(h) = PortHeader /\ Head(h) = y
  <2>1. h \in Seq(ByteKinds) /\ Len(h) = PortHeader
    BY <1>0, <1>1
  <2>2. QED
    BY <1>0, <1>1, <2>1
<1>3. Port!SizeIn(h) = n
  BY <1>1, <1>2 DEF Port!SizeIn
<1> HIDE DEF h
<1>4. BodyBytes(n, n) \in Seq(ByteKinds) /\ Len(BodyBytes(n, n)) = n
  BY <1>0, BodyParts
<1>5. /\ h \o BodyBytes(n, n) \in Seq(ByteKinds) /\ Len(h \o BodyBytes(n, n)) = PortHeader + n
      /\ SubSeq(h \o BodyBytes(n, n), 1, PortHeader) = h
      /\ SubSeq(h \o BodyBytes(n, n), PortHeader + 1, PortHeader + n) = BodyBytes(n, n)
  <2>1. /\ h \o BodyBytes(n, n) \in Seq(ByteKinds) /\ Len(h \o BodyBytes(n, n)) = PortHeader + n
    BY <1>0, <1>2, <1>4, ConcatProperties
  <2>2. SubSeq(h \o BodyBytes(n, n), 1, Len(h)) = h
    BY <1>0, <1>2, <1>4
  <2>3. SubSeq(h \o BodyBytes(n, n), PortHeader + 1, PortHeader + n) = BodyBytes(n, n)
    BY <1>0, <1>2, <1>4
  <2>4. QED
    BY <1>2, <2>1, <2>2, <2>3
<1>6. QED
  BY <1>2, <1>3, <1>5 DEF h

\* Short sequences.
LEMMA ShortSeqs ==
  ASSUME NEW x, NEW y, NEW z
  PROVE  /\ <<x>> \o <<>> = <<x>> /\ <<x>> \o <<y>> = <<x, y>> /\ <<x>> \o <<y, z>> = <<x, y, z>>
         /\ Append(<<x>>, y) = <<x, y>> /\ Append(<<x, y>>, z) = <<x, y, z>>
<1> DEFINE S == {x, y, z}
<1>1. /\ <<x>> \in Seq(S) /\ <<y>> \in Seq(S) /\ <<z>> \in Seq(S)
      /\ <<x, y>> \in Seq(S) /\ <<y, z>> \in Seq(S) /\ <<x, y, z>> \in Seq(S)
      /\ x \in S /\ y \in S /\ z \in S
  OBVIOUS
<1>2. /\ Len(<<x>>) = 1 /\ Len(<<y>>) = 1 /\ Len(<<x, y>>) = 2 /\ Len(<<y, z>>) = 2
      /\ Len(<<x, y, z>>) = 3
  OBVIOUS
<1> HIDE DEF S
<1>3. <<x>> \o <<>> = <<x>>
  BY <1>1, ConcatEmptySeq
<1>4. <<x>> \o <<y>> = <<x, y>>
  <2>1. /\ <<x>> \o <<y>> \in Seq(S) /\ Len(<<x>> \o <<y>>) = 2
        /\ (<<x>> \o <<y>>)[1] = x /\ (<<x>> \o <<y>>)[2] = y
    BY <1>1, <1>2, ConcatProperties
  <2>2. \A i \in 1..2 : (<<x>> \o <<y>>)[i] = <<x, y>>[i]
    BY <2>1
  <2>3. QED
    BY <1>1, <1>2, <2>1, <2>2, SeqEqual
<1>5. <<x>> \o <<y, z>> = <<x, y, z>>
  <2>1. /\ <<x>> \o <<y, z>> \in Seq(S) /\ Len(<<x>> \o <<y, z>>) = 3
        /\ (<<x>> \o <<y, z>>)[1] = x /\ (<<x>> \o <<y, z>>)[2] = y
        /\ (<<x>> \o <<y, z>>)[3] = z
    BY <1>1, <1>2, ConcatProperties
  <2>2. \A i \in 1..3 : (<<x>> \o <<y, z>>)[i] = <<x, y, z>>[i]
    BY <2>1
  <2>3. QED
    BY <1>1, <1>2, <2>1, <2>2, SeqEqual
<1>6. Append(<<x>>, y) = <<x, y>>
  BY <1>1, <1>4, AppendIsConcat
<1>7. Append(<<x, y>>, z) = <<x, y, z>>
  <2>1. /\ Append(<<x, y>>, z) \in Seq(S) /\ Len(Append(<<x, y>>, z)) = 3
        /\ Append(<<x, y>>, z)[1] = x /\ Append(<<x, y>>, z)[2] = y /\ Append(<<x, y>>, z)[3] = z
    BY <1>1, <1>2, AppendProperties
  <2>2. \A i \in 1..3 : Append(<<x, y>>, z)[i] = <<x, y, z>>[i]
    BY SMTT(30), <2>1
  <2>3. QED
    BY ZenonT(60), <1>1, <1>2, <2>1, <2>2, SeqEqual
<1>8. QED
  BY <1>3, <1>4, <1>5, <1>6, <1>7

\* It is as if the end of the transmission were before the rest of it.
LEMMA QueueOf ==
  ASSUME NEW rest \in {<<>>, <<"rx">>, <<"close">>, <<"close", "open">>}, QueueIs(rest)
  PROVE  /\ events = <<>> <=> rest = <<>> /\ ~(pc \in {"nested", "send"} /\ ~TX_Done /\ tx = "none")
         /\ pc \in {"nested", "send"} /\ ~TX_Done /\ tx = "none"
              => /\ events # <<>> /\ Head(events) = "tx" /\ Tail(events) = rest
         /\ ~(pc \in {"nested", "send"} /\ ~TX_Done /\ tx = "none") => events = rest
<1>1. /\ <<"tx">> \o rest # <<>> /\ Head(<<"tx">> \o rest) = "tx"
      /\ Tail(<<"tx">> \o rest) = rest
  <2>1. CASE rest = <<>>
    BY <2>1, ShortSeqs
  <2>2. CASE rest = <<"rx">>
    <3>1. <<"tx">> \o <<"rx">> = <<"tx", "rx">>
      BY ShortSeqs
    <3>2. Head(<<"tx", "rx">>) = "tx" /\ Tail(<<"tx", "rx">>) = <<"rx">> /\ <<"tx", "rx">> # <<>>
      OBVIOUS
    <3>3. QED
      BY <2>2, <3>1, <3>2
  <2>3. CASE rest = <<"close">>
    <3>1. <<"tx">> \o <<"close">> = <<"tx", "close">>
      BY ShortSeqs
    <3>2. Head(<<"tx", "close">>) = "tx" /\ Tail(<<"tx", "close">>) = <<"close">> /\ <<"tx", "close">> # <<>>
      OBVIOUS
    <3>3. QED
      BY <2>3, <3>1, <3>2
  <2>4. CASE rest = <<"close", "open">>
    <3>1. <<"tx">> \o <<"close", "open">> = <<"tx", "close", "open">>
      BY ShortSeqs
    <3>2. Head(<<"tx", "close", "open">>) = "tx" /\ Tail(<<"tx", "close", "open">>) = <<"close", "open">> /\ <<"tx", "close", "open">> # <<>>
      OBVIOUS
    <3>3. QED
      BY <2>4, <3>1, <3>2
  <2>5. QED
    BY <2>1, <2>2, <2>3, <2>4
<1>2. QED
  BY ZenonT(60), <1>1 DEF QueueIs

\* What else can be in the queue.
Rests == {<<>>, <<"rx">>, <<"close">>, <<"close", "open">>}

\* Each step of the host, while it is there, ...
LEMMA LiveHost ==
  ASSUME LiveInv, Port!read_sync \/ Port!host_send \/ Port!host_receive
  PROVE  LiveInv'
<1>0. /\ sessions \in Nat /\ (port_host # "closed" => sessions >= 1)
      /\ TX_Done \in BOOLEAN /\ port_sent \in Seq(PortSizes) /\ received \in Seq(PortSizes)
  BY DEF LiveInv
<1>1. CASE Port!read_sync
  <2>1. /\ Port_Open /\ ~Port_Close /\ (tx # "none" => pc = "send" /\ tx = "piece" /\ ~TX_Done)
        /\ Quiet /\ Settled /\ AllReceived
        /\ back = <<"@">> /\ wire = <<>> /\ QueueIs(<<>>) /\ port_sent = <<>>
    BY <1>1 DEF LiveInv, Opening, Connected, Between, Replied, Commanded, Port!read_sync
  <2>2. /\ port_host' = "idle" /\ back' = <<>>
        /\ UNCHANGED <<sessions, port_sent, wire, events, read, tx, Port_Open, Port_Close, TX_Done,
                       Receive_State, Receive_Buffer, pc, bufr, left, received>>
    BY <1>1, <2>1 DEF Port!read_sync, Port!Firmware, Port!flagVars, Port!stateVars
  <2>3. Quiet' /\ Settled' /\ AllReceived' /\ QueueIs(<<>>)'
    BY <2>1, <2>2 DEF Quiet, Settled, AllReceived, QueueIs
  <2>4. Connected'
    BY <2>1, <2>2, <2>3 DEF Connected, Between
  <2>5. QED
    BY <1>0, <1>1, <2>2, <2>4 DEF LiveInv, Port!read_sync
<1>2. CASE Port!host_send
  <2>1. /\ Port_Open /\ ~Port_Close /\ (tx # "none" => pc = "send" /\ tx = "piece" /\ ~TX_Done)
        /\ Quiet /\ Settled /\ AllReceived
        /\ back = <<>> /\ wire = <<>> /\ QueueIs(<<>>) /\ port_host = "idle"
    BY <1>2 DEF LiveInv, Opening, Connected, Between, Replied, Commanded, Port!host_send
  <2>2. PICK n \in PortSizes : /\ port_sent' = Append(port_sent, n)
                               /\ wire' = wire \o Port!Header(n) \o Port!Body(n)
    BY <1>2 DEF Port!host_send
  <2>3. /\ port_host' = "wait" /\ port_got' = 0
        /\ UNCHANGED <<sessions, back, events, read, tx, Port_Open, Port_Close, TX_Done,
                       Receive_State, Receive_Buffer, pc, bufr, left, received>>
    BY <1>2 DEF Port!host_send, Port!Firmware, Port!flagVars, Port!stateVars
  <2>4. wire' = Port!Header(n) \o BodyBytes(n, n)
    <3>1. <<>> \o Port!Header(n) = Port!Header(n)
      BY Headers, ConcatEmptySeq
    <3>2. Port!Body(n) = BodyBytes(n, n)
      BY DEF Port!Body, BodyBytes
    <3>3. QED
      BY <2>1, <2>2, <3>1, <3>2
  <2>5. Quiet' /\ Settled' /\ QueueIs(<<>>)'
    BY <2>1, <2>3 DEF Quiet, Settled, QueueIs
  <2>6. AllButLast(n)' /\ port_sent' \in Seq(PortSizes)
    BY <1>0, <2>1, <2>2, <2>3, AppendProperties DEF AllButLast, AllReceived
  <2>7. Commanded(n)'
    BY <2>1, <2>3, <2>4, <2>5, <2>6 DEF Commanded
  <2>8. Connected'
    BY <2>1, <2>3, <2>7 DEF Connected
  <2>9. QED
    BY <1>0, <2>1, <2>3, <2>6, <2>8 DEF LiveInv
<1>3. CASE Port!host_receive
  <2>1. /\ Port_Open /\ ~Port_Close /\ (tx # "none" => pc = "send" /\ tx = "piece" /\ ~TX_Done)
        /\ Replied /\ port_host = "wait"
    BY <1>3 DEF LiveInv, Opening, Connected, Between, Commanded, Port!host_receive
  <2>2. /\ back # <<>> /\ back' = Tail(back) /\ port_got' = port_got + 1
        /\ port_host' = IF port_got + 1 = PortPieces THEN "idle" ELSE "wait"
        /\ UNCHANGED <<sessions, port_sent, wire, events, read, tx, Port_Open, Port_Close, TX_Done,
                       Receive_State, Receive_Buffer, pc, bufr, left, received>>
    BY <1>3 DEF Port!host_receive, Port!Firmware, Port!flagVars, Port!stateVars
  <2>3. /\ back' \in Seq({"piece"}) /\ Len(back') = Len(back) - 1 /\ Len(back) \in Nat \ {0}
        /\ Len(back') = 0 => back' = <<>>
    BY <2>1, <2>2, HeadTailProperties, EmptySeq DEF Replied
  <2>4. Quiet' /\ AllReceived' /\ QueueIs(<<>>)' /\ pc # "nested" /\ wire' = <<>>
    BY <2>1, <2>2 DEF Replied, Quiet, AllReceived, QueueIs
  <2>5. CASE port_got + 1 = PortPieces
    <3>1. Len(back') = 0 /\ Settled'
      BY <2>1, <2>2, <2>3, <2>5, PortConstants DEF Replied, Settled
    <3>2. Connected'
      BY <2>1, <2>2, <2>3, <2>4, <2>5, <3>1 DEF Connected, Between
    <3>3. QED
      BY <1>0, <2>1, <2>2, <3>2 DEF LiveInv
  <2>6. CASE port_got + 1 # PortPieces
    <3>1. Replied'
      <4> DEFINE a == IF tx = "none" THEN 0 ELSE 1
                 b == IF pc = "send" THEN left ELSE 0
      <4>1. /\ port_got \in Nat /\ left \in Nat /\ Len(back) \in Nat /\ a \in Nat /\ b \in Nat
            /\ port_got + Len(back) + a + b = PortPieces
        BY <2>1, <2>3 DEF Replied
      <4>2. a' = a /\ b' = b /\ left' = left
        BY <2>2
      <4> HIDE DEF a, b
      <4>3. port_got' + Len(back') + a' + b' = PortPieces /\ {port_got', left'} \subseteq Nat
        BY <2>2, <2>3, <4>1, <4>2
      <4>4. QED
        BY <2>2, <2>3, <2>4, <2>6, <4>3 DEF Replied, a, b
    <3>2. Connected'
      BY <2>1, <2>2, <3>1 DEF Connected
    <3>3. QED
      BY <1>0, <2>1, <2>2, <3>2 DEF LiveInv
  <2>7. QED
    BY <2>5, <2>6
<1>4. QED
  BY <1>1, <1>2, <1>3

LEMMA ReadType == LiveInv => read \in Nat
BY PortConstants DEF LiveInv, Opening, Connected, Between, Replied, Commanded, Quiet, InBody, Whole, Asked

\* ... of the USB library ...
LEMMA LiveRead ==
  ASSUME LiveInv, Port!usb_read
  PROVE  LiveInv'
<1>0. /\ sessions \in Nat /\ (port_host # "closed" => sessions >= 1)
      /\ TX_Done \in BOOLEAN /\ port_sent \in Seq(PortSizes) /\ received \in Seq(PortSizes)
  BY DEF LiveInv
<1>1. /\ port_host # "closed" /\ read > 0 /\ Len(wire) >= read
      /\ Receive_Buffer' = SubSeq(wire, 1, read) /\ wire' = SubSeq(wire, read + 1, Len(wire))
      /\ read' = 0 /\ events' = Append(events, "rx")
      /\ UNCHANGED <<port_host, sessions, port_sent, port_got, back, tx, Port_Open, Port_Close,
                     Have_Read, TX_Done, Receive_State, Receive_Blocks, Receive_Residual,
                     Input_Buffer, pc, bufr, left, received>>
  BY DEF Port!usb_read, Port!hostVars, Port!flagVars, Port!mainVars
<1>2. Len(<<>>) = 0 /\ Append(<<>>, "rx") = <<"rx">>
  BY EmptySeq
<1>3. CASE Opening
  <2>1. /\ Receive_State = "sync" /\ AllReceived /\ port_host = "sync" /\ back = <<>>
        /\ port_sent = <<>> /\ pc = "accept" /\ events = <<>> /\ wire = <<Port!NL>> /\ read = 1
        /\ tx = "none" /\ Port_Open /\ ~Port_Close
    BY <1>1, <1>3 DEF Opening
  <2>2. /\ SubSeq(<<Port!NL>>, 1, 1) = <<Port!NL>> /\ SubSeq(<<Port!NL>>, 2, 1) = <<>>
        /\ Len(<<Port!NL>>) = 1
    <3>1. <<Port!NL>> \in Seq({Port!NL}) /\ Len(<<Port!NL>>) = 1
      OBVIOUS
    <3>2. SubSeq(<<Port!NL>>, 1, Len(<<Port!NL>>)) = <<Port!NL>>
      BY <3>1, SubSeqFull
    <3>3. SubSeq(<<Port!NL>>, 2, 1) = <<>>
      BY SubSeqEmpty
    <3>4. QED
      BY <3>1, <3>2, <3>3
  <2>3. Opening'
    BY <1>1, <1>2, <2>1, <2>2 DEF Opening, AllReceived
  <2>4. QED
    BY <1>0, <1>1, <2>3 DEF LiveInv
<1>4. ASSUME NEW n \in PortSizes, Connected, Commanded(n) PROVE LiveInv'
  <2>1. /\ port_host = "wait" /\ back = <<>> /\ port_got = 0 /\ Settled /\ AllButLast(n)
        /\ Port_Open /\ ~Port_Close /\ tx = "none" /\ n \in Nat
    BY <1>4, PortConstants DEF Commanded, Connected, Settled
  <2>2. Settled' /\ AllButLast(n)'
    BY <1>1, <2>1 DEF Settled, AllButLast
  <2>3. CASE Quiet /\ QueueIs(<<>>) /\ wire = Port!Header(n) \o BodyBytes(n, n)
    <3>1. pc \in {"accept", "size", "send"} /\ Receive_State = "size" /\ read = PortHeader
          /\ (pc \in {"size", "send"} => bufr = <<>>)
      BY <1>1, <2>3 DEF Quiet
    <3>2. Receive_Buffer' = Port!Header(n) /\ wire' = BodyBytes(n, n)
      BY <1>1, <2>3, <3>1, Headers
    <3>3. QueueIs(<<"rx">>)'
      <4>1. Append(<<"tx">> \o <<>>, "rx") = <<"tx">> \o <<"rx">>
        <5>1. Append(<<"tx">>, "rx") = <<"tx", "rx">>
          BY ShortSeqs
        <5>2. <<"tx">> \o <<"rx">> = <<"tx", "rx">>
          BY ShortSeqs
        <5>3. <<"tx">> \o <<>> = <<"tx">>
          BY ShortSeqs
        <5>4. QED
          BY <5>1, <5>2, <5>3
      <4>2. QED
        BY <1>1, <1>2, <2>3, <4>1 DEF QueueIs
    <3>4. Commanded(n)'
      BY <1>1, <2>1, <2>2, <3>1, <3>2, <3>3 DEF Commanded
    <3>5. QED
      BY <1>0, <1>1, <2>1, <3>4 DEF LiveInv, Connected
  <2>4. CASE /\ InBody(n) /\ events = <<>> /\ Receive_Buffer = <<>> /\ read \in {0, Asked}
             /\ wire = BodyBytes(n, Rest)
    <3>1. read = Asked /\ Rest \in Nat /\ Asked \in Nat /\ Rest >= Asked
      BY SMTT(30), <1>1, <2>4, PortConstants DEF InBody, Rest, Asked
    <3>2. Receive_Buffer' = BodyBytes(n, Asked) /\ wire' = BodyBytes(n, Rest - Asked)
      <4>1. Len(wire) = Rest
        BY <2>4, <3>1, BodyParts
      <4>2. QED
        <5>1. /\ SubSeq(BodyBytes(n, Rest), 1, Asked) = BodyBytes(n, Asked)
              /\ SubSeq(BodyBytes(n, Rest), Asked + 1, Rest) = BodyBytes(n, Rest - Asked)
          BY ZenonT(60), <3>1, BodyParts
        <5>2. QED
          BY <1>1, <2>4, <3>1, <4>1, <5>1
    <3>3. Asked' = Asked /\ Rest' = Rest /\ InBody(n)'
      BY <1>1, <2>4 DEF Asked, Rest, InBody
    <3>4. Commanded(n)'
      BY <1>1, <1>2, <2>1, <2>2, <2>4, <3>2, <3>3 DEF Commanded
    <3>5. QED
      BY <1>0, <1>1, <2>1, <3>4 DEF LiveInv, Connected
  <2>5. CASE wire = <<>> \/ read = 0
    BY <1>1, <1>2, <2>5, ReadType
  <2>6. QED
    BY <1>4, <2>3, <2>4, <2>5 DEF Commanded
<1>5. CASE Between \/ Replied
  <2>1. wire = <<>> \/ (wire = <<Port!NL>> /\ read \in {0, PortHeader})
    BY <1>5 DEF Between, Replied, Quiet
  <2>2. Len(<<Port!NL>>) = 1
    OBVIOUS
  <2>3. QED
    BY SMTT(30), <1>1, <1>2, <2>1, <2>2, PortConstants, ReadType
<1>6. QED
  BY <1>3, <1>4, <1>5 DEF LiveInv, Connected

LEMMA LiveWrite ==
  ASSUME LiveInv, Port!usb_write \/ Port!usb_write_late
  PROVE  LiveInv'
<1>0. /\ sessions \in Nat /\ (port_host # "closed" => sessions >= 1)
      /\ TX_Done \in BOOLEAN /\ port_sent \in Seq(PortSizes) /\ received \in Seq(PortSizes)
  BY DEF LiveInv
<1>1. port_host # "closed" /\ Port!usb_write
  BY DEF Port!usb_write, Port!usb_write_late, LiveInv, Opening, Connected, Between, Replied, Commanded,
         Settled
<1>2. /\ tx # "none" /\ back' = Append(back, tx) /\ tx' = "none" /\ events' = Append(events, "tx")
      /\ UNCHANGED <<port_host, sessions, port_sent, port_got, wire, read, Port_Open, Port_Close,
                     Have_Read, TX_Done, Receive_State, Receive_Blocks, Receive_Residual,
                     Receive_Buffer, Input_Buffer, pc, bufr, left, received>>
  BY <1>1 DEF Port!usb_write, Port!hostVars, Port!flagVars, Port!mainVars, Port!stateVars
<1>3. Append(<<>>, "tx") = <<"tx">> \o <<>> /\ Append(<<>>, "@") = <<"@">>
  BY ShortSeqs
<1>4. CASE Opening
  <2>1. /\ Receive_State = "sync" /\ AllReceived /\ port_host = "sync" /\ back = <<>>
        /\ port_sent = <<>> /\ pc = "nested" /\ events = <<>> /\ wire = <<>> /\ read = 0
        /\ tx = "@" /\ Port_Open /\ ~Port_Close /\ ~TX_Done
    BY <1>2, <1>4 DEF Opening
  <2>2. QueueIs(<<>>)'
    BY <1>2, <1>3, <2>1 DEF QueueIs
  <2>3. Between'
    BY <1>2, <1>3, <2>1, <2>2 DEF Between, Quiet, Settled, AllReceived
  <2>4. QED
    BY <1>0, <1>2, <2>1, <2>3 DEF LiveInv, Connected
<1>5. CASE Connected
  <2>1. /\ Replied /\ Port_Open /\ ~Port_Close /\ pc = "send" /\ tx = "piece" /\ ~TX_Done
        /\ events = <<>> /\ port_host = "wait"
    BY <1>2, <1>5 DEF Connected, Between, Commanded, Settled, Replied, QueueIs
  <2>2. QueueIs(<<>>)'
    BY <1>2, <1>3, <2>1 DEF QueueIs
  <2>3. back' \in Seq({"piece"}) /\ Len(back') = Len(back) + 1 /\ Len(back) \in Nat
    BY <1>2, <2>1, AppendProperties, LenProperties DEF Replied
  <2>4. Quiet' /\ AllReceived'
    BY <1>2, <2>1 DEF Replied, Quiet, AllReceived
  <2>5. Replied'
    BY <1>2, <2>1, <2>2, <2>3, <2>4, PortConstants DEF Replied
  <2>6. QED
    BY <1>0, <1>2, <2>1, <2>5 DEF LiveInv, Connected
<1>6. QED
  BY <1>4, <1>5 DEF LiveInv

\* ... and of the firmware.  The end of a transmission is handled where it is waited for.
LEMMA LiveTransmitted ==
  ASSUME LiveInv, Port!nested_event \/ Port!send_event
  PROVE  LiveInv'
<1>0. /\ sessions \in Nat /\ (port_host # "closed" => sessions >= 1)
      /\ TX_Done \in BOOLEAN /\ port_sent \in Seq(PortSizes) /\ received \in Seq(PortSizes)
  BY DEF LiveInv
<1>1. /\ pc \in {"nested", "send"} /\ ~TX_Done /\ events # <<>>
      /\ Port!Handled \/ Port!receive_sync
      /\ UNCHANGED <<port_host, sessions, port_sent, port_got, pc, bufr, left, received>>
  BY DEF Port!nested_event, Port!send_event, Port!Handled, Port!receive_sync, Port!port_open,
         Port!port_close, Port!tx_done, Port!receive_handler, Port!Event, Port!Stay, Port!hostVars,
         Port!mainVars
<1>2. Connected
  BY <1>1 DEF LiveInv, Opening
<1>3. PICK rest \in Rests : QueueIs(rest)
  BY <1>1, <1>2 DEF Connected, Between, Replied, Commanded, InBody, Whole, Rests
<1>4. tx = "none"
  BY <1>1, <1>2 DEF Connected, Between, Replied, Commanded, Settled, QueueIs
<1>5. Head(events) = "tx" /\ Tail(events) = rest
  BY <1>1, <1>3, <1>4, QueueOf DEF Rests
<1>6. /\ TX_Done' /\ TX_Done' \in BOOLEAN /\ events' = Tail(events)
      /\ UNCHANGED <<wire, back, read, tx, Port_Open, Port_Close, Have_Read, Receive_State,
                     Receive_Blocks, Receive_Residual, Receive_Buffer, Input_Buffer>>
  BY <1>1, <1>5 DEF Port!Handled, Port!receive_sync, Port!port_open, Port!port_close, Port!tx_done,
                    Port!receive_handler, Port!Event, Port!stateVars
<1>7. \A r \in Rests : QueueIs(r) => QueueIs(r)'
  <2> SUFFICES ASSUME NEW r \in Rests, QueueIs(r) PROVE QueueIs(r)'
    OBVIOUS
  <2>1. Tail(events) = r
    BY <1>1, <1>4, QueueOf DEF Rests
  <2>2. QED
    BY <1>6, <2>1 DEF QueueIs
<1>8. (Quiet => Quiet') /\ (Settled => Settled') /\ (AllReceived => AllReceived')
      /\ \A n \in PortSizes : AllButLast(n) => AllButLast(n)'
  BY <1>1, <1>6 DEF Quiet, Settled, AllReceived, AllButLast
<1>9. QueueIs(<<>>) => QueueIs(<<>>)'
  BY <1>7 DEF Rests
<1>10. CASE Between
  BY <1>0, <1>1, <1>2, <1>4, <1>6, <1>7, <1>8, <1>10 DEF LiveInv, Connected, Between, Rests
<1>11. CASE Replied
  <2>1. Replied'
    BY <1>1, <1>6, <1>8, <1>9, <1>11 DEF Replied
  <2>2. QED
    BY <1>0, <1>1, <1>2, <1>4, <1>6, <2>1 DEF LiveInv, Connected
<1>12. ASSUME NEW n \in PortSizes, Commanded(n) PROVE LiveInv'
  <2>1. /\ port_host = "wait" /\ back = <<>> /\ port_got = 0 /\ Settled /\ AllButLast(n)
        /\ \/ Quiet /\ QueueIs(<<>>) /\ wire = Port!Header(n) \o BodyBytes(n, n)
           \/ /\ pc \in {"accept", "size", "send"} /\ Receive_State = "size" /\ read = 0
              /\ pc \in {"size", "send"} => bufr = <<>>
              /\ QueueIs(<<"rx">>) /\ Receive_Buffer = Port!Header(n) /\ wire = BodyBytes(n, n)
    BY <1>1, <1>12 DEF Commanded, InBody, Whole
  <2>2. QueueIs(<<"rx">>) => QueueIs(<<"rx">>)'
    BY <1>7 DEF Rests
  <2>3. Commanded(n)'
    BY <1>1, <1>6, <1>8, <1>9, <2>1, <2>2 DEF Commanded
  <2>4. QED
    BY <1>0, <1>1, <1>2, <1>4, <1>6, <2>3 DEF LiveInv, Connected
<1>13. QED
  BY <1>2, <1>10, <1>11, <1>12 DEF Connected

\* The loops that accept a host.
LEMMA LiveAccept ==
  ASSUME LiveInv, Port!accept_event \/ Port!accept_sync \/ Port!nested_done \/ Port!accept_open
  PROVE  LiveInv'
<1>0. /\ sessions \in Nat /\ (port_host # "closed" => sessions >= 1)
      /\ TX_Done \in BOOLEAN /\ port_sent \in Seq(PortSizes) /\ received \in Seq(PortSizes)
  BY DEF LiveInv
<1>1. CASE Port!accept_event \/ Port!accept_sync
  <2>1. /\ pc = "accept" /\ Receive_State = "sync" /\ events # <<>>
        /\ UNCHANGED <<port_host, sessions, port_sent, port_got, bufr, left, received>>
    BY <1>1 DEF Port!accept_event, Port!accept_sync, Port!Handled, Port!receive_sync, Port!port_open,
           Port!port_close, Port!tx_done, Port!receive_handler, Port!Event, Port!Stay, Port!hostVars,
           Port!mainVars
  <2>2. Opening
    BY <2>1 DEF LiveInv, Connected, Between, Replied, Commanded, Quiet, InBody, Whole
  <2>3. Head(<<"open">>) = "open" /\ Tail(<<"open">>) = <<>> /\ Head(<<"rx">>) = "rx" /\ Tail(<<"rx">>) = <<>>
    OBVIOUS
  <2>4. CASE events = <<"open">>
    <3>1. Port!port_open /\ UNCHANGED pc
      BY <1>1, <2>3, <2>4 DEF Port!accept_event, Port!accept_sync, Port!Handled, Port!receive_sync,
             Port!port_close, Port!tx_done, Port!receive_handler, Port!Event, Port!Stay, Port!mainVars
    <3>2. Opening'
      BY <2>1, <2>2, <2>3, <2>4, <3>1 DEF Opening, AllReceived, Port!port_open, Port!Event,
             Port!stateVars
    <3>3. QED
      BY <1>0, <2>1, <3>1, <3>2 DEF LiveInv, Port!port_open
  <2>5. CASE events = <<"rx">>
    <3>1. /\ port_host = "sync" /\ back = <<>> /\ port_sent = <<>> /\ wire = <<>> /\ read = 0
          /\ tx = "none" /\ Receive_Buffer = <<Port!NL>> /\ Port_Open /\ ~Port_Close /\ AllReceived
      BY <2>1, <2>2, <2>3, <2>5 DEF Opening
    <3>2. Port!receive_sync /\ pc' = "nested"
      BY <1>1, <2>1, <2>3, <2>5, <3>1 DEF Port!accept_event, Port!accept_sync, Port!Handled, Port!port_open,
             Port!port_close, Port!tx_done, Port!receive_handler, Port!Event
    <3>3. Opening'
      BY <2>1, <2>3, <2>5, <3>1, <3>2 DEF Opening, AllReceived, Port!receive_sync, Port!Event, Port!Write
    <3>4. QED
      BY <1>0, <2>1, <3>2, <3>3 DEF LiveInv, Port!receive_sync
  <2>6. QED
    BY <2>1, <2>2, <2>4, <2>5 DEF Opening
<1>2. CASE Port!nested_done
  <2>1. /\ pc = "nested" /\ TX_Done /\ pc' = "accept" /\ Receive_State' = "size"
        /\ Receive_Buffer' = <<>> /\ read' = (IF read = 0 /\ Port_Open THEN PortHeader ELSE read)
        /\ UNCHANGED <<port_host, sessions, port_sent, port_got, wire, back, events, tx, Port_Open,
                       Port_Close, Have_Read, TX_Done, Receive_Blocks, Receive_Residual,
                       Input_Buffer, bufr, left, received>>
    BY <1>2 DEF Port!nested_done, Port!Read, Port!hostVars, Port!flagVars
  <2>2. Connected /\ Quiet
    BY <2>1 DEF LiveInv, Opening, Connected, Between, Replied, Commanded, InBody, Whole
  <2>3. Quiet'
    BY <2>1, <2>2 DEF Quiet
  <2>4. \A r \in Rests : QueueIs(r) => QueueIs(r)'
    BY <2>1 DEF QueueIs
  <2>5. (Settled => Settled') /\ (AllReceived => AllReceived')
        /\ \A n \in PortSizes : AllButLast(n) => AllButLast(n)'
    BY <2>1 DEF Settled, AllReceived, AllButLast
  <2>6. CASE Between
    BY <1>0, <2>1, <2>2, <2>3, <2>4, <2>5, <2>6 DEF LiveInv, Connected, Between, Rests
  <2>7. ASSUME NEW n \in PortSizes, Commanded(n) PROVE LiveInv'
    <3>1. Commanded(n)'
      BY <2>1, <2>3, <2>4, <2>5, <2>7 DEF Commanded, InBody, Whole, Rests
    <3>2. QED
      BY <1>0, <2>1, <2>2, <3>1 DEF LiveInv, Connected
  <2>8. QED
    BY <2>1, <2>2, <2>6, <2>7 DEF Connected, Replied
<1>3. CASE Port!accept_open
  <2>1. /\ pc = "accept" /\ Receive_State # "sync" /\ pc' = "size" /\ bufr' = <<>>
        /\ UNCHANGED <<port_host, sessions, port_sent, port_got, wire, back, events, read, tx,
                       Port_Open, Port_Close, Have_Read, TX_Done, Receive_State, Receive_Blocks,
                       Receive_Residual, Receive_Buffer, Input_Buffer, left, received>>
    BY <1>3 DEF Port!accept_open, Port!hostVars, Port!usbVars, Port!flagVars, Port!stateVars
  <2>2. Connected
    BY <2>1 DEF LiveInv, Opening
  <2>3. Quiet => Quiet'
    BY <2>1 DEF Quiet
  <2>4. \A r \in Rests : QueueIs(r) => QueueIs(r)'
    BY <2>1 DEF QueueIs
  <2>5. (Settled => Settled') /\ (AllReceived => AllReceived')
        /\ \A n \in PortSizes : AllButLast(n) => AllButLast(n)'
    BY <2>1 DEF Settled, AllReceived, AllButLast
  <2>6. CASE Between
    BY <1>0, <2>1, <2>2, <2>3, <2>4, <2>5, <2>6 DEF LiveInv, Connected, Between, Rests
  <2>7. ASSUME NEW n \in PortSizes, Commanded(n) PROVE LiveInv'
    <3>1. Commanded(n)'
      BY <2>1, <2>3, <2>4, <2>5, <2>7 DEF Commanded, InBody, Whole, Rests
    <3>2. QED
      BY <1>0, <2>1, <2>2, <3>1 DEF LiveInv, Connected
  <2>8. CASE Replied
    <3>1. Replied'
      BY <2>1, <2>3, <2>4, <2>5, <2>8 DEF Replied, Rests
    <3>2. QED
      BY <1>0, <2>1, <2>2, <3>1 DEF LiveInv, Connected
  <2>9. QED
    BY <2>2, <2>6, <2>7, <2>8 DEF Connected
<1>4. QED
  BY <1>1, <1>2, <1>3

\* The port is closed while the interpreter waits for a header.
LEMMA LiveClosed ==
  ASSUME LiveInv, Port!receive_closed
  PROVE  LiveInv'
<1>1. /\ pc \in {"size", "block", "residual"} /\ Receive_State = pc /\ events # <<>> /\ Port!Closes
      /\ events' = Tail(events) /\ Port_Close' = TRUE /\ Port_Open' = FALSE
      /\ TX_Done' = (TX_Done \/ Head(events) = "tx")
      /\ IF Head(events) = "close" THEN read' = 0 /\ tx' \in {tx, "none"} ELSE UNCHANGED <<read, tx>>
      /\ Receive_State' = "sync" /\ pc' = "accept"
      /\ UNCHANGED <<port_host, sessions, port_sent, port_got, wire, back, bufr, left, received>>
  BY DEF Port!receive_closed, Port!hostVars
<1>2. Connected
  BY <1>1 DEF LiveInv, Opening
<1>3. Head(events) = "close"
  BY <1>1, <1>2 DEF Connected, Port!Closes
<1>4. Head(<<"rx">>) = "rx" /\ Tail(<<"close">>) = <<>> /\ Tail(<<"close", "open">>) = <<"open">>
  OBVIOUS
<1>5. /\ Between /\ events \in {<<"close">>, <<"close", "open">>}
  BY <1>1, <1>2, <1>3, <1>4 DEF Connected, Between, Replied, Commanded, QueueIs
<1>6. Opening'
  BY <1>1, <1>3, <1>4, <1>5 DEF Opening, Between, Settled, AllReceived, QueueIs
<1>7. QED
  BY <1>1, <1>6 DEF LiveInv

\* The parts of a size.
LEMMA DivMod ==
  ASSUME NEW n \in PortSizes
  PROVE  /\ n \div PortBlock \in Nat /\ n % PortBlock \in Nat
         /\ n = (n \div PortBlock) * PortBlock + (n % PortBlock)
<1>1. n \in Nat /\ PortBlock \in Nat /\ PortBlock >= 1
  BY PortConstants
<1>2. n \div PortBlock \in Nat /\ n % PortBlock \in Nat
  BY <1>1
<1>3. n = PortBlock * (n \div PortBlock) + (n % PortBlock)
  BY <1>1
<1>4. QED
  BY <1>1, <1>2, <1>3

\* What was read of a body is put after what there is of it; then it is whole, or goes on.
LEMMA BodyGoesOn ==
  ASSUME NEW n \in PortSizes, InBody(n), Receive_Buffer = BodyBytes(n, Asked), Receive_State = pc,
         pc' = pc, bufr' = bufr \o Receive_Buffer,
         Receive_State' = Port!After.state, Receive_Blocks' = Port!After.blocks,
         Receive_Residual' = Port!After.residual
  PROVE  /\ Rest \in Nat /\ Asked \in Nat /\ Asked <= Rest
         /\ \/ /\ Receive_State' = "size" /\ Port!After.request = PortHeader
               /\ Rest = Asked /\ bufr' = BodyBytes(n, n)
            \/ InBody(n)' /\ Rest' = Rest - Asked /\ Port!After.request = Asked'
<1>0. n \in Nat /\ PortBlock \in Nat /\ PortBlock >= 1
  BY PortConstants
<1>1. /\ Len(bufr) \in Nat /\ bufr = BodyBytes(n, Len(bufr)) /\ Len(bufr) + Rest = n
      /\ Receive_Blocks \in Nat /\ Receive_Residual \in Nat
      /\ Receive_State \in {"block", "residual"} /\ pc \in {"block", "residual"}
  BY DEF InBody
<1>2. Receive_Blocks * PortBlock \in Nat
  BY <1>0, <1>1
<1>3. Asked \in Nat /\ Rest \in Nat /\ Asked <= Rest
  <2>1. CASE Receive_State = "block"
    <3>1. Asked = PortBlock /\ Rest = PortBlock + Receive_Blocks * PortBlock + Receive_Residual
      BY <2>1 DEF Rest, Asked
    <3>2. Receive_Residual \in Nat
      BY <1>1
    <3>3. QED
      BY <1>0, <1>2, <3>1, <3>2
  <2>2. CASE Receive_State = "residual"
    BY <1>1, <2>2 DEF Rest, Asked
  <2>3. QED
    BY <1>1, <2>1, <2>2
<1>4. bufr' = BodyBytes(n, Len(bufr) + Asked) /\ Len(bufr') = Len(bufr) + Asked
  <2>1. BodyBytes(n, Len(bufr)) \o BodyBytes(n, Asked) = BodyBytes(n, Len(bufr) + Asked)
    BY ZenonT(60), <1>1, <1>3, BodyParts
  <2>2. Len(bufr) + Asked \in Nat
    BY <1>1, <1>3
  <2>3. Len(BodyBytes(n, Len(bufr) + Asked)) = Len(bufr) + Asked
    BY <2>2, BodyParts
  <2>4. QED
    BY <1>1, <2>1, <2>3
<1>5. ASSUME Rest = Asked PROVE bufr' = BodyBytes(n, n)
  <2>1. Len(bufr) + Asked = n
    BY <1>1, <1>5
  <2>2. QED
    BY <1>4, <2>1
<1>6. ASSUME Receive_State' \in {"block", "residual"}, Receive_Blocks' \in Nat,
             Receive_Residual' \in Nat, Rest' = Rest - Asked,
             pc = "residual" => Receive_State' = "residual"
      PROVE  InBody(n)'
  <2>1. Len(bufr') \in Nat /\ Len(bufr') + Rest' = n /\ bufr' = BodyBytes(n, Len(bufr'))
    BY <1>1, <1>3, <1>4, <1>6
  <2>2. QED
    BY <1>1, <1>6, <2>1 DEF InBody
<1>7. CASE Receive_State = "residual"
  <2>1. Receive_State' = "size" /\ Port!After.request = PortHeader
    BY <1>7 DEF Port!After, Port!Part
  <2>2. Rest = Asked
    BY <1>7 DEF Rest, Asked
  <2>3. QED
    BY <1>3, <1>5, <2>1, <2>2
<1>8. CASE Receive_State = "block"
  <2>1. Port!After = Port!AfterBlock(Receive_Blocks, Receive_Residual)
    BY <1>8 DEF Port!After
  <2>2. /\ pc # "residual" /\ Asked = PortBlock
        /\ Rest = PortBlock + Receive_Blocks * PortBlock + Receive_Residual
    BY <1>8 DEF Rest, Asked
  <2>3. CASE Receive_Blocks > 0
    <3>1. /\ Receive_State' = "block" /\ Receive_Blocks' = Receive_Blocks - 1
          /\ Receive_Residual' = Receive_Residual /\ Port!After.request = PortBlock
      BY <2>1, <2>3 DEF Port!AfterBlock, Port!Part
    <3>2. Rest' = PortBlock + (Receive_Blocks - 1) * PortBlock + Receive_Residual /\ Asked' = PortBlock
      BY <3>1 DEF Rest, Asked
    <3>3. Rest' = Rest - Asked /\ Receive_Blocks - 1 \in Nat
      BY <1>0, <1>1, <2>2, <2>3, <3>2
    <3>4. QED
      BY <1>1, <1>3, <1>6, <2>2, <3>1, <3>2, <3>3
  <2>4. CASE Receive_Blocks = 0 /\ Receive_Residual > 0
    <3>1. /\ Receive_State' = "residual" /\ Receive_Blocks' = 0
          /\ Receive_Residual' = Receive_Residual /\ Port!After.request = Receive_Residual
      BY <2>1, <2>4 DEF Port!AfterBlock, Port!Part
    <3>2. Rest' = Receive_Residual /\ Asked' = Receive_Residual
      BY <3>1 DEF Rest, Asked
    <3>3. Rest' = Rest - Asked
      BY <1>0, <1>1, <2>2, <2>4, <3>2
    <3>4. QED
      BY <1>1, <1>3, <1>6, <2>2, <3>1, <3>2, <3>3
  <2>5. CASE Receive_Blocks = 0 /\ Receive_Residual = 0
    <3>1. Receive_State' = "size" /\ Port!After.request = PortHeader
      BY <2>1, <2>5 DEF Port!AfterBlock, Port!Part
    <3>2. Rest = Asked
      BY <1>0, <2>2, <2>5
    <3>3. QED
      BY <1>3, <1>5, <3>1, <3>2
  <2>6. QED
    BY <1>1, <2>3, <2>4, <2>5
<1>9. QED
  BY <1>1, <1>7, <1>8

\* What was read of a command: its header, or the next bytes of its body.
LEMMA LiveReceives ==
  ASSUME LiveInv, Port!receive_event
  PROVE  LiveInv'
<1>0. /\ sessions \in Nat /\ (port_host # "closed" => sessions >= 1)
      /\ TX_Done \in BOOLEAN /\ port_sent \in Seq(PortSizes) /\ received \in Seq(PortSizes)
  BY DEF LiveInv
<1>1. /\ pc \in {"size", "block", "residual"} /\ Receive_State = pc /\ ~Port!Closes
      /\ Port!Handled /\ events # <<>>
      /\ bufr' = (IF pc # "size" /\ Head(events) = "rx" THEN bufr \o Input_Buffer' ELSE bufr)
      /\ UNCHANGED <<port_host, sessions, port_sent, port_got, pc, left, received>>
  BY DEF Port!receive_event, Port!LoopEvent, Port!hostVars, Port!Handled, Port!port_open,
         Port!port_close, Port!tx_done, Port!receive_handler, Port!Event
<1>2. Connected
  BY <1>1 DEF LiveInv, Opening
<1>3. /\ Head(<<"close">>) = "close" /\ Head(<<"close", "open">>) = "close"
      /\ Head(<<"rx">>) = "rx" /\ Tail(<<"rx">>) = <<>>
  OBVIOUS
<1>4. ~Between /\ ~Replied
  BY <1>1, <1>3 DEF Between, Replied, QueueIs, Port!Closes
<1>5. PICK n \in PortSizes : Commanded(n)
  BY <1>2, <1>4 DEF Connected
<1>6. /\ port_host = "wait" /\ back = <<>> /\ port_got = 0 /\ Settled /\ AllButLast(n)
      /\ Port_Open /\ ~Port_Close /\ tx = "none" /\ n \in Nat /\ n >= 1
      /\ events = <<"rx">> /\ read = 0
  BY <1>1, <1>2, <1>5, PortConstants DEF Commanded, Connected, Settled, QueueIs, Whole
<1>7. /\ Input_Buffer' = Receive_Buffer /\ Receive_Buffer' = <<>> /\ events' = <<>>
      /\ Receive_State' = Port!After.state /\ Receive_Blocks' = Port!After.blocks
      /\ Receive_Residual' = Port!After.residual /\ read' = Port!After.request
      /\ UNCHANGED <<wire, back, tx, Port_Open, Port_Close, TX_Done>>
  BY <1>1, <1>3, <1>6 DEF Port!Handled, Port!port_open, Port!port_close, Port!tx_done,
                          Port!receive_handler, Port!Event, Port!Read
<1>8. Settled' /\ AllButLast(n)'
  BY <1>1, <1>6, <1>7 DEF Settled, AllButLast
<1>9. SUFFICES Commanded(n)'
  BY <1>0, <1>1, <1>6, <1>7 DEF LiveInv, Connected
<1>10. CASE pc = "size"
  <2>1. bufr = <<>> /\ Receive_Buffer = Port!Header(n) /\ wire = BodyBytes(n, n) /\ bufr' = <<>>
    BY <1>1, <1>5, <1>6, <1>10 DEF Commanded, InBody, Whole, QueueIs, Quiet
  <2>2. Port!After = Port!AfterSize(n)
    BY <1>1, <1>10, <2>1, Headers DEF Port!After
  <2>3. Len(<<>>) = 0 /\ BodyBytes(n, 0) = <<>>
    BY EmptySeq, BodyParts
  <2>4. CASE n \div PortBlock # 0
    <3>1. /\ Receive_State' = "block" /\ Receive_Blocks' = n \div PortBlock - 1
          /\ Receive_Residual' = n % PortBlock /\ read' = PortBlock
      BY <1>7, <2>2, <2>4 DEF Port!AfterSize, Port!Part
    <3>2. Receive_Blocks' \in Nat /\ Receive_Residual' \in Nat /\ Rest' = n /\ Asked' = PortBlock
      <4>1. PortBlock + (n \div PortBlock - 1) * PortBlock + (n % PortBlock) = n
        BY <2>4, DivMod, PortConstants
      <4>2. n \div PortBlock - 1 \in Nat
        BY <2>4, DivMod
      <4>3. QED
        BY <3>1, <4>1, <4>2, DivMod DEF Rest, Asked
    <3>3. InBody(n)'
      BY <1>1, <1>6, <1>10, <2>1, <2>3, <3>1, <3>2 DEF InBody
    <3>4. QED
      BY <1>1, <1>6, <1>7, <1>8, <2>1, <3>1, <3>2, <3>3 DEF Commanded
  <2>5. CASE n \div PortBlock = 0
    <3>1. /\ Receive_State' = "residual" /\ Receive_Blocks' = 0
          /\ Receive_Residual' = n /\ read' = n
      BY <1>7, <2>2, <2>5 DEF Port!AfterSize, Port!Part
    <3>2. Rest' = n /\ Asked' = n
      BY <3>1 DEF Rest, Asked
    <3>3. InBody(n)'
      BY <1>1, <1>6, <1>10, <2>1, <2>3, <3>1, <3>2 DEF InBody
    <3>4. QED
      BY <1>1, <1>6, <1>7, <1>8, <2>1, <3>1, <3>2, <3>3 DEF Commanded
  <2>6. QED
    BY <2>4, <2>5
<1>11. CASE pc # "size"
  <2>1. /\ InBody(n) /\ Receive_Buffer = BodyBytes(n, Asked) /\ wire = BodyBytes(n, Rest - Asked)
        /\ bufr' = bufr \o Receive_Buffer
    BY <1>1, <1>3, <1>5, <1>6, <1>7, <1>11 DEF Commanded, Whole, Quiet
  <2>2. /\ Rest \in Nat /\ Asked \in Nat /\ Asked <= Rest
        /\ \/ /\ Receive_State' = "size" /\ read' = PortHeader /\ Rest = Asked
              /\ bufr' = BodyBytes(n, n)
           \/ InBody(n)' /\ Rest' = Rest - Asked /\ read' = Asked'
    BY <1>1, <1>7, <2>1, BodyGoesOn
  <2>3. CASE /\ Receive_State' = "size" /\ read' = PortHeader /\ Rest = Asked
             /\ bufr' = BodyBytes(n, n)
    <3>1. Rest - Asked = 0 /\ BodyBytes(n, 0) = <<>>
      BY <2>2, <2>3, BodyParts
    <3>2. Whole(n)'
      BY <1>1, <1>7, <1>11, <2>3 DEF Whole
    <3>3. QED
      BY <1>1, <1>6, <1>7, <1>8, <2>1, <2>3, <3>1, <3>2 DEF Commanded
  <2>4. CASE InBody(n)' /\ Rest' = Rest - Asked /\ read' = Asked'
    <3>1. wire' = BodyBytes(n, Rest')
      BY <1>7, <2>1, <2>4
    <3>2. QED
      BY <1>1, <1>6, <1>7, <1>8, <2>4, <3>1 DEF Commanded
  <2>5. QED
    BY <2>2, <2>3, <2>4
<1>12. QED
  BY <1>10, <1>11

\* The loops of receive_Buffer and of send_Buffer go on.
LEMMA LiveLoops ==
  ASSUME LiveInv, Port!receive_next \/ Port!receive_done \/ Port!send_piece
  PROVE  LiveInv'
<1>0. /\ sessions \in Nat /\ (port_host # "closed" => sessions >= 1)
      /\ TX_Done \in BOOLEAN /\ port_sent \in Seq(PortSizes) /\ received \in Seq(PortSizes)
  BY DEF LiveInv
<1>1. CASE Port!receive_next
  <2>1. /\ pc \in {"size", "block"} /\ Receive_State # pc
        /\ pc' = (IF pc = "size" THEN "block" ELSE "residual")
        /\ UNCHANGED <<port_host, sessions, port_sent, port_got, wire, back, events, read, tx,
                       Port_Open, Port_Close, TX_Done, Receive_State, Receive_Blocks,
                       Receive_Residual, Receive_Buffer, Input_Buffer, bufr, left, received>>
    BY <1>1 DEF Port!receive_next, Port!hostVars, Port!usbVars, Port!stateVars
  <2>2. Connected /\ ~Between /\ ~Replied
    BY <2>1 DEF LiveInv, Opening, Connected, Between, Replied, Quiet
  <2>3. PICK n \in PortSizes : Commanded(n)
    BY <2>2 DEF Connected
  <2>4. Settled' /\ AllButLast(n)' /\ Rest' = Rest /\ Asked' = Asked
    BY <2>1, <2>3 DEF Commanded, Settled, AllButLast, Rest, Asked
  <2>5. (InBody(n) => InBody(n)') /\ (Whole(n) => Whole(n)')
    BY <2>1, <2>4 DEF InBody, Whole
  <2>6. Commanded(n)'
    BY <2>1, <2>3, <2>4, <2>5 DEF Commanded, Quiet
  <2>7. QED
    BY <1>0, <2>1, <2>2, <2>3, <2>6 DEF LiveInv, Connected, Commanded, Settled
<1>2. CASE Port!receive_done
  <2>1. /\ pc = "residual" /\ Receive_State # "residual"
        /\ Receive_Buffer' = <<>> /\ pc' = "send" /\ left' = PortPieces - 1 /\ bufr' = <<>>
        /\ received' = Append(received, IF bufr = Port!Body(Len(bufr)) THEN Len(bufr) ELSE 0)
        /\ TX_Done' = FALSE /\ tx' = (IF tx = "none" /\ Port_Open THEN "piece" ELSE tx)
        /\ UNCHANGED <<port_host, sessions, port_sent, port_got, wire, back, events, read,
                       Port_Open, Port_Close, Have_Read, Receive_State>>
    BY <1>2 DEF Port!receive_done, Port!hostVars, Port!Write
  <2>2. Connected /\ ~Between /\ ~Replied
    BY <2>1 DEF LiveInv, Opening, Connected, Between, Replied, Quiet
  <2>3. PICK n \in PortSizes : Commanded(n)
    BY <2>2 DEF Connected
  <2>4. /\ Whole(n) /\ events = <<>> /\ read \in {0, PortHeader} /\ wire = <<>> /\ tx = "none"
        /\ Port_Open /\ ~Port_Close /\ port_host = "wait" /\ back = <<>> /\ port_got = 0
        /\ AllButLast(n)
    BY <2>1, <2>2, <2>3 DEF Commanded, Quiet, InBody, Connected, Settled
  <2>5. received' = port_sent' /\ received' \in Seq(PortSizes)
    <3>1. bufr = BodyBytes(n, n) /\ Len(bufr) = n /\ Port!Body(n) = BodyBytes(n, n)
      BY <2>4, BodyParts, PortConstants DEF Whole, Port!Body, BodyBytes
    <3>2. received' = Append(received, n)
      BY <2>1, <3>1
    <3>3. QED
      BY <1>0, <2>1, <2>4, <3>2 DEF AllButLast
  <2>6. Quiet' /\ QueueIs(<<>>)' /\ AllReceived'
    BY <2>1, <2>4, <2>5 DEF Quiet, QueueIs, AllReceived, Whole
  <2>7. Replied'
    <3>1. PortPieces - 1 \in Nat /\ Len(<<>>) = 0 /\ <<>> \in Seq({"piece"})
      BY PortConstants, EmptySeq
    <3>2. 0 + 0 + 1 + (PortPieces - 1) = PortPieces
      BY PortConstants
    <3>3. tx' = "piece" /\ pc' = "send" /\ left' = PortPieces - 1 /\ back' = <<>> /\ port_got' = 0
      BY <2>1, <2>4
    <3>4. QED
      BY <2>1, <2>4, <2>6, <3>1, <3>2, <3>3 DEF Replied
  <2>8. QED
    BY <1>0, <2>1, <2>4, <2>5, <2>7 DEF LiveInv, Connected
<1>3. CASE Port!send_piece
  <2>1. /\ pc = "send" /\ TX_Done
        /\ IF left > 0
           THEN /\ left' = left - 1 /\ TX_Done' = FALSE /\ pc' = pc
                /\ tx' = (IF tx = "none" /\ Port_Open THEN "piece" ELSE tx)
           ELSE pc' = "size" /\ UNCHANGED <<left, TX_Done, tx>>
        /\ UNCHANGED <<port_host, sessions, port_sent, port_got, wire, back, events, read,
                       Port_Open, Port_Close, Have_Read, Receive_State, Receive_Blocks,
                       Receive_Residual, Receive_Buffer, Input_Buffer, bufr, received>>
    BY <1>3 DEF Port!send_piece, Port!hostVars, Port!Write, Port!stateVars
  <2>2. Connected /\ tx = "none" /\ Port_Open /\ ~Port_Close
    BY <2>1 DEF LiveInv, Opening, Connected
  <2>3. Quiet => Quiet'
    BY <2>1 DEF Quiet
  <2>4. (AllReceived => AllReceived') /\ \A n \in PortSizes : AllButLast(n) => AllButLast(n)'
    BY <2>1 DEF AllReceived, AllButLast
  <2>5. CASE left > 0
    <3>1. Replied
      BY <2>1, <2>2, <2>5 DEF Connected, Between, Commanded, Settled
    <3>2. QueueIs(<<>>)'
      BY <2>1, <2>2, <2>5, <3>1 DEF Replied, QueueIs
    <3>3. Replied'
      <4>1. /\ tx = "none" /\ pc = "send" /\ tx' = "piece" /\ pc' = "send" /\ left' = left - 1
        BY <2>1, <2>2, <2>5
      <4>2. left \in Nat /\ port_got \in Nat /\ Len(back) \in Nat
            /\ port_got + Len(back) + 0 + left = PortPieces
        BY <3>1, <4>1, LenProperties DEF Replied
      <4>3. port_got + Len(back) + 1 + (left - 1) = PortPieces /\ left - 1 \in Nat
        BY <2>5, <4>2
      <4>4. QED
        BY <2>1, <2>3, <2>4, <3>1, <3>2, <4>1, <4>3 DEF Replied
    <3>4. QED
      BY <1>0, <2>1, <2>2, <2>5, <3>1, <3>3 DEF LiveInv, Connected, Replied
  <2>6. CASE ~(left > 0)
    <3>1. pc' = "size" /\ UNCHANGED <<left, TX_Done, tx>>
      BY <2>1, <2>6
    <3>2. \A r \in Rests : QueueIs(r) => QueueIs(r)'
      BY <2>1, <3>1 DEF QueueIs
    <3>3. Settled'
      BY <2>2, <3>1 DEF Settled
    <3>4. CASE Between
      BY <1>0, <2>1, <2>2, <2>3, <2>4, <3>1, <3>2, <3>3, <3>4 DEF LiveInv, Connected, Between, Rests
    <3>5. ASSUME NEW n \in PortSizes, Commanded(n) PROVE LiveInv'
      <4>1. Commanded(n)'
        BY <2>1, <2>3, <2>4, <3>1, <3>2, <3>3, <3>5 DEF Commanded, InBody, Whole, Rests, Quiet
      <4>2. QED
        BY <1>0, <2>1, <2>2, <3>1, <4>1 DEF LiveInv, Connected
    <3>6. CASE Replied
      <4>1. left = 0 /\ left' = 0
        BY <2>6, <3>1, <3>6 DEF Replied
      <4>2. Replied'
        BY <2>1, <2>3, <2>4, <3>1, <3>2, <3>6, <4>1, LenProperties DEF Replied, Rests
      <4>3. QED
        BY <1>0, <2>1, <2>2, <3>1, <4>2 DEF LiveInv, Connected
    <3>7. QED
      BY <2>2, <3>4, <3>5, <3>6 DEF Connected
  <2>7. QED
    BY <2>5, <2>6
<1>4. QED
  BY <1>1, <1>2, <1>3

\* The host comes, ...
LEMMA LiveComes ==
  ASSUME LiveInv, Port!init_device \/ PortGone!init_device
  PROVE  LiveInv'
<1>1. /\ port_host = "closed" /\ port_host' = "sync" /\ sessions' = sessions + 1
      /\ port_sent' = <<>> /\ received' = <<>> /\ port_got' = 0
      /\ events' = Append(events, "open") /\ wire' = <<Port!NL>> /\ back' = <<>>
      /\ UNCHANGED <<read, tx, Port_Open, Port_Close, Have_Read, TX_Done, Receive_State,
                     Receive_Blocks, Receive_Residual, Receive_Buffer, Input_Buffer, pc, bufr, left>>
  BY DEF Port!init_device, PortGone!init_device, Port!Firmware, PortGone!Firmware, Port!flagVars,
         PortGone!flagVars, Port!stateVars, PortGone!stateVars, Port!NL, PortGone!NL
<1>2. sessions \in Nat /\ TX_Done \in BOOLEAN /\ <<>> \in Seq(PortSizes)
  BY DEF LiveInv
<1>3. /\ Append(<<>>, "open") = <<"open">> /\ Append(<<"close">>, "open") = <<"close", "open">>
      /\ Append(<<"tx", "close">>, "open") = <<"tx", "close", "open">>
      /\ <<"tx">> \o <<"close">> = <<"tx", "close">>
      /\ <<"tx">> \o <<"close", "open">> = <<"tx", "close", "open">>
  <2>1. Append(<<>>, "open") = <<"open">>
    OBVIOUS
  <2>2. Append(<<"close">>, "open") = <<"close", "open">>
    BY ShortSeqs
  <2>3. Append(<<"tx", "close">>, "open") = <<"tx", "close", "open">>
    BY ShortSeqs
  <2>4. <<"tx">> \o <<"close">> = <<"tx", "close">>
    BY ShortSeqs
  <2>5. <<"tx">> \o <<"close", "open">> = <<"tx", "close", "open">>
    BY ShortSeqs
  <2>6. QED
    BY <2>1, <2>2, <2>3, <2>4, <2>5
<1>4. CASE Opening
  <2>1. Opening'
    BY <1>1, <1>3, <1>4 DEF Opening, AllReceived
  <2>2. QED
    BY <1>1, <1>2, <2>1 DEF LiveInv
<1>5. CASE Connected
  <2>1. Between /\ QueueIs(<<"close">>) /\ Port_Open /\ ~Port_Close /\ tx = "none"
    BY <1>1, <1>5 DEF Connected, Between, Replied, Commanded, Settled
  <2>2. QueueIs(<<"close", "open">>)'
    BY <1>1, <1>3, <2>1 DEF QueueIs
  <2>3. Quiet' /\ Settled' /\ AllReceived'
    BY <1>1, <2>1 DEF Between, Quiet, Settled, AllReceived
  <2>4. Between'
    BY <1>1, <2>2, <2>3 DEF Between
  <2>5. QED
    BY <1>1, <1>2, <2>1, <2>4 DEF LiveInv, Connected
<1>6. QED
  BY <1>4, <1>5 DEF LiveInv

\* ... leaves between two commands, ...
LEMMA LiveLeaves ==
  ASSUME LiveInv, Port!host_leaves
  PROVE  LiveInv'
<1>1. /\ port_host = "idle" /\ port_host' = "closed" /\ events' = Append(events, "close")
      /\ wire' = <<>> /\ back' = <<>>
      /\ UNCHANGED <<sessions, port_sent, port_got, read, tx, Port_Open, Port_Close, Have_Read,
                     TX_Done, Receive_State, Receive_Blocks, Receive_Residual, Receive_Buffer,
                     Input_Buffer, pc, bufr, left, received>>
  BY DEF Port!host_leaves, Port!Firmware, Port!flagVars, Port!stateVars
<1>2. /\ sessions \in Nat /\ TX_Done \in BOOLEAN /\ port_sent \in Seq(PortSizes)
      /\ received \in Seq(PortSizes)
  BY DEF LiveInv
<1>3. Between /\ QueueIs(<<>>) /\ Port_Open /\ ~Port_Close /\ tx = "none"
  BY <1>1 DEF LiveInv, Opening, Connected, Between, Replied, Commanded, Settled
<1>4. /\ Append(<<>>, "close") = <<"close">> /\ Append(<<"tx">>, "close") = <<"tx", "close">>
      /\ <<"tx">> \o <<>> = <<"tx">> /\ <<"tx">> \o <<"close">> = <<"tx", "close">>
  <2>1. Append(<<>>, "close") = <<"close">>
    OBVIOUS
  <2>2. Append(<<"tx">>, "close") = <<"tx", "close">> /\ <<"tx">> \o <<>> = <<"tx">>
    BY ShortSeqs
  <2>3. <<"tx">> \o <<"close">> = <<"tx", "close">>
    BY ShortSeqs
  <2>4. QED
    BY <2>1, <2>2, <2>3
<1>5. QueueIs(<<"close">>)'
  BY <1>1, <1>3, <1>4 DEF QueueIs
<1>6. Quiet' /\ Settled' /\ AllReceived'
  BY <1>1, <1>3 DEF Between, Quiet, Settled, AllReceived
<1>7. Between'
  BY <1>1, <1>5, <1>6 DEF Between
<1>8. QED
  BY <1>1, <1>2, <1>3, <1>7 DEF LiveInv, Connected

\* ... or leaves for good, whatever it is doing.
LEMMA EventsLeft ==
  ASSUME NEW q \in Seq(EventNames)
  PROVE  /\ \A e \in EventNames \ {"rx"} :
              /\ Append(q, e) \in Seq(EventNames)
              /\ NoRead(q) => NoRead(Append(q, e))
              /\ OneRead(q) => OneRead(Append(q, e))
         /\ q # <<>> =>
              /\ Tail(q) \in Seq(EventNames) /\ Head(q) \in EventNames
              /\ NoRead(q) => Head(q) # "rx" /\ NoRead(Tail(q))
              /\ OneRead(q) => IF Head(q) = "rx" THEN NoRead(Tail(q)) ELSE OneRead(Tail(q))
<1>0. Len(q) \in Nat /\ DOMAIN q = 1..Len(q)
  OBVIOUS
<1>1. ASSUME NEW e \in EventNames \ {"rx"}
      PROVE  /\ Append(q, e) \in Seq(EventNames)
             /\ NoRead(q) => NoRead(Append(q, e))
             /\ OneRead(q) => OneRead(Append(q, e))
  <2>1. /\ Append(q, e) \in Seq(EventNames) /\ Len(Append(q, e)) = Len(q) + 1
        /\ \A i \in 1..Len(q) : Append(q, e)[i] = q[i]
        /\ Append(q, e)[Len(q) + 1] = e
    BY AppendProperties
  <2>2. DOMAIN Append(q, e) = 1..(Len(q) + 1)
    BY <2>1
  <2>3. \A i \in DOMAIN Append(q, e) : i \in DOMAIN q \/ Append(q, e)[i] # "rx"
    BY <1>0, <2>1, <2>2
  <2>4. \A i \in DOMAIN q : i \in DOMAIN Append(q, e) /\ Append(q, e)[i] = q[i]
    BY <1>0, <2>1, <2>2
  <2>5. QED
    BY <2>1, <2>3, <2>4 DEF NoRead, OneRead
<1>2. ASSUME q # <<>>
      PROVE  /\ Tail(q) \in Seq(EventNames) /\ Head(q) \in EventNames
             /\ NoRead(q) => Head(q) # "rx" /\ NoRead(Tail(q))
             /\ OneRead(q) => IF Head(q) = "rx" THEN NoRead(Tail(q)) ELSE OneRead(Tail(q))
  <2>1. /\ Head(q) = q[1] /\ 1 \in DOMAIN q /\ Head(q) \in EventNames
        /\ Tail(q) \in Seq(EventNames) /\ Len(Tail(q)) = Len(q) - 1
        /\ \A i \in 1..Len(Tail(q)) : Tail(q)[i] = q[i + 1]
    BY <1>0, <1>2, HeadTailProperties, EmptySeq
  <2>2. DOMAIN Tail(q) = 1..(Len(q) - 1)
    BY <2>1
  <2>3. \A i \in DOMAIN Tail(q) : i + 1 \in DOMAIN q /\ i + 1 # 1 /\ Tail(q)[i] = q[i + 1]
    BY <1>0, <2>1, <2>2
  <2>4. \A i \in DOMAIN q : i = 1 \/ (i - 1 \in DOMAIN Tail(q) /\ Tail(q)[i - 1] = q[i])
    BY <1>0, <2>1, <2>2
  <2>5. NoRead(q) => Head(q) # "rx" /\ NoRead(Tail(q))
    BY <2>1, <2>3 DEF NoRead
  <2>6. ASSUME OneRead(q), Head(q) = "rx" PROVE NoRead(Tail(q))
    BY <2>1, <2>3, <2>6 DEF OneRead, NoRead
  <2>7. ASSUME OneRead(q), Head(q) # "rx" PROVE OneRead(Tail(q))
    <3>1. PICK i \in DOMAIN q : q[i] = "rx" /\ \A j \in DOMAIN q : q[j] = "rx" => j = i
      BY <2>7 DEF OneRead
    <3>2. i - 1 \in DOMAIN Tail(q) /\ Tail(q)[i - 1] = "rx"
      BY <2>1, <2>4, <2>7, <3>1
    <3>3. \A j \in DOMAIN Tail(q) : Tail(q)[j] = "rx" => j = i - 1
      BY <1>0, <2>2, <2>3, <3>1
    <3>4. QED
      BY <3>2, <3>3 DEF OneRead
  <2>8. QED
    BY <2>1, <2>5, <2>6, <2>7
<1>3. QED
  BY <1>1, <1>2

\* The reads that are still to be handled when it leaves.
LEMMA ReadsLeft ==
  ASSUME LiveInv, port_host # "closed"
  PROVE  events \in Seq(EventNames) /\ ReadsEnd
<1>1. /\ <<"tx">> \o <<>> = <<"tx">> /\ <<"tx">> \o <<"rx">> = <<"tx", "rx">>
      /\ <<"tx">> \o <<"close", "open">> = <<"tx", "close", "open">>
  BY ShortSeqs
<1>2. \A q \in {<<>>, <<"tx">>, <<"open">>, <<"close", "open">>, <<"tx", "close", "open">>} :
        q \in Seq(EventNames) /\ NoRead(q)
  <2>1. <<>> \in Seq(EventNames) /\ NoRead(<<>>)
    BY DEF NoRead
  <2>2. <<"tx">> \in Seq(EventNames) /\ <<"open">> \in Seq(EventNames)
    BY DEF EventNames
  <2>3. <<"close", "open">> \in Seq(EventNames) /\ <<"tx", "close", "open">> \in Seq(EventNames)
    BY DEF EventNames
  <2>4. NoRead(<<"tx">>) /\ NoRead(<<"open">>)
    BY DEF NoRead
  <2>5. NoRead(<<"close", "open">>)
    BY DEF NoRead
  <2>6. NoRead(<<"tx", "close", "open">>)
    BY DEF NoRead
  <2>7. QED
    BY <2>1, <2>2, <2>3, <2>4, <2>5, <2>6
<1>3. \A q \in {<<"rx">>, <<"tx", "rx">>} : q \in Seq(EventNames) /\ OneRead(q)
  <2>1. <<"rx">> \in Seq(EventNames) /\ <<"tx", "rx">> \in Seq(EventNames)
    BY DEF EventNames
  <2>2. /\ DOMAIN <<"rx">> = {1} /\ DOMAIN <<"tx", "rx">> = {1, 2}
        /\ <<"rx">>[1] = "rx" /\ <<"tx", "rx">>[1] = "tx" /\ <<"tx", "rx">>[2] = "rx"
    OBVIOUS
  <2>3. OneRead(<<"rx">>)
    BY <2>2 DEF OneRead
  <2>4. OneRead(<<"tx", "rx">>)
    BY <2>2 DEF OneRead
  <2>5. QED
    BY <2>1, <2>3, <2>4
<1>4. \A r \in {<<>>, <<"close", "open">>} : QueueIs(r) => events \in Seq(EventNames) /\ NoRead(events)
  BY <1>1, <1>2 DEF QueueIs
<1>5. QueueIs(<<"rx">>) => events \in Seq(EventNames) /\ OneRead(events)
  BY <1>1, <1>3 DEF QueueIs
<1>6. Quiet => Incomplete
  BY DEF Quiet, Incomplete
<1>7. CASE Opening
  <2>1. Receive_State = "sync" /\ pc \in {"accept", "nested"} => Incomplete
    BY DEF Incomplete
  <2>2. events = <<"rx">> => Receive_Buffer = <<Port!NL>> /\ pc = "accept"
    <3>1. Head(<<"rx">>) = "rx" /\ Head(<<"open">>) = "open"
      OBVIOUS
    <3>2. <<"rx">> # <<"open">> /\ <<"rx">> # <<>>
      BY <3>1
    <3>3. QED
      BY <1>7, <3>2 DEF Opening
  <2>3. /\ Receive_State = "sync" /\ pc \in {"accept", "nested"}
        /\ events \in {<<>>, <<"open">>, <<"rx">>}
    BY <1>7 DEF Opening
  <2>4. QED
    BY <1>2, <1>3, <2>1, <2>2, <2>3 DEF ReadsEnd, OfSync
<1>8. CASE Between \/ Replied
  BY <1>4, <1>6, <1>8 DEF Between, Replied, ReadsEnd
<1>9. ASSUME NEW n \in PortSizes, Commanded(n)
      PROVE  events \in Seq(EventNames) /\ ReadsEnd
  <2>1. InBody(n) /\ Receive_Buffer = <<>> => Incomplete
    BY DEF InBody, Incomplete
  <2>2. AllButLast(n)
    BY <1>9 DEF Commanded
  <2>3. CASE Quiet /\ QueueIs(<<>>)
    <3>1. <<>> \in {<<>>, <<"close", "open">>}
      OBVIOUS
    <3>2. events \in Seq(EventNames) /\ NoRead(events) /\ Incomplete
      BY <1>4, <1>6, <2>3, <3>1
    <3>3. QED
      BY <3>2 DEF ReadsEnd
  <2>4. CASE /\ pc \in {"accept", "size", "send"} /\ Receive_State = "size"
             /\ QueueIs(<<"rx">>) /\ Receive_Buffer = Port!Header(n)
    BY <1>5, <2>4 DEF ReadsEnd, OfHeader
  <2>5. CASE InBody(n) /\ events = <<>> /\ Receive_Buffer = <<>>
    <3>1. events \in {<<>>, <<"tx">>, <<"open">>, <<"close", "open">>, <<"tx", "close", "open">>}
      BY <2>5
    <3>2. events \in Seq(EventNames) /\ NoRead(events) /\ Incomplete
      BY <1>2, <2>1, <2>5, <3>1
    <3>3. QED
      BY <3>2 DEF ReadsEnd
  <2>6. CASE InBody(n) /\ events = <<"rx">> /\ Receive_Buffer = BodyBytes(n, Asked)
    BY <1>3, <2>2, <2>6 DEF ReadsEnd, OfBody
  <2>7. CASE Whole(n) /\ events = <<>>
    BY <1>2, <2>2, <2>7 DEF ReadsEnd, Complete
  <2>8. QED
    BY <1>9, <2>3, <2>4, <2>5, <2>6, <2>7 DEF Commanded
<1>10. QED
  BY <1>7, <1>8, <1>9 DEF LiveInv, Connected

LEMMA LiveGone ==
  ASSUME LiveInv, PortGone!host_leaves
  PROVE  GoneInv'
<1>1. /\ port_host # "closed" /\ port_host' = "closed" /\ events' = Append(events, "close")
      /\ wire' = <<>>
      /\ UNCHANGED <<sessions, port_sent, port_got, read, tx, Port_Open, Port_Close, Have_Read,
                     TX_Done, Receive_State, Receive_Blocks, Receive_Residual, Receive_Buffer,
                     Input_Buffer, pc, bufr, left, received>>
  BY DEF PortGone!host_leaves, PortGone!Firmware, PortGone!flagVars, PortGone!stateVars
<1>2. "close" \in EventNames \ {"rx"}
  BY DEF EventNames
<1>3. /\ events' \in Seq(EventNames) /\ (NoRead(events) => NoRead(events)')
      /\ (OneRead(events) => OneRead(events)')
  BY <1>1, <1>2, ReadsLeft, EventsLeft
<1>4. /\ sessions \in Nat \ {0} /\ TX_Done \in BOOLEAN /\ {port_sent, received} \subseteq Seq(PortSizes)
      /\ AllReceived \/ \E n \in PortSizes : AllButLast(n)
  BY <1>1 DEF LiveInv, Opening, Connected, Between, Replied, Commanded
<1>5. /\ (AllReceived => AllReceived') /\ (Incomplete => Incomplete')
      /\ \A n \in PortSizes :
           (AllButLast(n) => AllButLast(n)') /\ (Whole(n) => Whole(n)') /\ (InBody(n) => InBody(n)')
      /\ Asked' = Asked
  <2>1. Asked' = Asked /\ Rest' = Rest
    BY <1>1 DEF Asked, Rest
  <2>2. QED
    BY <1>1, <2>1 DEF AllReceived, Incomplete, AllButLast, Whole, InBody
<1>6. (Complete => Complete') /\ (OfSync => OfSync') /\ (OfHeader => OfHeader') /\ (OfBody => OfBody')
  BY <1>1, <1>5 DEF Complete, OfSync, OfHeader, OfBody
<1>7. ReadsEnd'
  BY <1>1, <1>3, <1>5, <1>6, ReadsLeft DEF ReadsEnd
<1>8. QED
  BY <1>1, <1>3, <1>4, <1>5, <1>7 DEF GoneInv

\* What an event does to what was read, and to what is left to read.
LEMMA GoneHandles ==
  ASSUME GoneInv, Port!Handled
  PROVE  /\ events # <<>> /\ events' = Tail(events) /\ events' \in Seq(EventNames)
         /\ wire' = wire /\ TX_Done' \in BOOLEAN
         /\ \/ /\ Head(events) # "rx" /\ (NoRead(events) => NoRead(events)')
               /\ (OneRead(events) => OneRead(events)')
               /\ UNCHANGED <<Receive_State, Receive_Blocks, Receive_Residual, Receive_Buffer, Input_Buffer>>
            \/ /\ Head(events) = "rx" /\ OneRead(events) /\ NoRead(events)'
               /\ Port!receive_handler
<1>1. /\ events # <<>> /\ events' = Tail(events) /\ wire' = wire /\ TX_Done' \in BOOLEAN
      /\ \/ Head(events) # "rx" /\ UNCHANGED <<Receive_State, Receive_Blocks, Receive_Residual, Receive_Buffer, Input_Buffer>>
         \/ Head(events) = "rx" /\ Port!receive_handler
  BY DEF GoneInv, Port!Handled, Port!port_open, Port!port_close, Port!tx_done, Port!receive_handler,
         Port!Event, Port!stateVars
<1>2. events \in Seq(EventNames) /\ ReadsEnd
  BY DEF GoneInv
<1>3. QED
  BY <1>1, <1>2, EventsLeft DEF ReadsEnd

\* Where the sizes and the host are what they were.
LEMMA GoneStays ==
  ASSUME GoneInv, UNCHANGED <<port_host, sessions, port_sent, received, wire>>,
         TX_Done' \in BOOLEAN, events' \in Seq(EventNames), ReadsEnd'
  PROVE  GoneInv'
<1>1. (AllReceived => AllReceived') /\ \A n \in PortSizes : AllButLast(n) => AllButLast(n)'
  BY DEF AllReceived, AllButLast
<1>2. QED
  BY <1>1 DEF GoneInv

\* The device takes a packet late.
LEMMA GoneWrites ==
  ASSUME GoneInv, Port!usb_write_late
  PROVE  GoneInv'
<1>1. /\ events' = Append(events, "tx")
      /\ UNCHANGED <<port_host, sessions, port_sent, port_got, wire, TX_Done, Receive_State,
                     Receive_Blocks, Receive_Residual, Receive_Buffer, pc, bufr, received>>
  BY DEF Port!usb_write_late, Port!hostVars, Port!flagVars, Port!stateVars, Port!mainVars
<1>2. "tx" \in EventNames \ {"rx"} /\ events \in Seq(EventNames) /\ TX_Done \in BOOLEAN /\ ReadsEnd
  BY DEF EventNames, GoneInv
<1>3. /\ events' \in Seq(EventNames) /\ (NoRead(events) => NoRead(events)')
      /\ (OneRead(events) => OneRead(events)')
  BY <1>1, <1>2, EventsLeft
<1>4. Asked' = Asked /\ Rest' = Rest
  BY <1>1 DEF Asked, Rest
<1>5. (Incomplete => Incomplete') /\ (OfSync => OfSync') /\ (OfHeader => OfHeader')
  BY <1>1 DEF Incomplete, OfSync, OfHeader
<1>6. (Complete => Complete') /\ (OfBody => OfBody')
  BY <1>1, <1>4 DEF Complete, OfBody, AllButLast, Whole, InBody
<1>7. ReadsEnd'
  BY <1>2, <1>3, <1>5, <1>6 DEF ReadsEnd
<1>8. QED
  BY <1>1, <1>2, <1>3, <1>7, GoneStays

\* The loops that accept a host, and those that wait for a transmission.
LEMMA GoneWaits ==
  ASSUME GoneInv, \/ Port!accept_event \/ Port!accept_sync \/ Port!nested_event \/ Port!send_event
  PROVE  GoneInv'
<1>0. /\ pc \in {"accept", "nested", "send"} /\ (pc = "accept" => Receive_State = "sync")
      /\ UNCHANGED <<port_host, sessions, port_sent, port_got, bufr, received>>
  BY DEF Port!accept_event, Port!accept_sync, Port!nested_event, Port!send_event, Port!receive_sync,
         Port!Stay, Port!hostVars, Port!mainVars
<1>1. ReadsEnd /\ ~Complete /\ ~OfBody /\ events \in Seq(EventNames) /\ TX_Done \in BOOLEAN
  BY <1>0 DEF GoneInv, Complete, OfBody, Whole, InBody
<1>2. CASE Port!Handled /\ UNCHANGED pc
  <2>1. CASE Head(events) # "rx"
    <3>1. /\ events' \in Seq(EventNames) /\ wire' = wire /\ TX_Done' \in BOOLEAN
          /\ (NoRead(events) => NoRead(events)') /\ (OneRead(events) => OneRead(events)')
          /\ UNCHANGED <<Receive_State, Receive_Buffer>>
      BY <1>2, <2>1, GoneHandles
    <3>2. (Incomplete => Incomplete') /\ (OfSync => OfSync') /\ (OfHeader => OfHeader')
      BY <1>2, <3>1 DEF Incomplete, OfSync, OfHeader
    <3>3. ReadsEnd'
      BY <1>1, <3>1, <3>2 DEF ReadsEnd
    <3>4. QED
      BY <1>0, <3>1, <3>3, GoneStays
  <2>2. CASE Head(events) = "rx"
    <3>1. /\ events' \in Seq(EventNames) /\ wire' = wire /\ TX_Done' \in BOOLEAN
          /\ OneRead(events) /\ NoRead(events)' /\ Port!receive_handler
      BY <1>2, <2>2, GoneHandles
    <3>2. OfSync \/ OfHeader
      BY <1>1, <2>2, EventsLeft, <1>2, GoneHandles DEF ReadsEnd, NoRead
    <3>3. Receive_Buffer' = <<>> /\ Receive_State' = Port!After.state
      BY <3>1 DEF Port!receive_handler
    <3>4. CASE OfSync
      BY <1>0, <1>2, <3>1, <3>3, <3>4, GoneStays DEF OfSync, Port!After, Port!Part, Incomplete, ReadsEnd
    <3>5. CASE OfHeader
      <4>1. pc = "send" /\ Receive_State = "size"
        BY <1>0, <3>5 DEF OfHeader
      <4>2. Receive_State' \in {"block", "residual"}
        BY <3>3, <4>1 DEF Port!After, Port!AfterSize, Port!Part
      <4>3. Incomplete'
        BY <1>2, <4>1, <4>2 DEF Incomplete
      <4>4. QED
        BY <1>0, <3>1, <4>3, GoneStays DEF ReadsEnd
    <3>6. QED
      BY <3>2, <3>4, <3>5
  <2>3. QED
    BY <2>1, <2>2
<1>3. CASE Port!receive_sync /\ Receive_State = "sync" /\ pc' = "nested"
  <2>1. /\ events # <<>> /\ Head(events) = "rx" /\ events' = Tail(events) /\ wire' = wire
        /\ TX_Done' \in BOOLEAN /\ Receive_State' = "sync"
    BY <1>3 DEF Port!receive_sync, Port!Event
  <2>2. events' \in Seq(EventNames) /\ NoRead(events)'
    BY <1>1, <2>1, EventsLeft DEF ReadsEnd
  <2>3. Incomplete'
    BY <1>3, <2>1 DEF Incomplete
  <2>4. QED
    BY <1>0, <2>1, <2>2, <2>3, GoneStays DEF ReadsEnd
<1>4. QED
  BY <1>2, <1>3 DEF Port!accept_event, Port!accept_sync, Port!nested_event, Port!send_event, Port!Stay,
                    Port!mainVars, Port!receive_sync

\* The steps that handle no event.
LEMMA GoneGoesOn ==
  ASSUME GoneInv, \/ Port!nested_done \/ Port!accept_open \/ Port!receive_next \/ Port!send_piece
  PROVE  GoneInv'
<1>0. /\ UNCHANGED <<port_host, sessions, port_sent, port_got, wire, events, received,
                     Receive_Blocks, Receive_Residual>>
      /\ TX_Done' \in BOOLEAN
  BY DEF GoneInv, Port!nested_done, Port!accept_open, Port!receive_next, Port!send_piece,
         Port!hostVars, Port!usbVars, Port!flagVars, Port!stateVars
<1>1. ReadsEnd /\ events \in Seq(EventNames)
  BY DEF GoneInv
<1>2. SUFFICES ReadsEnd'
  BY <1>0, <1>1, GoneStays
<1>3. CASE Port!nested_done
  <2>1. Incomplete /\ NoRead(events)
    BY <1>1, <1>3 DEF Port!nested_done, ReadsEnd, Complete, Whole, OfSync, OfHeader, OfBody, InBody
  <2>2. Incomplete'
    BY <1>3 DEF Port!nested_done, Incomplete
  <2>3. QED
    BY <1>0, <2>1, <2>2 DEF ReadsEnd
<1>4. CASE Port!accept_open
  <2>1. /\ pc = "accept" /\ Receive_State # "sync" /\ pc' = "size"
        /\ UNCHANGED <<Receive_State, Receive_Buffer>>
    BY <1>4 DEF Port!accept_open, Port!stateVars
  <2>2. ~Complete /\ ~OfSync /\ ~OfBody
    BY <2>1 DEF Complete, Whole, OfSync, OfBody, InBody
  <2>3. (Incomplete => Incomplete') /\ (OfHeader => OfHeader')
    BY <2>1 DEF Incomplete, OfHeader
  <2>4. QED
    BY <1>0, <1>1, <2>2, <2>3 DEF ReadsEnd
<1>5. CASE Port!receive_next
  <2>1. /\ pc \in {"size", "block"} /\ Receive_State # pc
        /\ pc' = (IF pc = "size" THEN "block" ELSE "residual")
        /\ UNCHANGED <<Receive_State, Receive_Buffer, bufr>>
    BY <1>5 DEF Port!receive_next, Port!stateVars
  <2>2. ~OfSync /\ ~OfHeader
    BY <2>1 DEF OfSync, OfHeader
  <2>3. Incomplete => Incomplete'
    BY <2>1 DEF Incomplete
  <2>4. Asked' = Asked /\ Rest' = Rest
    BY <1>0, <2>1 DEF Asked, Rest
  <2>5. \A n \in PortSizes :
          (AllButLast(n) => AllButLast(n)') /\ (Whole(n) => Whole(n)') /\ (InBody(n) => InBody(n)')
    BY <1>0, <2>1, <2>4 DEF AllButLast, Whole, InBody
  <2>6. (Complete => Complete') /\ (OfBody => OfBody')
    BY <2>1, <2>4, <2>5 DEF Complete, OfBody
  <2>7. QED
    BY <1>0, <1>1, <2>2, <2>3, <2>6 DEF ReadsEnd
<1>6. CASE Port!send_piece
  <2>1. /\ pc = "send" /\ pc' \in {"send", "size"} /\ UNCHANGED <<Receive_State, Receive_Buffer>>
    BY <1>6 DEF Port!send_piece, Port!stateVars
  <2>2. ~Complete /\ ~OfSync /\ ~OfBody
    BY <2>1 DEF Complete, Whole, OfSync, OfBody, InBody
  <2>3. (Incomplete => Incomplete') /\ (OfHeader => OfHeader')
    BY <2>1 DEF Incomplete, OfHeader
  <2>4. QED
    BY <1>0, <1>1, <2>2, <2>3 DEF ReadsEnd
<1>7. QED
  BY <1>3, <1>4, <1>5, <1>6

\* The loops of receive_Buffer, which may still get what completes a command.
LEMMA GoneReceives ==
  ASSUME GoneInv, Port!receive_closed \/ Port!receive_event \/ Port!receive_done
  PROVE  GoneInv'
<1>1. ReadsEnd /\ events \in Seq(EventNames) /\ TX_Done \in BOOLEAN /\ received \in Seq(PortSizes)
  BY DEF GoneInv
<1>2. CASE Port!receive_closed
  <2>1. /\ UNCHANGED <<port_host, sessions, port_sent, port_got, wire, received>>
        /\ events # <<>> /\ events' = Tail(events) /\ TX_Done' = (TX_Done \/ Head(events) = "tx")
        /\ Receive_State' = "sync" /\ Receive_Buffer' = <<>> /\ pc' = "accept"
    BY <1>2 DEF Port!receive_closed, Port!hostVars
  <2>2. events' \in Seq(EventNames) /\ (NoRead(events)' \/ OneRead(events)')
    BY <1>1, <2>1, EventsLeft DEF ReadsEnd
  <2>3. Incomplete' /\ OfSync'
    BY <2>1 DEF Incomplete, OfSync
  <2>4. QED
    BY <1>1, <2>1, <2>2, <2>3, GoneStays DEF ReadsEnd
<1>3. CASE Port!receive_done
  <2>1. /\ pc = "residual" /\ Receive_State # "residual" /\ Receive_Buffer' = <<>> /\ pc' = "send"
        /\ received' = Append(received, IF bufr = Port!Body(Len(bufr)) THEN Len(bufr) ELSE 0)
        /\ TX_Done' = FALSE
        /\ UNCHANGED <<port_host, sessions, port_sent, port_got, wire, events, Receive_State>>
    BY <1>3 DEF Port!receive_done, Port!hostVars
  <2>2. ~Incomplete /\ ~OfSync /\ ~OfHeader /\ ~OfBody
    BY <2>1 DEF Incomplete, OfSync, OfHeader, OfBody, InBody
  <2>3. NoRead(events) /\ Complete
    BY <1>1, <2>2 DEF ReadsEnd
  <2>4. PICK n \in PortSizes : AllButLast(n) /\ Whole(n)
    BY <2>3 DEF Complete
  <2>5. received' = port_sent' /\ received' \in Seq(PortSizes)
    <3>1. bufr = BodyBytes(n, n) /\ Len(bufr) = n /\ Port!Body(n) = BodyBytes(n, n)
      BY <2>4, BodyParts, PortConstants DEF Whole, Port!Body, BodyBytes
    <3>2. received' = Append(received, n)
      BY <2>1, <3>1
    <3>3. QED
      BY <1>1, <2>1, <2>4, <3>2 DEF AllButLast
  <2>6. Incomplete'
    BY <2>1, <2>4 DEF Incomplete, Whole
  <2>7. ReadsEnd' /\ AllReceived'
    BY <2>1, <2>3, <2>5, <2>6 DEF ReadsEnd, AllReceived
  <2>8. QED
    BY <2>1, <2>5, <2>7 DEF GoneInv
<1>4. CASE Port!receive_event
  <2>1. /\ pc \in {"size", "block", "residual"} /\ Receive_State = pc /\ Port!Handled
        /\ bufr' = (IF pc # "size" /\ Head(events) = "rx" THEN bufr \o Input_Buffer' ELSE bufr)
        /\ UNCHANGED <<port_host, sessions, port_sent, port_got, pc, received>>
    BY <1>4 DEF Port!receive_event, Port!LoopEvent, Port!hostVars
  <2>2. \A n \in PortSizes : AllButLast(n) => AllButLast(n)'
    BY <2>1 DEF AllButLast
  <2>3. ~Complete /\ ~OfSync
    BY <2>1 DEF Complete, Whole, OfSync
  <2>4. CASE Head(events) # "rx"
    <3>1. /\ events' \in Seq(EventNames) /\ wire' = wire /\ TX_Done' \in BOOLEAN
          /\ (NoRead(events) => NoRead(events)') /\ (OneRead(events) => OneRead(events)')
          /\ UNCHANGED <<Receive_State, Receive_Blocks, Receive_Residual, Receive_Buffer, bufr>>
      BY <2>1, <2>4, GoneHandles
    <3>2. (Incomplete => Incomplete') /\ (OfHeader => OfHeader')
      BY <2>1, <3>1 DEF Incomplete, OfHeader
    <3>3. Asked' = Asked /\ Rest' = Rest
      BY <3>1 DEF Asked, Rest
    <3>4. OfBody => OfBody'
      BY <2>1, <2>2, <3>1, <3>3 DEF OfBody, InBody
    <3>5. ReadsEnd'
      BY <1>1, <2>3, <3>1, <3>2, <3>4 DEF ReadsEnd
    <3>6. QED
      BY <2>1, <3>1, <3>5, GoneStays
  <2>5. CASE Head(events) = "rx"
    <3>1. /\ events' \in Seq(EventNames) /\ wire' = wire /\ TX_Done' \in BOOLEAN
          /\ OneRead(events) /\ NoRead(events)' /\ Port!receive_handler
          /\ ~NoRead(events)
      <4>1. events # <<>>
        BY <2>1, GoneHandles
      <4>2. QED
        BY <1>1, <2>1, <2>5, <4>1, GoneHandles, EventsLeft
    <3>2. OfHeader \/ OfBody
      BY SMTT(30), <1>1, <2>3, <3>1 DEF ReadsEnd
    <3>3. /\ Input_Buffer' = Receive_Buffer /\ Receive_Buffer' = <<>>
          /\ Receive_State' = Port!After.state /\ Receive_Blocks' = Port!After.blocks
          /\ Receive_Residual' = Port!After.residual
      BY <3>1 DEF Port!receive_handler
    <3>4. SUFFICES (Incomplete \/ Complete)'
      BY <2>1, <3>1, GoneStays DEF ReadsEnd
    <3>5. CASE OfHeader
      <4>1. pc = "size" /\ Receive_State = "size"
        BY <2>1, <3>5 DEF OfHeader
      <4>2. Receive_State' \in {"block", "residual"}
        BY <3>3, <4>1 DEF Port!After, Port!AfterSize, Port!Part
      <4>3. QED
        BY <2>1, <4>1, <4>2 DEF Incomplete
    <3>6. CASE OfBody
      <4>1. PICK n \in PortSizes :
              AllButLast(n) /\ InBody(n) /\ Receive_Buffer = BodyBytes(n, Asked)
        BY <3>6 DEF OfBody
      <4>2. bufr' = bufr \o Receive_Buffer /\ pc' = pc /\ pc # "size"
        BY <2>1, <2>5, <3>3, <4>1 DEF InBody
      <4>3. \/ Receive_State' = "size" /\ bufr' = BodyBytes(n, n)
            \/ InBody(n)'
        BY <2>1, <3>3, <4>1, <4>2, BodyGoesOn
      <4>4. CASE Receive_State' = "size" /\ bufr' = BodyBytes(n, n)
        <5>1. Whole(n)' /\ AllButLast(n)'
          BY <2>1, <2>2, <3>3, <4>1, <4>2, <4>4 DEF Whole
        <5>2. QED
          BY <5>1 DEF Complete
      <4>5. CASE InBody(n)'
        BY <2>1, <4>2, <4>5 DEF InBody, Incomplete
      <4>6. QED
        BY <4>3, <4>4, <4>5
    <3>7. QED
      BY <3>2, <3>5, <3>6
  <2>6. QED
    BY <2>4, <2>5
<1>5. QED
  BY <1>2, <1>3, <1>4

\* A host that leaves for good is like the other but for when it comes and leaves.
LEMMA GoneIsPort ==
  ASSUME PortGone!Next
  PROVE  \/ PortGone!init_device \/ PortGone!host_leaves
         \/ Port!read_sync \/ Port!host_send \/ Port!host_receive
         \/ Port!usb_read \/ Port!usb_write \/ Port!usb_write_late \/ Port!Main
<1>1. CASE PortGone!read_sync \/ PortGone!host_receive
  BY <1>1 DEF PortGone!read_sync, Port!read_sync, PortGone!host_receive, Port!host_receive,
      PortGone!Firmware, Port!Firmware, PortGone!flagVars, Port!flagVars, PortGone!stateVars, Port!stateVars
<1>2. CASE PortGone!host_send
  <2>1. \A n \in PortSizes : PortGone!Header(n) = Port!Header(n) /\ PortGone!Body(n) = Port!Body(n)
    BY DEF PortGone!Header, Port!Header, PortGone!Body, Port!Body
  <2>2. PortGone!Firmware = Port!Firmware
    BY DEF PortGone!Firmware, Port!Firmware, PortGone!flagVars, Port!flagVars, PortGone!stateVars, Port!stateVars
  <2>3. Port!host_send
    BY <1>2, <2>1 DEF PortGone!host_send, Port!host_send, PortGone!Firmware, Port!Firmware,
       PortGone!flagVars, Port!flagVars, PortGone!stateVars, Port!stateVars
  <2>4. QED
    BY <2>3
<1>3. CASE PortGone!usb_read \/ PortGone!usb_write \/ PortGone!usb_write_late
  BY <1>3 DEF PortGone!usb_read, Port!usb_read, PortGone!usb_write, Port!usb_write,
      PortGone!usb_write_late, Port!usb_write_late, PortGone!hostVars, Port!hostVars,
      PortGone!flagVars, Port!flagVars, PortGone!stateVars, Port!stateVars, PortGone!mainVars, Port!mainVars
<1>4. PortGone!After = Port!After
  <2>1. PortGone!SizeIn(Receive_Buffer) = Port!SizeIn(Receive_Buffer)
    <3>1. \A n \in PortSizes : PortGone!Header(n) = Port!Header(n)
      BY DEF PortGone!Header, Port!Header
    <3>2. QED
      BY <3>1 DEF PortGone!SizeIn, Port!SizeIn
  <2>2. \A n : PortGone!AfterSize(n) = Port!AfterSize(n)
    BY DEF PortGone!AfterSize, Port!AfterSize, PortGone!Part, Port!Part
  <2>3. PortGone!AfterBlock(Receive_Blocks, Receive_Residual) = Port!AfterBlock(Receive_Blocks, Receive_Residual)
    BY DEF PortGone!AfterBlock, Port!AfterBlock, PortGone!Part, Port!Part
  <2>4. QED
    BY <2>1, <2>2, <2>3 DEF PortGone!After, Port!After, PortGone!Part, Port!Part
<1>5. (PortGone!Handled => Port!Handled) /\ (PortGone!receive_sync => Port!receive_sync)
  <2>1. PortGone!receive_handler => Port!receive_handler
    BY <1>4 DEF PortGone!receive_handler, Port!receive_handler, PortGone!Event, Port!Event,
       PortGone!NL, Port!NL, PortGone!Read, Port!Read
  <2>2. PortGone!receive_sync => Port!receive_sync
    BY DEF PortGone!receive_sync, Port!receive_sync, PortGone!Event, Port!Event, PortGone!NL, Port!NL,
       PortGone!Write, Port!Write
  <2>3. /\ PortGone!port_open => Port!port_open
        /\ PortGone!port_close => Port!port_close
        /\ PortGone!tx_done => Port!tx_done
    BY DEF PortGone!port_open, Port!port_open, PortGone!port_close, Port!port_close, PortGone!tx_done,
       Port!tx_done, PortGone!Event, Port!Event, PortGone!stateVars, Port!stateVars
  <2>4. QED
    BY <2>1, <2>2, <2>3 DEF PortGone!Handled, Port!Handled
<1>6. /\ PortGone!accept_event => Port!accept_event
      /\ PortGone!accept_sync => Port!accept_sync
      /\ PortGone!nested_event => Port!nested_event
      /\ PortGone!send_event => Port!send_event
  BY <1>5 DEF PortGone!accept_event, Port!accept_event, PortGone!accept_sync, Port!accept_sync,
     PortGone!nested_event, Port!nested_event, PortGone!send_event, Port!send_event, PortGone!Stay,
     Port!Stay, PortGone!hostVars, Port!hostVars, PortGone!mainVars, Port!mainVars
<1>7. /\ PortGone!nested_done => Port!nested_done
      /\ PortGone!accept_open => Port!accept_open
      /\ PortGone!receive_next => Port!receive_next
      /\ PortGone!send_piece => Port!send_piece
  BY DEF PortGone!nested_done, Port!nested_done, PortGone!accept_open, Port!accept_open,
     PortGone!receive_next, Port!receive_next, PortGone!send_piece, Port!send_piece, PortGone!hostVars,
     Port!hostVars, PortGone!usbVars, Port!usbVars, PortGone!flagVars, Port!flagVars, PortGone!stateVars,
     Port!stateVars, PortGone!Read, Port!Read, PortGone!Write, Port!Write
<1>8. /\ PortGone!receive_closed => Port!receive_closed
      /\ PortGone!receive_event => Port!receive_event
  BY <1>5 DEF PortGone!receive_closed, Port!receive_closed, PortGone!receive_event, Port!receive_event,
     PortGone!LoopEvent, Port!LoopEvent, PortGone!Closes, Port!Closes, PortGone!hostVars, Port!hostVars
<1>9. PortGone!receive_done => Port!receive_done
  <2>1. PortGone!Body(Len(bufr)) = Port!Body(Len(bufr))
    BY DEF PortGone!Body, Port!Body
  <2>2. QED
    BY <2>1 DEF PortGone!receive_done, Port!receive_done, PortGone!hostVars, Port!hostVars,
       PortGone!Write, Port!Write
<1>10. PortGone!Main => Port!Main
  BY <1>6, <1>7, <1>8, <1>9 DEF PortGone!Main, Port!Main
<1>11. QED
  BY <1>1, <1>2, <1>3, <1>10 DEF PortGone!Next, PortGone!Host, PortGone!USB

\* Every step of the host that is there, of the library and of the firmware.
LEMMA LiveSteps ==
  ASSUME LiveInv,
         \/ Port!read_sync \/ Port!host_send \/ Port!host_receive
         \/ Port!usb_read \/ Port!usb_write \/ Port!usb_write_late \/ Port!Main
  PROVE  LiveInv'
<1>1. CASE Port!Main
  BY <1>1, LiveTransmitted, LiveAccept, LiveClosed, LiveReceives, LiveLoops DEF Port!Main
<1>2. QED
  BY <1>1, LiveHost, LiveRead, LiveWrite

\* And every step when the host is gone: no other comes.
LEMMA GoneSteps ==
  ASSUME GoneInv, PortGone!Next
  PROVE  GoneInv'
<1>1. port_host = "closed" /\ sessions \in Nat \ {0}
  BY DEF GoneInv
<1>2. ~PortGone!init_device /\ ~PortGone!host_leaves
  BY <1>1 DEF PortGone!init_device, PortGone!host_leaves
<1>3. ~Port!read_sync /\ ~Port!host_send /\ ~Port!host_receive /\ ~Port!usb_read /\ ~Port!usb_write
  BY <1>1 DEF Port!read_sync, Port!host_send, Port!host_receive, Port!usb_read, Port!usb_write
<1>4. CASE Port!usb_write_late
  BY <1>4, GoneWrites
<1>5. CASE Port!Main
  BY <1>5, GoneWaits, GoneGoesOn, GoneReceives DEF Port!Main
<1>6. QED
  BY <1>2, <1>3, <1>4, <1>5, GoneIsPort

LEMMA PortInitially == MCInit => PortInv
<1> SUFFICES ASSUME MCInit PROVE LiveInv
  BY DEF PortInv
<1>1. Port!Init
  BY DEF MCInit
<1>2. <<>> \in Seq(PortSizes)
  OBVIOUS
<1>3. QED
  BY <1>1, <1>2 DEF Port!Init, LiveInv, Opening, AllReceived

LEMMA PortInvStep == PortInv /\ [MCNext]_allVars => PortInv'
<1> SUFFICES ASSUME PortInv, [MCNext]_allVars PROVE PortInv'
  OBVIOUS
<1>1. CASE UNCHANGED <<portVars, part>>
  <2>1. UNCHANGED <<port_host, sessions, port_sent, port_got, wire, back, events, read, tx, Port_Open,
                    Port_Close, Have_Read, TX_Done, Receive_State, Receive_Blocks, Receive_Residual>>
    BY <1>1 DEF portVars
  <2>2. UNCHANGED <<Receive_Buffer, Input_Buffer, pc, bufr, left, received, part>>
    BY <1>1 DEF portVars
  <2>3. Asked' = Asked /\ Rest' = Rest
    BY <2>1 DEF Asked, Rest
  <2>4. \A n \in PortSizes : /\ AllButLast(n)' = AllButLast(n) /\ InBody(n)' = InBody(n)
                             /\ Whole(n)' = Whole(n)
    BY <2>1, <2>2, <2>3 DEF AllButLast, InBody, Whole
  <2>5. AllReceived' = AllReceived /\ Settled' = Settled /\ Quiet' = Quiet
    BY <2>1, <2>2 DEF AllReceived, Settled, Quiet
  <2>6. \A r : QueueIs(r)' = QueueIs(r)
    BY <2>1, <2>2 DEF QueueIs
  <2>7. Opening' = Opening
    BY <2>1, <2>2, <2>5 DEF Opening
  <2>8. Between' = Between /\ Replied' = Replied
    BY <2>1, <2>2, <2>5, <2>6 DEF Between, Replied
  <2>9. \A n \in PortSizes : Commanded(n)' = Commanded(n)
    BY <2>1, <2>2, <2>3, <2>4, <2>5, <2>6 DEF Commanded
  <2>10. LiveInv' = LiveInv
    BY <2>1, <2>2, <2>7, <2>8, <2>9 DEF LiveInv, Connected
  <2>11. ReadsEnd' = ReadsEnd
    BY <2>1, <2>2, <2>3, <2>4 DEF ReadsEnd, Incomplete, Complete, OfSync, OfHeader, OfBody
  <2>12. GoneInv' = GoneInv
    BY <2>1, <2>2, <2>4, <2>5, <2>11 DEF GoneInv
  <2>13. QED
    BY <2>2, <2>10, <2>12 DEF PortInv
<1>2. CASE part = "port" /\ part' = part /\ Port!Next
  <2>1. LiveInv
    BY <1>2 DEF PortInv
  <2>2. LiveInv'
    BY <1>2, <2>1, LiveSteps, LiveComes, LiveLeaves DEF Port!Next, Port!Host, Port!USB
  <2>3. QED
    BY <2>2 DEF PortInv
<1>3. CASE part = "port gone" /\ part' = part /\ PortGone!Next
  <2>1. CASE LiveInv
    BY ZenonT(60), <1>3, <2>1, GoneIsPort, LiveSteps, LiveComes, LiveGone DEF PortInv
  <2>2. CASE GoneInv
    BY <1>3, <2>2, GoneSteps DEF PortInv
  <2>3. QED
    BY <2>1, <2>2 DEF PortInv
<1>4. QED
  BY <1>1, <1>2, <1>3 DEF MCNext, Part, allVars

LEMMA PortInvIsEnough == PortInv => PortIsInStep
<1>1. \A a \in Seq(PortSizes), n \in PortSizes : Port!IsPrefix(a, Append(a, n))
  <2> SUFFICES ASSUME NEW a \in Seq(PortSizes), NEW n \in PortSizes
               PROVE  Port!IsPrefix(a, Append(a, n))
    OBVIOUS
  <2>1. SubSeq(Append(a, n), 1, Len(a)) = a
    OBVIOUS
  <2>2. Len(a) \in Nat /\ Len(Append(a, n)) = Len(a) + 1
    OBVIOUS
  <2>3. QED
    BY <2>1, <2>2 DEF Port!IsPrefix
<1>2. ASSUME {port_sent, received} \subseteq Seq(PortSizes), AllReceived \/ \E n \in PortSizes : AllButLast(n)
      PROVE  Port!CommandsAreWhole
  <2>1. CASE AllReceived
    <3>1. Port!IsPrefix(received, received)
      <4>1. SubSeq(received, 1, Len(received)) = received /\ Len(received) \in Nat
        BY <1>2
      <4>2. QED
        BY <4>1 DEF Port!IsPrefix
    <3>2. QED
      BY <2>1, <3>1 DEF AllReceived, Port!CommandsAreWhole
  <2>2. ASSUME NEW n \in PortSizes, AllButLast(n) PROVE Port!CommandsAreWhole
    <3>1. Port!IsPrefix(received, Append(received, n))
      BY <1>1, <1>2
    <3>2. QED
      BY <2>2, <3>1 DEF AllButLast, Port!CommandsAreWhole
  <2>3. QED
    BY <1>2, <2>1, <2>2
<1>3. ASSUME LiveInv PROVE PortIsInStep
  <2>1. AllReceived \/ \E n \in PortSizes : AllButLast(n)
    BY <1>3 DEF LiveInv, Opening, Connected, Between, Replied, Commanded
  <2>2. Port!CommandsAreWhole
    BY <1>3, <1>2, <2>1 DEF LiveInv
  <2>3. Port!SizeIsSize
    BY <1>3 DEF LiveInv, Opening, Connected, Between, Replied, Commanded, Quiet, InBody, Whole, Port!SizeIsSize
  <2>4. Port!ReplyIsToCommand
    BY <1>3 DEF LiveInv, Opening, Connected, Between, Replied, Commanded, AllReceived, Port!ReplyIsToCommand
  <2>5. QED
    BY <2>2, <2>3, <2>4 DEF PortIsInStep
<1>4. ASSUME GoneInv, part = "port gone" PROVE PortIsInStep
  <2>1. Port!CommandsAreWhole
    BY <1>4, <1>2 DEF GoneInv
  <2>2. Port!SizeIsSize
    BY <1>4 DEF GoneInv, ReadsEnd, Incomplete, Complete, Whole, OfSync, OfHeader, OfBody, InBody, Port!SizeIsSize
  <2>3. QED
    BY <1>4, <2>1, <2>2 DEF PortIsInStep
<1>5. QED
  BY <1>3, <1>4 DEF PortInv

\* Over the port the interpreter gets the commands of the session whole and in order,
\* takes the bytes of a header only for a size, and the host takes nothing for the
\* reply of a command that was not received; also when the host leaves at any time.
THEOREM PortStaysInStep == MCSpec => []PortIsInStep
BY PortInitially, PortInvStep, PortInvIsEnough, PTL DEF MCSpec

=============================================================================
