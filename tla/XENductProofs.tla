---------------------------- MODULE XENductProofs ----------------------------
(***************************************************************************)
(* The transport over a shared page, for any number of orchestrators of    *)
(* which one at a time is at work, any commands and any lengths of their   *)
(* answers: whoever is killed, and whenever.                               *)
(***************************************************************************)
EXTENDS XENduct, SequenceTheorems, TLAPS

\* Every command is answered, and one that resets is the last of a session.
OneAtATime ==
  /\ Exclusive = TRUE
  /\ None \notin Hosts
  /\ Replies \in Seq(Nat \ {0})
  /\ Reset \subseteq {Len(Replies)}

-----------------------------------------------------------------------------
(* The invariant.                                                          *)

\* What the stub domain is doing in a session, and that it waits for a command.
InSession == stub \in {"receive", "arm", "wait", "take", "interpret", "notify", "status"}
Open == stub \in {"receive", "arm", "wait"}

\* No event is there for the stub domain but that of the connection.
NoEvent == ~stubEvent /\ (stub # "receive" => ~haveEvent)

FirstCommands(h, n) == [i \in 1..n |-> Command(h, i)]
FirstReplies(h, a, n) == [k \in 1..n |-> Reply(Command(h, a), k)]

\* The page and the channel can be those of two orchestrators, of which the one
\* with the page is gone: the stub domain finds nothing there, and stays.
Crossed == InSession /\ channel # grant

StubInv ==
  /\ stub \in {"accept", "map"} => grant = None /\ channel = None
  /\ stub = "bind" => grant # None /\ channel = None /\ page[grant] = Empty /\ host[grant] # "off"
  /\ stub = "ended" => channel = None
  /\ InSession => grant # None /\ channel # None
  /\ ~InSession => done = <<>> /\ ~stubEvent
  /\ Crossed =>
       /\ Open \/ (stub = "take" /\ status[grant])
       /\ Gone(grant) /\ page[grant] = Empty

\* Who is linked with the stub domain, has given it the commands it has done; if it
\* is killed, what it has left in the page is no more than the next one.
Linked(h) == InSession /\ grant = h /\ channel = h

SessionInv ==
  InSession /\ channel = grant =>
    /\ done = FirstCommands(grant, Len(done))
    /\ Open /\ ~NoEvent => page[grant] \in {Command(grant, Len(done) + 1), End}
    /\ stub \in {"arm", "wait"} => ~(stubEvent /\ haveEvent)
    /\ ~Open =>
         /\ ~stubEvent
         /\ Len(done) \in DOMAIN Replies
         /\ current.kind = "command" /\ current.by = grant /\ current.number = Len(done)
         /\ stub = "take" => current.part = 0
         /\ stub = "interpret" =>
              current.part < Replies[Len(done)] /\ (Len(done) \in Reset => current.part = 0)
         /\ stub \in {"notify", "status"} =>
              current.part \in 1..Replies[Len(done)] /\ Len(done) \notin Reset
         /\ stub = "notify" => page[grant] = Reply(Command(grant, Len(done)), current.part)

\* The reply that is in the page, and that it is not there yet or taken.
Given(h) == page[h] = Reply(Command(h, asked[h]), current.part) /\ current.part = Len(got[h]) + 1
Awaited(h) == page[h] = Empty /\ current.part = Len(got[h])

\* An orchestrator and the stub domain, which is linked with it, go in step.
LinkedInv(h) ==
  /\ host[h] \in {"offered", "confirming", "idle", "loaded", "closing", "removing", "parting", "ending"} => Open
  /\ host[h] \in {"confirming", "idle", "loaded", "sent", "closing", "removing", "parting", "ending"} =>
       ~hostEvent[h]
  /\ host[h] \in {"offered", "confirming", "idle", "loaded", "closing", "removing", "parting"} => NoEvent
  /\ host[h] \in {"offered", "confirming"} => page[h] = Empty /\ asked[h] = 0 /\ got[h] = <<>> /\ done = <<>>
  /\ host[h] = "idle" => page[h] = Empty /\ asked[h] \in {Len(done), Len(Replies)}
  /\ host[h] = "loaded" =>
       page[h] = Command(h, asked[h]) /\ asked[h] = Len(done) + 1 /\ got[h] = <<>> /\ ~status[h]
  /\ host[h] = "sent" =>
       /\ got[h] = <<>>
       /\ \/ Open /\ ~status[h] /\ page[h] = Command(h, asked[h]) /\ asked[h] = Len(done) + 1
          \/ stub = "take" /\ status[h] /\ page[h] = Empty /\ asked[h] = Len(done)
  /\ host[h] = "receiving" =>
       \/ Open /\ NoEvent /\ page[h] = Empty /\ asked[h] = Len(Replies) /\ got[h] = <<>>
       \/ /\ asked[h] = Len(done) /\ ~status[h]
          /\ \/ stub \in {"take", "interpret"} /\ Awaited(h) /\ ~hostEvent[h]
             \/ stub = "notify" /\ Given(h) /\ ~hostEvent[h]
             \/ stub = "status" /\ Given(h)
  /\ host[h] = "acking" =>
       /\ asked[h] = Len(done) /\ got[h] # <<>>
       /\ \/ stub = "status" /\ Awaited(h) /\ status[h] /\ ~hostEvent[h]
          \/ stub = "interpret" /\ Awaited(h) /\ ~status[h] /\ ~hostEvent[h]
          \/ stub = "notify" /\ Given(h) /\ ~status[h] /\ ~hostEvent[h]
          \/ stub = "status" /\ Given(h) /\ ~status[h]
          \/ Open /\ NoEvent /\ page[h] = Empty /\ ~hostEvent[h] /\ Len(got[h]) = Replies[asked[h]]
  /\ host[h] \in {"closing", "removing", "parting", "ending"} => page[h] = End
  /\ host[h] \notin {"off", "connecting", "granting", "offering"}

\* One whose channel is bound, but not its page, gets no further than a command.
CrossedInv(h) ==
  /\ host[h] \in {"offered", "confirming", "idle", "loaded", "sent", "receiving", "closing", "removing",
                  "parting", "ending"}
  /\ got[h] = <<>>
  /\ host[h] \in {"loaded", "sent"} => ~status[h]
  /\ host[h] = "receiving" => page[h] = Empty

\* One the stub domain is not linked with has not begun, has done a reset, or ends.
ApartInv(h) ==
  /\ host[h] \in {"off", "connecting", "granting", "offered", "receiving", "ending"}
  /\ host[h] # "ending" => page[h] = Empty /\ got[h] = <<>> /\ ~hostEvent[h]
  /\ host[h] \in {"off", "connecting", "granting", "offered"} => asked[h] = 0
  /\ host[h] = "receiving" => asked[h] = Len(Replies)

HostInv(h) ==
  ~Gone(h) =>
    IF Linked(h) THEN LinkedInv(h) ELSE IF InSession /\ channel = h THEN CrossedInv(h) ELSE ApartInv(h)

\* What xenstore says of an orchestrator.
NodeInv(h) ==
  /\ host[h] \in {"off", "connecting", "removing", "parting", "ending"} => node["grant-ref"] # h
  /\ host[h] \in {"off", "connecting", "granting", "parting", "ending"} => node["event-channel"] # h

OneAtWork == \A h, k \in Hosts : AtWork(h) /\ AtWork(k) => h = k

GotInv(h) == got[h] = FirstReplies(h, asked[h], Len(got[h]))

IInv ==
  /\ TypeOK /\ StubInv /\ SessionInv /\ OneAtWork
  /\ \A h \in Hosts : HostInv(h) /\ NodeInv(h) /\ GotInv(h)

-----------------------------------------------------------------------------
(* What is in the page.                                                    *)

\* The lengths of the answers are numbers.
LEMMA Numbers ==
  ASSUME OneAtATime
  PROVE  /\ Len(Replies) \in Nat /\ Commands = 1..Len(Replies)
         /\ \A i \in Commands : Replies[i] \in Nat /\ Replies[i] > 0
  BY LenProperties DEF OneAtATime, Commands

\* A message tells what it is, whose command, and which part of the answer.
LEMMA Fields ==
  ASSUME NEW h, NEW i, NEW m \in Messages, NEW k
  PROVE  /\ Empty.kind = "none" /\ Empty.part = 0
         /\ End.kind = "end"
         /\ Command(h, i).kind = "command" /\ Command(h, i).by = h
         /\ Command(h, i).number = i /\ Command(h, i).part = 0
         /\ Reply(m, k).kind = "reply" /\ Reply(m, k).part = k /\ Reply(m, k).by = m.by
         /\ Reply(m, k).number = m.number
  BY DEF Empty, End, Command, Reply, Messages

\* What there is in the page besides replies can be told apart.
LEMMA Differ == End # Empty /\ \A h, i : Command(h, i) \notin {Empty, End}
<1>1. Empty.kind = "none" /\ End.kind = "end"
  BY DEF Empty, End
<1>2. \A h, i : Command(h, i).kind = "command"
  BY DEF Command
<1>3. QED
  BY <1>1, <1>2

\* These are messages.
LEMMA AreMessages ==
  /\ Empty \in Messages /\ End \in Messages
  /\ \A h \in Hosts, i \in Commands : Command(h, i) \in Messages
  /\ \A m \in Messages, k \in Nat : Reply(m, k) \in Messages
  BY DEF Empty, End, Command, Reply, Messages

\* A part of the answer is that of the command.
LEMMA SameReply ==
  ASSUME NEW h \in Hosts, NEW m \in Messages, m.kind = "command", m.by = h, NEW k \in Nat
  PROVE  Reply(m, k) = Reply(Command(h, m.number), k)
<1>1. Command(h, m.number) \in Messages
  BY DEF Command, Messages
<1>2. Reply(m, k) \in Messages /\ Reply(Command(h, m.number), k) \in Messages
  BY <1>1, AreMessages
<1>3. \A n \in Messages : n = [kind |-> n.kind, by |-> n.by, number |-> n.number, part |-> n.part]
  BY DEF Messages
<1>4. /\ Reply(m, k) = [kind |-> "reply", by |-> h, number |-> m.number, part |-> k]
      /\ Reply(Command(h, m.number), k) = [kind |-> "reply", by |-> h, number |-> m.number, part |-> k]
  BY <1>1, <1>2, <1>3, Fields
<1>5. QED
  BY <1>4

\* What has been received or done is told by its length.
LEMMA FirstOnes ==
  ASSUME NEW h, NEW a, NEW n \in Nat
  PROVE  /\ FirstCommands(h, 0) = <<>> /\ FirstReplies(h, a, 0) = <<>>
         /\ Append(FirstCommands(h, n), Command(h, n + 1)) = FirstCommands(h, n + 1)
         /\ Append(FirstReplies(h, a, n), Reply(Command(h, a), n + 1)) = FirstReplies(h, a, n + 1)
  BY DEF FirstCommands, FirstReplies

-----------------------------------------------------------------------------
(* The types.                                                              *)

USE DEF HostStep, StubStep, hostVars, stubVars, pageVars, storeVars

LEMMA HostTypes ==
  ASSUME OneAtATime, TypeOK, NEW h \in Hosts, Host(h) \/ kill(h)
  PROVE  TypeOK'
<1>0. OneAtATime /\ TypeOK
  OBVIOUS
<1> USE DEF TypeOK, HostStates, Nodes, NotifyStub, Pending
<1>1. CASE init_connect(h)
  BY SMTT(30), <1>1 DEF init_connect, Announce
<1>2. CASE init_grant(h)
  BY SMTT(30), <1>2 DEF init_grant, Announce
<1>3. CASE init_channel(h)
  BY SMTT(30), <1>3 DEF init_channel, Announce
<1>4. CASE init_pending(h) \/ init_confirm(h) \/ init_fails(h)
  BY ZenonT(60), <1>4 DEF init_pending, init_confirm, init_fails
<1>5. CASE send_load(h)
  <2>1. asked[h] + 1 \in Commands
    BY <1>5, Numbers DEF send_load
  <2>2. Command(h, asked[h] + 1) \in Messages
    BY <2>1, AreMessages
  <2>3. page' \in [Hosts -> Messages] /\ asked' \in [Hosts -> 0..Len(Replies)]
    BY <1>5, <2>2, Numbers DEF send_load
  <2>4. got' \in [Hosts -> Seq(Messages)]
    BY <1>5 DEF send_load
  <2>5. QED
    BY <1>5, <2>3, <2>4 DEF send_load
<1>6. CASE send_notify(h) \/ send_status(h) \/ whack_notify(h)
  BY ZenonT(60), <1>6 DEF send_notify, send_status, whack_notify
<1>7. CASE receive(h)
  <2>1. page[h] \in Messages /\ got[h] \in Seq(Messages)
    OBVIOUS
  <2>2. Append(got[h], page[h]) \in Seq(Messages)
    BY <2>1
  <2>3. page' \in [Hosts -> Messages] /\ got' \in [Hosts -> Seq(Messages)]
    BY <1>7, <2>2, AreMessages DEF receive
  <2>4. QED
    BY <1>7, <2>3 DEF receive
<1>8. CASE receive_nothing(h) \/ receive_acked(h)
  BY ZenonT(60), <1>8 DEF receive_nothing, receive_acked
<1>9. CASE whack(h)
  BY <1>9, AreMessages DEF whack
<1>10. CASE remove_grant(h)
  <2>1. watch' \in Seq(Nodes)
    BY <1>10 DEF remove_grant, Remove
  <2>2. node' \in [{"grant-ref", "event-channel"} -> Hosts \cup {None}]
    BY <1>10 DEF remove_grant, Remove
  <2>3. QED
    BY <1>10, <2>1, <2>2 DEF remove_grant, Remove
<1>11. CASE remove_channel(h)
  <2>1. watch' \in Seq(Nodes)
    BY <1>11 DEF remove_channel, Remove
  <2>2. node' \in [{"grant-ref", "event-channel"} -> Hosts \cup {None}]
    BY <1>11 DEF remove_channel, Remove
  <2>3. QED
    BY <1>11, <2>1, <2>2 DEF remove_channel, Remove
<1>12. CASE whack_pending(h)
  BY <1>12 DEF whack_pending
<1>13. CASE kill(h)
  BY <1>13 DEF kill
<1>14. QED
  BY <1>1, <1>2, <1>3, <1>4, <1>5, <1>6, <1>7, <1>8, <1>9, <1>10, <1>11, <1>12, <1>13 DEF Host

LEMMA StubTypes ==
  ASSUME OneAtATime, TypeOK, StubInv, Stub \/ event_handler
  PROVE  TypeOK'
<1>0. OneAtATime /\ TypeOK /\ (stub = "bind" => grant # None)
  BY DEF StubInv
<1> USE DEF TypeOK, StubStates, Nodes, NotifyHost
<1>1. watch # <<>> => Tail(watch) \in Seq(Nodes)
  BY HeadTailProperties
<1>2. {grant, channel} \subseteq Hosts \cup {None} /\ node["grant-ref"] \in Hosts \cup {None}
  OBVIOUS
<1>3. CASE accept_connect
  <2>1. watch' \in Seq(Nodes)
    BY <1>1, <1>3 DEF accept_connect
  <2>2. stub' \in {"map", "accept"}
    BY <1>3 DEF accept_connect
  <2>3. QED
    BY <1>3, <2>1, <2>2 DEF accept_connect
<1>4. CASE accept_grant
  <2>1. watch' \in Seq(Nodes)
    BY <1>1, <1>4 DEF accept_grant
  <2>2. stub' \in {"bind", "ended"} /\ grant' \in Hosts \cup {None}
    BY <1>2, <1>4 DEF accept_grant
  <2>3. page' \in [Hosts -> Messages] /\ status' \in [Hosts -> BOOLEAN]
    BY ZenonT(60), <1>4, AreMessages DEF accept_grant
  <2>4. QED
    BY <1>4, <2>1, <2>2, <2>3 DEF accept_grant
<1>5. CASE accept_channel
  <2>1. watch' \in Seq(Nodes)
    BY <1>1, <1>5 DEF accept_channel
  <2>2. channel' \in Hosts \cup {None}
    BY <1>5 DEF accept_channel
  <2>3. stub' \in {"receive", "ended"} /\ (stub' = "receive" => channel' # None)
    BY <1>5 DEF accept_channel, Usable
  <2>4. status' \in [Hosts -> BOOLEAN] /\ hostEvent' \in [Hosts -> BOOLEAN] /\ haveEvent' \in BOOLEAN
    BY <1>5 DEF accept_channel
  <2>5. QED
    BY <1>0, <1>5, <2>1, <2>2, <2>3, <2>4 DEF accept_channel
<1>6. CASE event_handler
  BY <1>6 DEF event_handler
<1>7. CASE receive_flag \/ receive_status
  BY <1>7 DEF receive_flag, receive_status
<1>8. CASE receive_end
  <2>1. hostEvent' \in [Hosts -> BOOLEAN]
    BY <1>8 DEF receive_end
  <2>2. current' \in Messages /\ done' \in Seq(Messages)
    BY <1>8, AreMessages, EmptySeq DEF receive_end
  <2>3. QED
    BY <1>8, <2>1, <2>2 DEF receive_end
<1>9. CASE reset
  <2>1. current' \in Messages /\ done' \in Seq(Messages)
    BY <1>9, AreMessages, EmptySeq DEF reset
  <2>2. QED
    BY <1>9, <2>1 DEF reset
<1>10. CASE receive_command
  <2>1. grant \in Hosts
    BY <1>10 DEF receive_command
  <2>2. page[grant] \in Messages
    BY <2>1
  <2>3. current' \in Messages /\ done' \in Seq(Messages)
    BY <1>10, <2>2 DEF receive_command
  <2>4. page' \in [Hosts -> Messages] /\ status' \in [Hosts -> BOOLEAN]
    BY <1>10, AreMessages DEF receive_command
  <2>5. QED
    BY <1>10, <2>3, <2>4 DEF receive_command
<1>11. CASE receive_taken \/ reply_notify \/ reply_status
  BY <1>11 DEF receive_taken, reply_notify, reply_status
<1>12. CASE reply
  <2>1. current.part + 1 \in Nat
    BY DEF Messages
  <2>2. [current EXCEPT !.part = @ + 1] \in Messages
    BY <2>1 DEF Messages
  <2>3. Reply(current, current.part + 1) \in Messages
    BY <2>1, AreMessages
  <2>4. QED
    BY <1>12, <2>2, <2>3 DEF reply
<1>13. QED
  BY <1>3, <1>4, <1>5, <1>6, <1>7, <1>8, <1>9, <1>10, <1>11, <1>12 DEF Stub

-----------------------------------------------------------------------------
(* The steps of an orchestrator.                                           *)

\* It is alone at work, changes what is its own, and notifies the stub domain
\* if that has bound its channel.
Moves(h) ==
  /\ ~Gone(h) /\ host'[h] # "off"
  /\ \A k \in Hosts \ {h} :
       /\ ~AtWork(k)
       /\ host'[k] = host[k] /\ asked'[k] = asked[k] /\ got'[k] = got[k]
       /\ page'[k] = page[k] /\ status'[k] = status[k] /\ hostEvent'[k] = hostEvent[k]
  /\ UNCHANGED stubVars
  /\ stubEvent' = stubEvent \/ (channel = h /\ stubEvent' = TRUE)
  /\ \A n \in {"grant-ref", "event-channel"} : node'[n] \in {node[n], h, None}

LEMMA HostMoves ==
  ASSUME OneAtATime, TypeOK, OneAtWork, NEW h \in Hosts, Host(h) \/ kill(h)
  PROVE  Moves(h)
<1>0. /\ host \in [Hosts -> HostStates] /\ asked \in [Hosts -> 0..Len(Replies)]
      /\ got \in [Hosts -> Seq(Messages)] /\ page \in [Hosts -> Messages]
      /\ status \in [Hosts -> BOOLEAN] /\ hostEvent \in [Hosts -> BOOLEAN]
      /\ node \in [{"grant-ref", "event-channel"} -> Hosts \cup {None}]
      /\ stubEvent \in BOOLEAN
  BY DEF TypeOK
<1>1. ~Gone(h) /\ \A k \in Hosts \ {h} : ~AtWork(k)
  <2>1. CASE init_connect(h)
    BY <2>1 DEF init_connect, Announce, OneAtATime, Gone
  <2>2. CASE ~init_connect(h)
    <3>1. AtWork(h)
      BY <2>2 DEF Host, AtWork, Gone, init_grant, init_channel, Announce, init_pending, init_confirm,
                  init_fails, send_load, send_notify, send_status, receive, receive_nothing,
                  receive_acked, whack, remove_grant, remove_channel, Remove, whack_notify,
                  whack_pending, kill
    <3>2. QED
      BY <3>1 DEF OneAtWork, AtWork
  <2>3. QED
    BY <2>1, <2>2
<1>2. host'[h] # "off" /\ \A k \in Hosts \ {h} : host'[k] = host[k]
  BY <1>0 DEF Host, init_connect, init_grant, init_channel, Announce, init_pending, init_confirm,
              init_fails, send_load, send_notify, send_status, receive, receive_nothing,
              receive_acked, whack, remove_grant, remove_channel, Remove, whack_notify,
              whack_pending, kill
<1>3. \A k \in Hosts \ {h} : asked'[k] = asked[k] /\ got'[k] = got[k] /\ hostEvent'[k] = hostEvent[k]
  BY <1>0 DEF Host, init_connect, init_grant, init_channel, Announce, init_pending, init_confirm,
              init_fails, send_load, send_notify, send_status, receive, receive_nothing,
              receive_acked, whack, remove_grant, remove_channel, Remove, whack_notify,
              whack_pending, kill, Pending
<1>4. \A k \in Hosts \ {h} : page'[k] = page[k] /\ status'[k] = status[k]
  BY <1>0 DEF Host, init_connect, init_grant, init_channel, Announce, init_pending, init_confirm,
              init_fails, send_load, send_notify, send_status, receive, receive_nothing,
              receive_acked, whack, remove_grant, remove_channel, Remove, whack_notify,
              whack_pending, kill
<1>5. UNCHANGED stubVars
  BY DEF Host, init_connect, init_grant, init_channel, Announce, init_pending, init_confirm,
         init_fails, send_load, send_notify, send_status, receive, receive_nothing,
         receive_acked, whack, remove_grant, remove_channel, Remove, whack_notify,
         whack_pending, kill
<1>6. stubEvent' = stubEvent \/ (channel = h /\ stubEvent' = TRUE)
  BY <1>0 DEF Host, init_connect, init_grant, init_channel, Announce, init_pending, init_confirm,
              init_fails, send_load, send_notify, send_status, receive, receive_nothing,
              receive_acked, whack, remove_grant, remove_channel, Remove, whack_notify,
              whack_pending, kill, NotifyStub
<1>7. \A n \in {"grant-ref", "event-channel"} : node'[n] \in {node[n], h, None}
  BY <1>0 DEF Host, init_connect, init_grant, init_channel, Announce, init_pending, init_confirm,
              init_fails, send_load, send_notify, send_status, receive, receive_nothing,
              receive_acked, whack, remove_grant, remove_channel, Remove, whack_notify,
              whack_pending, kill
<1>8. QED
  BY <1>1, <1>2, <1>3, <1>4, <1>5, <1>6, <1>7 DEF Moves

\* What the invariant says of each orchestrator.
LEMMA OfEach ==
  ASSUME IInv, NEW h \in Hosts
  PROVE  HostInv(h) /\ NodeInv(h) /\ GotInv(h)
BY DEF IInv

\* How an orchestrator and the stub domain can stand to each other.
LEMMA HostCases ==
  ASSUME IInv, NEW h \in Hosts, ~Gone(h)
  PROVE  \/ Linked(h) /\ LinkedInv(h)
         \/ ~Linked(h) /\ InSession /\ channel = h /\ CrossedInv(h)
         \/ ~(InSession /\ channel = h) /\ ApartInv(h)
<1>1. HostInv(h)
  BY DEF IInv
<1>2. Linked(h) => InSession /\ channel = h
  BY DEF Linked
<1>3. QED
  BY <1>1, <1>2 DEF HostInv

\* What the steps of an orchestrator do not change.
LEMMA OthersStay ==
  ASSUME OneAtATime, IInv, NEW h \in Hosts, Moves(h)
  PROVE  /\ OneAtWork'
         /\ \A k \in Hosts \ {h} : HostInv(k)' /\ NodeInv(k)' /\ GotInv(k)'
<1>1. OneAtWork'
  BY DEF Moves, OneAtWork, AtWork, Gone
<1>2. ASSUME NEW k \in Hosts \ {h} PROVE HostInv(k)'
  <2>1. CASE Gone(k)
    BY <2>1 DEF Moves, Gone, HostInv
  <2>2. CASE host[k] = "off"
    <3>1. ~(InSession /\ channel = k) /\ ApartInv(k)
      BY <2>2, HostCases DEF Gone, LinkedInv, CrossedInv
    <3>2. ApartInv(k)'
      BY <3>1 DEF ApartInv, Moves
    <3>3. QED
      BY <3>1, <3>2 DEF HostInv, Linked, InSession, Moves
  <2>3. QED
    BY <2>1, <2>2 DEF Moves, AtWork
<1>3. ASSUME NEW k \in Hosts \ {h} PROVE NodeInv(k)' /\ GotInv(k)'
  <2>1. NodeInv(k) /\ GotInv(k) /\ k # None
    BY DEF IInv, OneAtATime
  <2>2. NodeInv(k)'
    BY <2>1 DEF NodeInv, Moves
  <2>3. GotInv(k)'
    BY <2>1 DEF GotInv, Moves, FirstReplies
  <2>4. QED
    BY <2>2, <2>3
<1>4. QED
  BY <1>1, <1>2, <1>3

LEMMA StubStays ==
  ASSUME OneAtATime, IInv, NEW h \in Hosts, Moves(h), grant = h /\ stub = "bind" => page'[h] = Empty
  PROVE  StubInv'
<1>1. StubInv /\ TypeOK
  BY DEF IInv
<1>2. stub = "bind" => page'[grant] = Empty /\ host'[grant] # "off"
  BY <1>1 DEF StubInv, Moves, TypeOK
<1>3. Crossed => grant # h /\ grant \in Hosts
  BY <1>1 DEF StubInv, Moves, TypeOK, Crossed, InSession
<1>4. Crossed => Gone(grant)' /\ page'[grant] = Empty /\ status'[grant] = status[grant]
  BY <1>1, <1>3 DEF StubInv, Moves, Gone
<1>5. ~InSession => ~stubEvent'
  BY <1>1 DEF StubInv, Moves, TypeOK, InSession, StubStates, OneAtATime
<1>6. QED
  BY <1>1, <1>2, <1>3, <1>4, <1>5 DEF StubInv, Moves, Crossed, InSession, Open

\* Of a session only who is linked can say anything, ...
LEMMA SessionStays ==
  ASSUME OneAtATime, IInv, NEW h \in Hosts, Moves(h), ~Linked(h)
  PROVE  SessionInv'
<1>1. SessionInv /\ TypeOK
  BY DEF IInv
<1>2. InSession /\ channel = grant => grant \in Hosts \ {h}
  BY <1>1 DEF Linked, TypeOK, InSession
<1>3. InSession /\ channel = grant => page'[grant] = page[grant] /\ stubEvent' = stubEvent
  BY <1>2 DEF Moves
<1>4. QED
  BY <1>1, <1>3 DEF SessionInv, Moves, InSession, Open, NoEvent, FirstCommands

\* ... by what it puts into the page.
LEMMA SessionGoesOn ==
  ASSUME IInv, NEW h \in Hosts, Moves(h), Linked(h), stubEvent' = stubEvent,
         Open /\ ~NoEvent => page'[h] = page[h], stub = "notify" => page'[h] = page[h]
  PROVE  SessionInv'
<1>1. SessionInv /\ grant = h /\ channel = h
  BY DEF IInv, Linked
<1>2. QED
  BY <1>1 DEF SessionInv, Moves, InSession, Open, NoEvent, FirstCommands

\* An orchestrator stays in the relation it has with the stub domain.
LEMMA StandsAsBefore ==
  ASSUME NEW h \in Hosts, Moves(h),
         Linked(h) => LinkedInv(h)',
         ~Linked(h) /\ InSession /\ channel = h => CrossedInv(h)',
         ~(InSession /\ channel = h) => ApartInv(h)'
  PROVE  HostInv(h)'
<1>1. Linked(h)' = Linked(h) /\ (InSession /\ channel = h)' = (InSession /\ channel = h)
  BY DEF Moves, Linked, InSession
<1>2. Linked(h) => InSession /\ channel = h
  BY DEF Linked
<1>3. QED
  BY <1>1, <1>2 DEF HostInv

\* What a step of an orchestrator has to show: of itself only.
HostOK(h) == HostInv(h)' /\ NodeInv(h)' /\ GotInv(h)'

\* An orchestrator announces itself.
LEMMA AnnounceKeeps ==
  ASSUME OneAtATime, IInv, NEW h \in Hosts, Moves(h), init_connect(h) \/ init_grant(h) \/ init_channel(h)
  PROVE  HostOK(h) /\ SessionInv' /\ page'[h] = page[h]
<1>1. /\ host[h] \in {"off", "connecting", "granting"}
      /\ host'[h] = IF host[h] = "off" THEN "connecting"
                    ELSE IF host[h] = "connecting" THEN "granting" ELSE "offered"
      /\ asked'[h] = asked[h] /\ got'[h] = got[h] /\ page' = page /\ hostEvent'[h] = hostEvent[h]
      /\ host[h] # "connecting" => node'["grant-ref"] = node["grant-ref"]
      /\ host[h] # "granting" => node'["event-channel"] = node["event-channel"]
  BY DEF IInv, TypeOK, init_connect, init_grant, init_channel, Announce
<1>2. ~(InSession /\ channel = h) /\ ApartInv(h) /\ ~Linked(h)
  BY <1>1, HostCases DEF Gone, LinkedInv, CrossedInv, Linked
<1>3. ApartInv(h)'
  BY <1>1, <1>2 DEF ApartInv
<1>4. HostInv(h)'
  BY <1>2, <1>3, StandsAsBefore
<1>5. NodeInv(h)'
  BY <1>1, OfEach DEF NodeInv
<1>6. GotInv(h)'
  BY <1>1, OfEach DEF GotInv, FirstReplies
<1>7. QED
  BY <1>1, <1>2, <1>4, <1>5, <1>6, SessionStays DEF HostOK

\* It takes the answer to its offer, ...
LEMMA PendingKeeps ==
  ASSUME OneAtATime, IInv, NEW h \in Hosts, Moves(h), init_pending(h)
  PROVE  HostOK(h) /\ SessionInv' /\ page'[h] = page[h]
<1>1. /\ host[h] = "offered" /\ host'[h] = "confirming" /\ hostEvent[h] /\ ~hostEvent'[h]
      /\ asked'[h] = asked[h] /\ got'[h] = got[h] /\ page' = page /\ node' = node
      /\ stubEvent' = stubEvent
  BY DEF IInv, TypeOK, init_pending, Pending
<1>2. Linked(h) => LinkedInv(h)'
  BY <1>1, HostCases DEF Gone, LinkedInv, Linked, Moves, Open, NoEvent
<1>3. ~Linked(h) /\ InSession /\ channel = h => CrossedInv(h)'
  BY <1>1, HostCases DEF Gone, CrossedInv
<1>4. ~(InSession /\ channel = h) => ApartInv(h)'
  BY <1>1, HostCases DEF Gone, ApartInv, Linked
<1>5. HostInv(h)'
  BY <1>2, <1>3, <1>4, StandsAsBefore
<1>6. NodeInv(h)' /\ GotInv(h)'
  BY <1>1, OfEach DEF NodeInv, GotInv, FirstReplies
<1>7. SessionInv'
  BY <1>1, SessionStays, SessionGoesOn
<1>8. QED
  BY <1>1, <1>5, <1>6, <1>7 DEF HostOK

\* ... confirms it, or fails.
LEMMA ConfirmKeeps ==
  ASSUME OneAtATime, IInv, NEW h \in Hosts, Moves(h), init_confirm(h) \/ init_fails(h)
  PROVE  HostOK(h) /\ SessionInv' /\ page'[h] = page[h]
<1>1. /\ page' = page /\ node' = node /\ stubEvent' = stubEvent
      /\ asked'[h] = asked[h] /\ got'[h] = got[h] /\ hostEvent'[h] = hostEvent[h]
      /\ \/ host[h] = "confirming" /\ host'[h] = "idle"
         \/ host[h] = "connecting" /\ host'[h] = "crashed"
  BY DEF IInv, TypeOK, init_confirm, init_fails
<1>2. HostInv(h)'
  <2>1. CASE host'[h] = "crashed"
    BY <2>1 DEF HostInv, Gone
  <2>2. CASE host[h] = "confirming" /\ host'[h] = "idle"
    <3>1. Linked(h) => LinkedInv(h)'
      <4>1. Linked(h) => done = <<>> /\ asked[h] = 0
        BY <2>2, HostCases DEF Gone, LinkedInv, Linked
      <4>2. Linked(h) => asked'[h] = Len(done')
        BY <1>1, <4>1 DEF Moves
      <4>3. QED
        BY <1>1, <2>2, <4>2, HostCases DEF Gone, LinkedInv, Linked, Moves, Open, NoEvent
    <3>2. ~Linked(h) /\ InSession /\ channel = h => CrossedInv(h)'
      BY <1>1, <2>2, HostCases DEF Gone, CrossedInv
    <3>3. ~(InSession /\ channel = h) => ApartInv(h)'
      BY <2>2, HostCases DEF Gone, ApartInv, Linked
    <3>4. QED
      BY <3>1, <3>2, <3>3, StandsAsBefore
  <2>3. QED
    BY <1>1, <2>1, <2>2
<1>3. NodeInv(h)' /\ GotInv(h)'
  BY <1>1, OfEach DEF NodeInv, GotInv, FirstReplies
<1>4. SessionInv'
  BY <1>1, SessionStays, SessionGoesOn
<1>5. QED
  BY <1>1, <1>2, <1>3, <1>4 DEF HostOK

\* It puts the next command into the page, ...
LEMMA LoadKeeps ==
  ASSUME OneAtATime, IInv, NEW h \in Hosts, Moves(h), send_load(h)
  PROVE  HostOK(h) /\ SessionInv' /\ ~(grant = h /\ stub = "bind")
<1>1. /\ host[h] = "idle" /\ host'[h] = "loaded" /\ asked[h] < Len(Replies)
      /\ asked'[h] = asked[h] + 1 /\ got'[h] = <<>> /\ page'[h] = Command(h, asked[h] + 1) /\ ~status'[h]
      /\ hostEvent'[h] = hostEvent[h] /\ node' = node /\ stubEvent' = stubEvent
      /\ asked[h] \in Nat /\ Len(Replies) \in Nat
  BY Numbers DEF IInv, TypeOK, send_load
<1>2. InSession /\ channel = h
  BY <1>1, HostCases DEF Gone, ApartInv, Linked
<1>3. Linked(h) => LinkedInv(h)' /\ Open /\ NoEvent
  <2>1. Linked(h) => asked[h] = Len(done)
    BY <1>1, HostCases DEF Gone, LinkedInv, Linked
  <2>2. Linked(h) => asked'[h] = Len(done') + 1 /\ page'[h] = Command(h, asked'[h])
    BY <1>1, <2>1 DEF Moves
  <2>3. QED
    BY <1>1, <2>2, HostCases DEF Gone, LinkedInv, Linked, Moves, Open, NoEvent
<1>4. ~Linked(h) /\ InSession /\ channel = h => CrossedInv(h)'
  BY <1>1, HostCases DEF Gone, CrossedInv
<1>5. HostInv(h)'
  BY <1>2, <1>3, <1>4, StandsAsBefore
<1>6. NodeInv(h)'
  BY <1>1, OfEach DEF NodeInv
<1>7. GotInv(h)'
  <2>1. FirstReplies(h, asked'[h], Len(<<>>)) = <<>>
    BY FirstOnes, EmptySeq
  <2>2. QED
    BY <1>1, <2>1 DEF GotInv, FirstReplies
<1>8. SessionInv'
  BY <1>1, <1>3, SessionStays, SessionGoesOn DEF Open
<1>9. QED
  BY <1>2, <1>5, <1>6, <1>7, <1>8 DEF HostOK, InSession

\* ... notifies the stub domain of it, or of the end, ...
LEMMA NotifyKeeps ==
  ASSUME OneAtATime, IInv, NEW h \in Hosts, Moves(h), send_notify(h) \/ whack_notify(h)
  PROVE  HostOK(h) /\ SessionInv' /\ page'[h] = page[h]
<1>1. /\ page' = page /\ status' = status /\ node' = node
      /\ asked'[h] = asked[h] /\ got'[h] = got[h] /\ hostEvent'[h] = hostEvent[h]
      /\ \/ host[h] = "loaded" /\ host'[h] = "sent"
         \/ host[h] = "parting" /\ host'[h] = "ending"
  BY DEF IInv, TypeOK, send_notify, whack_notify
<1>2. InSession /\ channel = h
  BY <1>1, HostCases DEF Gone, ApartInv, Linked
<1>3. Linked(h) => LinkedInv(h)'
  BY <1>1, HostCases DEF Gone, LinkedInv, Linked, Moves, Open, NoEvent
<1>4. ~Linked(h) => CrossedInv(h)'
  BY <1>1, <1>2, HostCases DEF Gone, CrossedInv
<1>5. HostInv(h)'
  BY <1>2, <1>3, <1>4, StandsAsBefore
<1>6. NodeInv(h)' /\ GotInv(h)'
  BY SMTT(30), <1>1, OfEach DEF NodeInv, GotInv, FirstReplies
<1>7. CASE Linked(h)
  <2>1. Open /\ NoEvent /\ SessionInv /\ grant = h /\ channel = h
    BY <1>1, <1>7, HostCases DEF IInv, Gone, LinkedInv, Linked
  <2>2. page[h] \in {Command(h, Len(done) + 1), End}
    BY <1>1, <1>7, HostCases DEF Gone, LinkedInv, Linked
  <2>3. SessionInv'
    BY <1>1, <2>1, <2>2 DEF SessionInv, Moves, InSession, Open, NoEvent, FirstCommands
  <2>4. QED
    BY <1>1, <1>5, <1>6, <2>3 DEF HostOK
<1>8. QED
  BY <1>1, <1>5, <1>6, <1>7, SessionStays DEF HostOK

\* ... and sees that the command was taken.
LEMMA StatusKeeps ==
  ASSUME OneAtATime, IInv, NEW h \in Hosts, Moves(h), send_status(h)
  PROVE  HostOK(h) /\ SessionInv' /\ page'[h] = page[h]
<1>1. /\ host[h] = "sent" /\ host'[h] = "receiving" /\ status[h] /\ ~status'[h]
      /\ page' = page /\ node' = node /\ stubEvent' = stubEvent
      /\ asked'[h] = asked[h] /\ got'[h] = got[h] /\ hostEvent'[h] = hostEvent[h]
  BY DEF IInv, TypeOK, send_status
<1>2. Linked(h) /\ LinkedInv(h)
  BY <1>1, HostCases DEF Gone, ApartInv, CrossedInv
<1>3. /\ stub = "take" /\ page[h] = Empty /\ asked[h] = Len(done) /\ got[h] = <<>> /\ ~hostEvent[h]
      /\ current.part = 0
  BY <1>1, <1>2 DEF LinkedInv, Open, IInv, SessionInv, Linked
<1>4. LinkedInv(h)'
  BY <1>1, <1>3, EmptySeq DEF LinkedInv, Awaited, Moves, Open, NoEvent
<1>5. HostInv(h)'
  BY <1>2, <1>4, StandsAsBefore DEF Linked
<1>6. NodeInv(h)' /\ GotInv(h)'
  BY <1>1, OfEach DEF NodeInv, GotInv, FirstReplies
<1>7. SessionInv'
  BY <1>1, SessionStays, SessionGoesOn
<1>8. QED
  BY <1>1, <1>5, <1>6, <1>7 DEF HostOK

\* It takes a message, ...
LEMMA ReceiveKeeps ==
  ASSUME OneAtATime, IInv, NEW h \in Hosts, Moves(h), receive(h)
  PROVE  HostOK(h) /\ SessionInv' /\ ~(grant = h /\ stub = "bind")
<1>1. /\ host[h] = "receiving" /\ host'[h] = "acking" /\ page[h] # Empty /\ hostEvent[h] /\ ~hostEvent'[h]
      /\ got'[h] = Append(got[h], page[h]) /\ page'[h] = Empty /\ status'[h]
      /\ node' = node /\ stubEvent' = stubEvent /\ asked'[h] = asked[h]
      /\ got[h] \in Seq(Messages)
  BY DEF IInv, TypeOK, receive, Pending
<1>2. Linked(h) /\ LinkedInv(h)
  BY <1>1, HostCases DEF Gone, ApartInv, CrossedInv
<1>3. /\ stub = "status" /\ page[h] = Reply(Command(h, asked[h]), current.part)
      /\ current.part = Len(got[h]) + 1 /\ asked[h] = Len(done)
  BY <1>1, <1>2 DEF LinkedInv, Open, Given
<1>4. Len(got'[h]) = Len(got[h]) + 1 /\ got'[h] # <<>>
  BY <1>1
<1>5. LinkedInv(h)'
  BY <1>1, <1>3, <1>4 DEF LinkedInv, Awaited, Moves
<1>6. HostInv(h)'
  BY <1>2, <1>5, StandsAsBefore DEF Linked
<1>7. NodeInv(h)'
  BY <1>1, OfEach DEF NodeInv
<1>8. GotInv(h)'
  <2>1. got[h] = FirstReplies(h, asked[h], Len(got[h])) /\ Len(got[h]) \in Nat
    BY <1>1 DEF IInv, GotInv
  <2>2. got'[h] = FirstReplies(h, asked[h], Len(got[h]) + 1)
    BY ZenonT(60), <1>1, <1>3, <2>1, FirstOnes
  <2>3. QED
    BY <1>1, <1>4, <2>2 DEF GotInv, FirstReplies
<1>9. SessionInv'
  BY <1>1, <1>2, <1>3, SessionGoesOn DEF Open
<1>10. QED
  BY <1>3, <1>6, <1>7, <1>8, <1>9 DEF HostOK

\* ... or nothing, ...
LEMMA NothingKeeps ==
  ASSUME OneAtATime, IInv, NEW h \in Hosts, Moves(h), receive_nothing(h)
  PROVE  HostOK(h) /\ SessionInv' /\ page'[h] = page[h]
<1>1. /\ host[h] = "receiving" /\ host'[h] \in {"idle", "receiving"} /\ page[h] = Empty
      /\ hostEvent[h] /\ ~hostEvent'[h]
      /\ page' = page /\ status' = status /\ node' = node /\ stubEvent' = stubEvent
      /\ asked'[h] = asked[h] /\ got'[h] = got[h]
  BY DEF IInv, TypeOK, receive_nothing, Pending
<1>2. InSession /\ channel = h
  BY <1>1, HostCases DEF Gone, ApartInv, Linked
<1>3. Linked(h) => LinkedInv(h)'
  <2> SUFFICES ASSUME Linked(h) PROVE LinkedInv(h)'
    OBVIOUS
  <2>1. LinkedInv(h)
    BY <1>1, HostCases DEF Gone, Linked
  <2>2. SessionInv /\ grant = h /\ channel = h /\ InSession
    BY DEF IInv, Linked
  <2>3. stub = "status" /\ Given(h) => FALSE
    <3>1. asked[h] \in Commands => Reply(Command(h, asked[h]), current.part).kind = "reply"
      <4> SUFFICES ASSUME asked[h] \in Commands
                   PROVE  Reply(Command(h, asked[h]), current.part).kind = "reply"
        OBVIOUS
      <4>1. Command(h, asked[h]) \in Messages
        BY AreMessages
      <4>2. QED
        BY <4>1, Fields
    <3>2. stub = "status" => Len(done) \in Commands
      BY <2>2 DEF SessionInv, Open, Commands
    <3>3. stub = "status" => asked[h] = Len(done)
      BY <1>1, <2>1 DEF LinkedInv, Open
    <3>4. Empty.kind = "none"
      BY AreMessages, Fields
    <3>5. QED
      BY <1>1, <3>1, <3>2, <3>3, <3>4 DEF Given
  <2>4. Open /\ NoEvent /\ asked[h] = Len(Replies) /\ got[h] = <<>>
    BY <1>1, <2>1, <2>3 DEF LinkedInv
  <2>5. QED
    BY <1>1, <2>4 DEF LinkedInv, Open, NoEvent, Moves
<1>4. ~Linked(h) => CrossedInv(h)'
  BY <1>1, <1>2, HostCases DEF Gone, CrossedInv
<1>5. HostInv(h)'
  BY <1>2, <1>3, <1>4, StandsAsBefore
<1>6. NodeInv(h)' /\ GotInv(h)'
  BY <1>1, OfEach DEF NodeInv, GotInv, FirstReplies
<1>7. SessionInv'
  BY <1>1, SessionStays, SessionGoesOn
<1>8. QED
  BY <1>1, <1>5, <1>6, <1>7 DEF HostOK

\* ... and sees that the stub domain knows.
LEMMA AckedKeeps ==
  ASSUME OneAtATime, IInv, NEW h \in Hosts, Moves(h), receive_acked(h)
  PROVE  HostOK(h) /\ SessionInv' /\ page'[h] = page[h]
<1>1. /\ host[h] = "acking" /\ host'[h] = (IF More(h) THEN "receiving" ELSE "idle") /\ ~status[h]
      /\ page' = page /\ status' = status /\ node' = node /\ stubEvent' = stubEvent
      /\ asked'[h] = asked[h] /\ got'[h] = got[h] /\ hostEvent'[h] = hostEvent[h]
  BY DEF IInv, TypeOK, receive_acked
<1>2. Linked(h) /\ LinkedInv(h)
  BY <1>1, HostCases DEF Gone, ApartInv, CrossedInv
<1>3. SessionInv /\ grant = h /\ channel = h /\ InSession /\ asked[h] = Len(done)
  BY <1>1, <1>2 DEF IInv, Linked, LinkedInv
<1>4. /\ Len(got[h]) \in Nat
      /\ stub \in {"interpret", "notify", "status"} => Replies[Len(done)] \in Nat
  BY <1>3, Numbers DEF IInv, TypeOK, SessionInv, Open, Commands
<1>5. Open => LinkedInv(h)'
  <2>0. SUFFICES ASSUME Open PROVE LinkedInv(h)'
    OBVIOUS
  <2>1. NoEvent /\ page[h] = Empty /\ ~hostEvent[h] /\ Len(got[h]) = Replies[asked[h]]
    BY <1>1, <1>2, <2>0 DEF LinkedInv, Open
  <2>2. host'[h] = "idle"
    BY <1>1, <1>4, <2>1 DEF More
  <2>3. LinkedInv(h)'
    BY <1>1, <1>3, <2>0, <2>1, <2>2 DEF LinkedInv, Open, NoEvent, Moves
  <2>4. QED
    BY <2>3
<1>6. stub = "interpret" => LinkedInv(h)'
  <2>0. SUFFICES ASSUME stub = "interpret" PROVE LinkedInv(h)'
    OBVIOUS
  <2>1. Awaited(h) /\ ~status[h] /\ ~hostEvent[h]
    BY <1>1, <1>2, <2>0 DEF LinkedInv, Open
  <2>2. host'[h] = "receiving"
    BY <1>1, <1>3, <1>4, <2>0, <2>1 DEF More, Awaited, SessionInv, Open
  <2>3. LinkedInv(h)'
    BY <1>1, <1>3, <2>0, <2>1, <2>2 DEF LinkedInv, Awaited, Moves
  <2>4. QED
    BY <2>3
<1>7. stub \in {"notify", "status"} => LinkedInv(h)'
  <2>0. SUFFICES ASSUME stub \in {"notify", "status"} PROVE LinkedInv(h)'
    OBVIOUS
  <2>1. Given(h) /\ (stub = "notify" => ~hostEvent[h])
    BY <1>1, <1>2, <2>0 DEF LinkedInv, Open
  <2>2. host'[h] = "receiving"
    BY <1>1, <1>3, <1>4, <2>0, <2>1 DEF More, Given, SessionInv, Open
  <2>3. LinkedInv(h)'
    BY <1>1, <1>3, <2>0, <2>1, <2>2 DEF LinkedInv, Given, Moves
  <2>4. QED
    BY <2>3
<1>8. LinkedInv(h)'
  BY <1>1, <1>2, <1>5, <1>6, <1>7 DEF LinkedInv
<1>9. HostInv(h)'
  BY <1>2, <1>8, StandsAsBefore DEF Linked
<1>10. NodeInv(h)' /\ GotInv(h)'
  BY <1>1, OfEach DEF NodeInv, GotInv, FirstReplies
<1>11. SessionInv'
  BY <1>1, SessionStays, SessionGoesOn
<1>12. QED
  BY <1>1, <1>9, <1>10, <1>11 DEF HostOK

\* It ends its session, ...
LEMMA WhackKeeps ==
  ASSUME OneAtATime, IInv, NEW h \in Hosts, Moves(h), whack(h)
  PROVE  HostOK(h) /\ SessionInv' /\ ~(grant = h /\ stub = "bind")
<1>1. /\ host[h] = "idle" /\ host'[h] = "closing" /\ page'[h] = End
      /\ status' = status /\ node' = node /\ stubEvent' = stubEvent
      /\ asked'[h] = asked[h] /\ got'[h] = got[h] /\ hostEvent'[h] = hostEvent[h]
  BY DEF IInv, TypeOK, whack
<1>2. InSession /\ channel = h
  BY <1>1, HostCases DEF Gone, ApartInv, Linked
<1>3. Linked(h) => LinkedInv(h)' /\ Open /\ NoEvent
  BY <1>1, HostCases DEF Gone, LinkedInv, Linked, Moves, Open, NoEvent
<1>4. ~Linked(h) => CrossedInv(h)'
  BY <1>1, <1>2, HostCases DEF Gone, CrossedInv
<1>5. HostInv(h)'
  BY <1>2, <1>3, <1>4, StandsAsBefore
<1>6. NodeInv(h)' /\ GotInv(h)'
  BY <1>1, OfEach DEF NodeInv, GotInv, FirstReplies
<1>7. SessionInv'
  BY <1>1, <1>3, SessionStays, SessionGoesOn DEF Open
<1>8. QED
  BY <1>2, <1>5, <1>6, <1>7 DEF HostOK, InSession

\* ... removes its nodes, ...
LEMMA RemoveKeeps ==
  ASSUME OneAtATime, IInv, NEW h \in Hosts, Moves(h), remove_grant(h) \/ remove_channel(h)
  PROVE  HostOK(h) /\ SessionInv' /\ page'[h] = page[h]
<1>1. /\ page' = page /\ status' = status /\ stubEvent' = stubEvent
      /\ asked'[h] = asked[h] /\ got'[h] = got[h] /\ hostEvent'[h] = hostEvent[h]
      /\ \/ host[h] = "closing" /\ host'[h] = "removing" /\ node' = [node EXCEPT !["grant-ref"] = None]
         \/ host[h] = "removing" /\ host'[h] = "parting" /\ node' = [node EXCEPT !["event-channel"] = None]
  BY DEF IInv, TypeOK, remove_grant, remove_channel, Remove
<1>2. InSession /\ channel = h
  BY <1>1, HostCases DEF Gone, ApartInv, Linked
<1>3. Linked(h) => LinkedInv(h)'
  BY <1>1, HostCases DEF Gone, LinkedInv, Linked, Moves, Open, NoEvent
<1>4. ~Linked(h) => CrossedInv(h)'
  BY <1>1, <1>2, HostCases DEF Gone, CrossedInv
<1>5. HostInv(h)'
  BY <1>2, <1>3, <1>4, StandsAsBefore
<1>6. NodeInv(h)'
  <2>1. NodeInv(h) /\ h # None
    BY DEF IInv, OneAtATime
  <2>2. node \in [{"grant-ref", "event-channel"} -> Hosts \cup {None}]
    BY DEF IInv, TypeOK
  <2>3. QED
    BY <1>1, <2>1, <2>2 DEF NodeInv
<1>7. GotInv(h)'
  BY <1>1, OfEach DEF GotInv, FirstReplies
<1>8. SessionInv'
  BY <1>1, SessionStays, SessionGoesOn
<1>9. QED
  BY <1>1, <1>5, <1>6, <1>7, <1>8 DEF HostOK

\* ... and is gone, if it is not killed before.
LEMMA EndKeeps ==
  ASSUME OneAtATime, IInv, NEW h \in Hosts, Moves(h), whack_pending(h) \/ kill(h)
  PROVE  HostOK(h) /\ SessionInv' /\ page'[h] = page[h]
<1>1. /\ host'[h] \in {"ended", "killed"} /\ page' = page /\ node' = node /\ stubEvent' = stubEvent
      /\ asked'[h] = asked[h] /\ got'[h] = got[h]
  BY DEF IInv, TypeOK, whack_pending, kill
<1>2. HostInv(h)'
  BY <1>1 DEF HostInv, Gone
<1>3. NodeInv(h)' /\ GotInv(h)'
  BY ZenonT(60), <1>1, OfEach DEF NodeInv, GotInv, FirstReplies
<1>4. SessionInv'
  BY <1>1, SessionStays, SessionGoesOn
<1>5. QED
  BY <1>1, <1>2, <1>3, <1>4 DEF HostOK

\* So every step of an orchestrator keeps the invariant.
LEMMA HostKeeps ==
  ASSUME OneAtATime, IInv, NEW h \in Hosts, Host(h) \/ kill(h)
  PROVE  IInv'
<1>1. TypeOK'
  BY HostTypes DEF IInv
<1>2. Moves(h)
  BY HostMoves DEF IInv
<1>3. HostOK(h) /\ SessionInv' /\ (grant = h /\ stub = "bind" => page'[h] = page[h])
  BY <1>2, AnnounceKeeps, PendingKeeps, ConfirmKeeps, LoadKeeps, NotifyKeeps, StatusKeeps, ReceiveKeeps,
     NothingKeeps, AckedKeeps, WhackKeeps, RemoveKeeps, EndKeeps DEF Host
<1>4. stub = "bind" => page[grant] = Empty
  BY DEF IInv, StubInv
<1>5. StubInv'
  BY <1>2, <1>3, <1>4, StubStays
<1>6. QED
  BY <1>1, <1>2, <1>3, <1>5, OthersStay DEF IInv, HostOK

-----------------------------------------------------------------------------
(* The steps of the stub domain.                                           *)

\* It leaves alone what the orchestrators keep.
LEMMA StubLeaves ==
  ASSUME IInv, Stub \/ event_handler
  PROVE  /\ UNCHANGED <<host, asked, got, node>>
         /\ OneAtWork' /\ \A h \in Hosts : NodeInv(h)' /\ GotInv(h)'
<1>1. UNCHANGED <<host, asked, got, node>>
  BY DEF Stub, accept_connect, accept_grant, accept_channel, event_handler, receive_flag, receive_status,
         receive_end, receive_command, receive_taken, reset, reply, reply_notify, reply_status
<1>2. OneAtWork'
  BY <1>1 DEF IInv, OneAtWork, AtWork, Gone
<1>3. ASSUME NEW h \in Hosts PROVE NodeInv(h)' /\ GotInv(h)'
  <2>1. NodeInv(h) /\ GotInv(h)
    BY DEF IInv
  <2>2. QED
    BY <1>1, <2>1 DEF NodeInv, GotInv, FirstReplies
<1>4. QED
  BY <1>1, <1>2, <1>3

\* Outside of a session the orchestrators stay apart.
LEMMA ApartStay ==
  ASSUME IInv, ~InSession, ~InSession', UNCHANGED <<host, asked, got, hostEvent>>,
         \A k \in Hosts : page'[k] \in {page[k], Empty},
         NEW h \in Hosts
  PROVE  HostInv(h)'
<1>1. CASE Gone(h)
  BY <1>1 DEF HostInv, Gone
<1>2. CASE ~Gone(h)
  <2>1. ApartInv(h)
    BY <1>2, HostCases DEF Linked
  <2>2. ApartInv(h)'
    BY <2>1 DEF ApartInv
  <2>3. QED
    BY <2>2 DEF HostInv, Linked
<1>3. QED
  BY <1>1, <1>2

\* In a session it is only the one that is linked to whom something happens.
LEMMA SessionHosts ==
  ASSUME IInv, InSession, InSession', UNCHANGED <<host, asked, got, grant, channel>>,
         \A k \in Hosts \ {grant} : page'[k] = page[k] /\ status'[k] = status[k],
         \A k \in Hosts \ {channel} : hostEvent'[k] = hostEvent[k],
         channel = grant /\ ~Gone(grant) /\ LinkedInv(grant) => LinkedInv(grant)',
         NEW h \in Hosts
  PROVE  HostInv(h)'
<1>1. CASE Gone(h)
  BY <1>1 DEF HostInv, Gone
<1>2. CASE ~Gone(h) /\ Linked(h)
  <2>1. LinkedInv(h) /\ channel = grant /\ h = grant
    BY <1>2, HostCases DEF Linked
  <2>2. LinkedInv(h)'
    BY <1>2, <2>1
  <2>3. QED
    BY <1>2, <2>2 DEF HostInv, Linked
<1>3. CASE ~Gone(h) /\ ~Linked(h) /\ channel = h
  <2>1. CrossedInv(h) /\ h # grant
    BY <1>3, HostCases DEF Linked
  <2>2. page'[h] = page[h] /\ status'[h] = status[h]
    BY <2>1
  <2>3. CrossedInv(h)'
    BY <2>1, <2>2 DEF CrossedInv
  <2>4. QED
    BY <1>3, <2>3 DEF HostInv, Linked
<1>4. CASE ~Gone(h) /\ channel # h
  <2>1. ApartInv(h)
    BY <1>4, HostCases DEF Linked
  <2>2. h # grant
    BY <1>4 DEF IInv, StubInv, Crossed
  <2>3. page'[h] = page[h] /\ hostEvent'[h] = hostEvent[h]
    BY <1>4, <2>2
  <2>4. ApartInv(h)'
    BY <2>1, <2>3 DEF ApartInv
  <2>5. QED
    BY <1>4, <2>4 DEF HostInv, Linked
<1>5. QED
  BY <1>1, <1>2, <1>3, <1>4 DEF Linked

\* What a step of the stub domain has to show.
StubOK == StubInv' /\ SessionInv' /\ \A h \in Hosts : HostInv(h)'

\* It looks for a connect, ...
LEMMA ConnectKeeps ==
  ASSUME OneAtATime, IInv, accept_connect
  PROVE  StubOK
<1>1. /\ stub = "accept" /\ stub' \in {"map", "accept"}
      /\ UNCHANGED <<host, asked, got, hostEvent, grant, channel, stubEvent, haveEvent, current, done,
                     page, status>>
  BY DEF accept_connect
<1>2. ~InSession /\ ~InSession'
  BY <1>1 DEF InSession
<1>3. \A h \in Hosts : HostInv(h)'
  BY <1>1, <1>2, ApartStay
<1>4. SessionInv'
  BY <1>2 DEF SessionInv
<1>5. StubInv'
  BY <1>1, <1>2 DEF IInv, StubInv, Crossed
<1>6. QED
  BY <1>3, <1>4, <1>5 DEF StubOK

\* ... maps the page, if there is one, ...
LEMMA GrantKeeps ==
  ASSUME OneAtATime, IInv, accept_grant
  PROVE  StubOK
<1>1. /\ stub = "map" /\ stub' = (IF Usable("grant-ref") THEN "bind" ELSE "ended")
      /\ UNCHANGED <<host, asked, got, hostEvent, channel, stubEvent, haveEvent, current, done>>
      /\ grant' = IF Usable("grant-ref") THEN node["grant-ref"] ELSE None
      /\ page' = IF Usable("grant-ref") THEN [page EXCEPT ![grant'] = Empty] ELSE page
  BY DEF accept_grant
<1>2. ~InSession /\ ~InSession'
  BY <1>1 DEF InSession
<1>3. channel = None /\ done = <<>> /\ ~stubEvent
  BY <1>1, <1>2 DEF IInv, StubInv
<1>4. page \in [Hosts -> Messages] /\ node["grant-ref"] \in Hosts \cup {None}
  BY DEF IInv, TypeOK
<1>5. \A k \in Hosts : page'[k] \in {page[k], Empty}
  BY <1>1, <1>4
<1>6. \A h \in Hosts : HostInv(h)'
  BY <1>1, <1>2, <1>5, ApartStay
<1>7. SessionInv'
  BY <1>2 DEF SessionInv
<1>8. Usable("grant-ref") => grant' \in Hosts /\ host[grant'] # "off" /\ page'[grant'] = Empty
  <2>1. Usable("grant-ref") => grant' \in Hosts
    BY <1>1, <1>4 DEF Usable
  <2>2. \A h \in Hosts : NodeInv(h)
    BY DEF IInv
  <2>3. QED
    BY <1>1, <1>4, <2>1, <2>2 DEF NodeInv
<1>9. StubInv'
  BY <1>1, <1>2, <1>3, <1>8 DEF StubInv, Crossed, OneAtATime
<1>10. QED
  BY <1>6, <1>7, <1>9 DEF StubOK

\* ... and binds the channel, if there is one.
LEMMA ChannelKeeps ==
  ASSUME OneAtATime, IInv, accept_channel
  PROVE  StubOK
<1>0. StubInv /\ TypeOK /\ OneAtWork /\ \A h \in Hosts : NodeInv(h)
  BY DEF IInv
<1>1. /\ stub = "bind" /\ UNCHANGED <<host, asked, got, grant, stubEvent, current, done, page>>
  BY DEF accept_channel
<1>2. ~InSession /\ grant \in Hosts /\ page[grant] = Empty /\ host[grant] # "off"
  BY <1>0, <1>1 DEF InSession, StubInv, TypeOK
<1>3. channel = None /\ done = <<>> /\ ~stubEvent
  BY <1>0, <1>1, <1>2 DEF StubInv
<1>4. CASE ~Usable("event-channel")
  <2>1. stub' = "ended" /\ channel' = None /\ hostEvent' = hostEvent
    BY <1>4 DEF accept_channel
  <2>2. ~InSession'
    BY <2>1 DEF InSession
  <2>3. \A h \in Hosts : HostInv(h)'
    BY <1>1, <1>2, <2>1, <2>2, ApartStay
  <2>4. StubInv' /\ SessionInv'
    BY <1>1, <1>3, <2>1, <2>2 DEF StubInv, SessionInv, Crossed
  <2>5. QED
    BY <2>3, <2>4 DEF StubOK
<1>5. CASE Usable("event-channel")
  <2>1. /\ stub' = "receive" /\ channel' = node["event-channel"]
        /\ hostEvent' = [hostEvent EXCEPT ![channel'] = TRUE]
    BY <1>5 DEF accept_channel
  <2>2. channel' \in Hosts /\ ~Gone(channel')
    BY <1>0, <1>5, <2>1 DEF Usable, TypeOK
  <2>3. InSession' /\ Open' /\ NoEvent'
    BY <1>1, <1>3, <2>1 DEF InSession, Open, NoEvent
  <2>4. host[channel'] \notin {"off", "connecting", "granting", "parting", "ending"}
    BY <1>0, <2>1, <2>2 DEF NodeInv
  <2>5. \A h \in Hosts : ~Gone(h) => ApartInv(h)
    BY <1>2, HostCases DEF Linked
  <2>6. host[channel'] \in {"offered", "receiving"}
    BY <2>2, <2>4, <2>5 DEF ApartInv
  <2>7. channel' # grant => Gone(grant)
    BY <1>0, <1>2, <2>2, <2>4 DEF OneAtWork, AtWork
  <2>8. StubInv'
    BY <1>1, <1>2, <1>3, <2>1, <2>2, <2>3, <2>7 DEF StubInv, Crossed, InSession, Gone, OneAtATime
  <2>9. SessionInv'
    <3>1. FirstCommands(grant', Len(done')) = <<>>
      BY <1>1, <1>3, EmptySeq DEF FirstCommands
    <3>2. stub' \notin {"arm", "wait"}
      BY <2>1
    <3>3. QED
      BY <1>1, <1>3, <2>3, <3>1, <3>2 DEF SessionInv
  <2>10. ASSUME NEW h \in Hosts, ~Gone(h) PROVE HostInv(h)'
    <3>1. ApartInv(h)
      BY <2>5, <2>10
    <3>2. CASE h = channel' /\ h = grant
      <4>1. LinkedInv(h)'
        BY <1>1, <1>3, <2>2, <2>3, <2>6, <3>1, <3>2 DEF ApartInv, LinkedInv
      <4>2. QED
        BY <1>1, <2>3, <3>2, <4>1 DEF HostInv, Linked
    <3>3. CASE h = channel' /\ h # grant
      <4>1. CrossedInv(h)'
        BY <1>1, <2>6, <3>1, <3>3 DEF ApartInv, CrossedInv
      <4>2. QED
        BY <1>1, <2>3, <3>3, <4>1 DEF HostInv, Linked
    <3>4. CASE h # channel'
      <4>1. hostEvent'[h] = hostEvent[h]
        BY <1>0, <2>1, <2>2, <3>4 DEF TypeOK
      <4>2. ApartInv(h)'
        BY <1>1, <3>1, <4>1 DEF ApartInv
      <4>3. QED
        BY <3>4, <4>2 DEF HostInv, Linked
    <3>5. QED
      BY <3>2, <3>3, <3>4
  <2>11. ASSUME NEW h \in Hosts, Gone(h) PROVE HostInv(h)'
    BY <1>1, <2>11 DEF HostInv, Gone
  <2>12. QED
    BY <2>8, <2>9, <2>10, <2>11 DEF StubOK
<1>6. QED
  BY <1>4, <1>5

\* The handler and the stub domain clear what tells of an event, ...
LEMMA EventKeeps ==
  ASSUME OneAtATime, IInv, event_handler \/ receive_flag \/ receive_status
  PROVE  StubOK
<1>0. StubInv /\ SessionInv /\ TypeOK
  BY DEF IInv
<1>1. UNCHANGED <<host, asked, got, grant, channel, hostEvent, current, done, page>>
  BY DEF event_handler, receive_flag, receive_status
<1>2. CASE event_handler
  <2>1. stubEvent /\ ~stubEvent' /\ haveEvent' /\ UNCHANGED <<stub, status>>
    BY <1>2 DEF event_handler
  <2>2. InSession /\ InSession' /\ ~NoEvent /\ UNCHANGED <<Open, Crossed>>
    BY <1>0, <1>1, <2>1 DEF StubInv, InSession, NoEvent, Open, Crossed
  <2>3. StubInv'
    BY <1>0, <1>1, <2>1, <2>2 DEF StubInv, Gone
  <2>4. channel = grant => Open
    BY <1>0, <2>1, <2>2 DEF SessionInv
  <2>5. SessionInv'
    BY <1>0, <1>1, <2>1, <2>2, <2>4 DEF SessionInv, FirstCommands
  <2>6. channel = grant /\ LinkedInv(grant) => LinkedInv(grant)'
    BY <1>1, <2>1, <2>2, <2>4 DEF LinkedInv, Awaited, Given, Open
  <2>7. \A h \in Hosts : HostInv(h)'
    BY <1>1, <2>1, <2>2, <2>6, SessionHosts
  <2>8. QED
    BY <2>3, <2>5, <2>7 DEF StubOK
<1>3. CASE receive_flag \/ receive_status
  <2>1. /\ stub \in {"receive", "arm"} /\ stub' \in {"arm", "wait"} /\ stubEvent' = stubEvent
        /\ stub = "receive" => ~haveEvent'
        /\ stub # "receive" => haveEvent' = haveEvent
        /\ stub # "arm" => status' = status
        /\ stub = "arm" => status' = [status EXCEPT ![grant] = FALSE]
    BY <1>3 DEF receive_flag, receive_status
  <2>2. InSession /\ InSession' /\ Open /\ Open'
    BY <2>1 DEF InSession, Open
  <2>3. grant \in Hosts /\ (status'[grant] => status[grant])
    BY <1>0, <2>1, <2>2 DEF TypeOK, StubInv
  <2>4. NoEvent => NoEvent'
    BY <2>1 DEF NoEvent
  <2>5. StubInv'
    BY <1>0, <1>1, <2>1, <2>2 DEF StubInv, Crossed, Gone
  <2>6. SessionInv'
    BY <1>0, <1>1, <2>1, <2>2, <2>4 DEF SessionInv, FirstCommands
  <2>7. channel = grant /\ LinkedInv(grant) => LinkedInv(grant)'
    BY <1>1, <2>1, <2>2, <2>3, <2>4 DEF LinkedInv
  <2>8. \A k \in Hosts \ {grant} : status'[k] = status[k]
    BY <1>0, <2>1 DEF TypeOK
  <2>9. \A h \in Hosts : HostInv(h)'
    BY <1>1, <2>2, <2>7, <2>8, SessionHosts
  <2>10. QED
    BY <2>5, <2>6, <2>9 DEF StubOK
<1>4. QED
  BY <1>2, <1>3

\* ... and with the event comes the end, ...
LEMMA SessionEndKeeps ==
  ASSUME OneAtATime, IInv, receive_end
  PROVE  StubOK
<1>0. StubInv /\ SessionInv /\ TypeOK
  BY DEF IInv
<1>1. /\ stub = "wait" /\ stub' = "accept" /\ haveEvent /\ page[grant] = End
      /\ UNCHANGED <<host, asked, got, page, status>>
      /\ grant' = None /\ channel' = None /\ ~stubEvent' /\ done' = <<>>
      /\ \A k \in Hosts \ {channel} : hostEvent'[k] = hostEvent[k]
  BY <1>0 DEF receive_end, NotifyHost, TypeOK
<1>2. InSession /\ ~InSession' /\ Open
  BY <1>1 DEF InSession, Open
<1>3. channel = grant
  BY <1>0, <1>1, <1>2, Differ DEF StubInv, Crossed
<1>4. StubInv' /\ SessionInv'
  BY <1>1, <1>2 DEF StubInv, SessionInv, Crossed
<1>5. ASSUME NEW h \in Hosts PROVE HostInv(h)'
  <2>1. CASE Gone(h)
    BY <1>1, <2>1 DEF HostInv, Gone
  <2>2. CASE ~Gone(h) /\ h # channel
    <3>1. ApartInv(h)
      BY <1>3, <2>2, HostCases DEF Linked
    <3>2. ApartInv(h)'
      BY <1>1, <2>2, <3>1 DEF ApartInv
    <3>3. QED
      BY <1>2, <3>2 DEF HostInv, Linked
  <2>3. CASE ~Gone(h) /\ h = channel
    <3>1. LinkedInv(h)
      BY <1>2, <1>3, <2>3, HostCases DEF Linked
    <3>2. ~NoEvent
      BY <1>1 DEF NoEvent
    <3>3. host[h] = "ending"
      BY <1>0, <1>1, <1>2, <1>3, <2>3, <3>1, <3>2, Differ DEF LinkedInv, Open, Gone, TypeOK, HostStates
    <3>4. ApartInv(h)'
      BY <1>1, <3>3 DEF ApartInv
    <3>5. QED
      BY <1>2, <3>4 DEF HostInv, Linked
  <2>4. QED
    BY <2>1, <2>2, <2>3
<1>6. QED
  BY <1>4, <1>5 DEF StubOK

\* ... or a command ...
LEMMA CommandKeeps ==
  ASSUME OneAtATime, IInv, receive_command
  PROVE  StubOK
<1>0. StubInv /\ SessionInv /\ TypeOK
  BY DEF IInv
<1>1. /\ stub = "wait" /\ stub' = "take" /\ haveEvent /\ page[grant] # End
      /\ UNCHANGED <<host, asked, got, hostEvent, grant, channel, stubEvent, haveEvent>>
      /\ current' = page[grant] /\ done' = Append(done, page[grant])
      /\ page' = [page EXCEPT ![grant] = Empty] /\ status' = [status EXCEPT ![grant] = TRUE]
  BY DEF receive_command
<1>2. InSession /\ InSession' /\ Open /\ ~Open' /\ ~NoEvent
  BY <1>1 DEF InSession, Open, NoEvent
<1>3. /\ grant \in Hosts /\ page'[grant] = Empty /\ status'[grant]
      /\ \A k \in Hosts \ {grant} : page'[k] = page[k] /\ status'[k] = status[k]
  BY <1>0, <1>1, <1>2 DEF StubInv, TypeOK
<1>4. StubInv'
  BY <1>0, <1>1, <1>2, <1>3 DEF StubInv, Crossed, Gone
<1>5. channel = grant =>
        /\ current' = Command(grant, Len(done) + 1) /\ ~stubEvent
        /\ Len(done) \in Nat /\ Len(done') = Len(done) + 1
        /\ done' = FirstCommands(grant, Len(done'))
  <2> SUFFICES ASSUME channel = grant
               PROVE  /\ current' = Command(grant, Len(done) + 1) /\ ~stubEvent
                      /\ Len(done) \in Nat /\ Len(done') = Len(done) + 1
                      /\ done' = FirstCommands(grant, Len(done'))
    OBVIOUS
  <2>1. page[grant] = Command(grant, Len(done) + 1) /\ ~stubEvent /\ done = FirstCommands(grant, Len(done))
    BY <1>0, <1>1, <1>2 DEF SessionInv
  <2>2. done \in Seq(Messages) /\ page[grant] \in Messages
    BY <1>0, <1>3 DEF TypeOK
  <2>3. Len(done) \in Nat /\ Len(done') = Len(done) + 1
    BY <1>1, <2>2
  <2>4. QED
    BY <1>1, <2>1, <2>3, FirstOnes
<1>6. SessionInv'
  <2> SUFFICES ASSUME channel = grant PROVE SessionInv'
    BY <1>1 DEF SessionInv
  <2>1. current' \in Messages
    BY <1>0, <1>1, <1>3 DEF TypeOK
  <2>2. /\ current'.kind = "command" /\ current'.by = grant /\ current'.number = Len(done')
        /\ current'.part = 0
    BY SMTT(30), <1>5, <2>1, Fields
  <2>3. Len(done') \in DOMAIN Replies
    BY <1>5, <2>1, <2>2, Numbers DEF Messages, Commands
  <2>4. QED
    BY <1>1, <1>2, <1>5, <2>2, <2>3 DEF SessionInv, FirstCommands
<1>7. channel = grant /\ ~Gone(grant) /\ LinkedInv(grant) => LinkedInv(grant)'
  <2> SUFFICES ASSUME channel = grant, ~Gone(grant), LinkedInv(grant) PROVE LinkedInv(grant)'
    OBVIOUS
  <2>1. page[grant] = Command(grant, Len(done) + 1)
    BY <1>1, <1>5
  <2>2. page[grant] \notin {Empty, End}
    BY <2>1, Differ
  <2>3. host[grant] = "sent" /\ got[grant] = <<>> /\ ~hostEvent[grant] /\ asked[grant] = Len(done) + 1
    BY <1>0, <1>1, <1>2, <1>3, <2>2 DEF LinkedInv, Open, Gone, TypeOK, HostStates
  <2>4. LinkedInv(grant)'
    BY <1>1, <1>3, <1>5, <2>3 DEF LinkedInv
  <2>5. QED
    BY <2>4
<1>8. \A h \in Hosts : HostInv(h)'
  BY <1>1, <1>2, <1>3, <1>7, SessionHosts
<1>9. QED
  BY <1>4, <1>6, <1>8 DEF StubOK

\* ... that the orchestrator sees is taken.
LEMMA TakenKeeps ==
  ASSUME OneAtATime, IInv, receive_taken
  PROVE  StubOK
<1>0. StubInv /\ SessionInv /\ TypeOK
  BY DEF IInv
<1>1. /\ stub = "take" /\ stub' = "interpret" /\ ~status[grant]
      /\ UNCHANGED <<host, asked, got, hostEvent, grant, channel, stubEvent, haveEvent, current, done,
                     page, status>>
  BY DEF receive_taken
<1>2. InSession /\ InSession' /\ ~Open /\ ~Open'
  BY <1>1 DEF InSession, Open
<1>3. channel = grant
  BY <1>0, <1>1, <1>2 DEF StubInv, Crossed
<1>4. StubInv'
  BY <1>0, <1>1, <1>2, <1>3 DEF StubInv, Crossed, Gone
<1>5. current.part = 0 /\ Replies[Len(done)] > 0
  BY <1>0, <1>1, <1>2, <1>3, Numbers DEF SessionInv, Commands
<1>6. SessionInv'
  BY <1>0, <1>1, <1>2, <1>3, <1>5 DEF SessionInv, FirstCommands
<1>7. ~Gone(grant) /\ LinkedInv(grant) => LinkedInv(grant)'
  BY <1>1, <1>2 DEF LinkedInv, Awaited
<1>8. \A h \in Hosts : HostInv(h)'
  BY <1>1, <1>2, <1>7, SessionHosts
<1>9. QED
  BY <1>4, <1>6, <1>8 DEF StubOK

\* A reset ends the session from this end, ...
LEMMA ResetKeeps ==
  ASSUME OneAtATime, IInv, reset
  PROVE  StubOK
<1>0. StubInv /\ SessionInv /\ TypeOK
  BY DEF IInv
<1>1. /\ stub = "interpret" /\ stub' = "accept" /\ current.number \in Reset
      /\ UNCHANGED <<host, asked, got, hostEvent, page, status>>
      /\ grant' = None /\ channel' = None /\ ~stubEvent' /\ done' = <<>>
  BY DEF reset
<1>2. InSession /\ ~InSession' /\ ~Open
  BY <1>1 DEF InSession, Open
<1>3. channel = grant
  BY <1>0, <1>1, <1>2 DEF StubInv, Crossed
<1>4. StubInv' /\ SessionInv'
  BY <1>1, <1>2 DEF StubInv, SessionInv, Crossed
<1>5. Len(done) = Len(Replies) /\ current.part = 0
  <2>1. current.number = Len(done) /\ (Len(done) \in Reset => current.part = 0)
    BY <1>0, <1>1, <1>2, <1>3 DEF SessionInv
  <2>2. QED
    BY <1>1, <2>1 DEF OneAtATime
<1>6. ASSUME NEW h \in Hosts PROVE HostInv(h)'
  <2>1. CASE Gone(h)
    BY <1>1, <2>1 DEF HostInv, Gone
  <2>2. CASE ~Gone(h) /\ h # channel
    <3>1. ApartInv(h)
      BY <1>3, <2>2, HostCases DEF Linked
    <3>2. ApartInv(h)'
      BY <1>1, <2>2, <3>1 DEF ApartInv
    <3>3. QED
      BY <1>2, <3>2 DEF HostInv, Linked
  <2>3. CASE ~Gone(h) /\ h = channel
    <3>1. LinkedInv(h)
      BY <1>2, <1>3, <2>3, HostCases DEF Linked
    <3>2. got[h] \in Seq(Messages)
      BY <1>0 DEF TypeOK
    <3>3. Len(got[h]) = 0 => got[h] = <<>>
      BY <3>2, EmptySeq
    <3>4. host[h] = "receiving" /\ Awaited(h) /\ ~hostEvent[h] /\ asked[h] = Len(done)
      BY <1>0, <1>1, <1>2, <1>5, <2>3, <3>1, <3>3 DEF LinkedInv, Open, Gone, TypeOK, HostStates, Awaited
    <3>5. ApartInv(h)'
      BY <1>1, <1>5, <3>3, <3>4 DEF ApartInv, Awaited
    <3>6. QED
      BY <1>2, <3>5 DEF HostInv, Linked
  <2>4. QED
    BY <2>1, <2>2, <2>3
<1>7. QED
  BY <1>4, <1>6 DEF StubOK

\* ... anything else is answered: what is next is put into the page, ...
LEMMA ReplyKeeps ==
  ASSUME OneAtATime, IInv, reply
  PROVE  StubOK
<1>0. StubInv /\ SessionInv /\ TypeOK
  BY DEF IInv
<1>1. /\ stub = "interpret" /\ stub' = "notify" /\ current.number \notin Reset
      /\ UNCHANGED <<host, asked, got, hostEvent, grant, channel, stubEvent, haveEvent, done>>
      /\ current' = [current EXCEPT !.part = @ + 1]
      /\ page' = [page EXCEPT ![grant] = Reply(current, current.part + 1)]
      /\ status' = [status EXCEPT ![grant] = FALSE]
  BY DEF reply
<1>2. InSession /\ InSession' /\ ~Open /\ ~Open'
  BY <1>1 DEF InSession, Open
<1>3. channel = grant /\ grant \in Hosts
  BY <1>0, <1>1, <1>2 DEF StubInv, Crossed, TypeOK
<1>4. StubInv'
  BY <1>0, <1>1, <1>2, <1>3 DEF StubInv, Crossed
<1>5. /\ current \in Messages /\ current.part \in Nat
      /\ current'.kind = current.kind /\ current'.by = current.by /\ current'.number = current.number
      /\ current'.part = current.part + 1
  BY <1>0, <1>1 DEF TypeOK, Messages
<1>6. /\ current.kind = "command" /\ current.by = grant /\ current.number = Len(done)
      /\ current.part < Replies[Len(done)] /\ ~stubEvent /\ Len(done) \in DOMAIN Replies
      /\ done = FirstCommands(grant, Len(done))
  BY <1>0, <1>1, <1>2, <1>3 DEF SessionInv
<1>7. /\ page'[grant] = Reply(Command(grant, Len(done)), current'.part) /\ ~status'[grant]
      /\ \A k \in Hosts \ {grant} : page'[k] = page[k] /\ status'[k] = status[k]
  <2>1. Reply(current, current.part + 1) = Reply(Command(grant, Len(done)), current.part + 1)
    BY <1>3, <1>5, <1>6, SameReply
  <2>2. QED
    BY <1>0, <1>1, <1>3, <1>5, <2>1 DEF TypeOK
<1>8. SessionInv'
  <2>1. current'.part \in 1..Replies[Len(done)]
    BY <1>5, <1>6, Numbers DEF Commands
  <2>2. QED
    BY <1>1, <1>2, <1>3, <1>5, <1>6, <1>7, <2>1 DEF SessionInv, FirstCommands
<1>9. ~Gone(grant) /\ LinkedInv(grant) => LinkedInv(grant)'
  <2> SUFFICES ASSUME ~Gone(grant), LinkedInv(grant) PROVE LinkedInv(grant)'
    OBVIOUS
  <2>1. /\ host[grant] \in {"receiving", "acking"} /\ Awaited(grant) /\ ~hostEvent[grant]
        /\ asked[grant] = Len(done) /\ (host[grant] = "acking" => got[grant] # <<>>)
    BY <1>0, <1>1, <1>2, <1>3 DEF LinkedInv, Open, Gone, TypeOK, HostStates
  <2>2. Given(grant)'
    BY <1>1, <1>5, <1>7, <2>1 DEF Given, Awaited
  <2>3. QED
    BY <1>1, <1>7, <2>1, <2>2 DEF LinkedInv
<1>10. \A h \in Hosts : HostInv(h)'
  BY <1>1, <1>2, <1>7, <1>9, SessionHosts
<1>11. QED
  BY <1>4, <1>8, <1>10 DEF StubOK

\* ... the orchestrator is notified ...
LEMMA ReplyNotifyKeeps ==
  ASSUME OneAtATime, IInv, reply_notify
  PROVE  StubOK
<1>0. StubInv /\ SessionInv /\ TypeOK
  BY DEF IInv
<1>1. /\ stub = "notify" /\ stub' = "status"
      /\ UNCHANGED <<host, asked, got, grant, channel, stubEvent, haveEvent, current, done, page, status>>
      /\ \A k \in Hosts \ {channel} : hostEvent'[k] = hostEvent[k]
  BY <1>0 DEF reply_notify, NotifyHost, TypeOK
<1>2. InSession /\ InSession' /\ ~Open /\ ~Open'
  BY <1>1 DEF InSession, Open
<1>3. channel = grant
  BY <1>0, <1>1, <1>2 DEF StubInv, Crossed
<1>4. StubInv'
  BY <1>0, <1>1, <1>2, <1>3 DEF StubInv, Crossed
<1>5. SessionInv'
  BY <1>0, <1>1, <1>2, <1>3 DEF SessionInv, FirstCommands
<1>6. ~Gone(grant) /\ LinkedInv(grant) => LinkedInv(grant)'
  <2> SUFFICES ASSUME ~Gone(grant), LinkedInv(grant) PROVE LinkedInv(grant)'
    OBVIOUS
  <2>1. /\ host[grant] \in {"receiving", "acking"} /\ Given(grant) /\ ~status[grant]
        /\ asked[grant] = Len(done) /\ (host[grant] = "acking" => got[grant] # <<>>)
    BY <1>0, <1>1, <1>2, <1>3 DEF LinkedInv, Open, Gone, TypeOK, HostStates
  <2>2. Given(grant)'
    BY <1>1, <2>1 DEF Given
  <2>3. QED
    BY <1>1, <2>1, <2>2 DEF LinkedInv
<1>7. \A h \in Hosts : HostInv(h)'
  BY <1>1, <1>2, <1>6, SessionHosts
<1>8. QED
  BY <1>4, <1>5, <1>7 DEF StubOK

\* ... and has taken it.
LEMMA ReplyStatusKeeps ==
  ASSUME OneAtATime, IInv, reply_status
  PROVE  StubOK
<1>0. StubInv /\ SessionInv /\ TypeOK
  BY DEF IInv
<1>1. /\ stub = "status" /\ stub' = (IF Last THEN "receive" ELSE "interpret") /\ status[grant]
      /\ UNCHANGED <<host, asked, got, hostEvent, grant, channel, stubEvent, haveEvent, current, done, page>>
      /\ status' = [status EXCEPT ![grant] = FALSE]
  BY DEF reply_status
<1>2. InSession /\ InSession' /\ ~Open
  BY <1>1 DEF InSession, Open
<1>3. channel = grant /\ grant \in Hosts
  BY <1>0, <1>1, <1>2 DEF StubInv, Crossed, TypeOK
<1>4. StubInv'
  BY <1>0, <1>1, <1>2, <1>3 DEF StubInv, Crossed
<1>5. /\ current.number = Len(done) /\ current.part \in 1..Replies[Len(done)] /\ Len(done) \notin Reset
      /\ ~stubEvent /\ Replies[Len(done)] \in Nat
  BY <1>0, <1>1, <1>2, <1>3, Numbers DEF SessionInv, Commands
<1>6. /\ Last <=> current.part = Replies[Len(done)]
      /\ Last => Open' /\ NoEvent'
      /\ ~Last => ~Open' /\ current.part < Replies[Len(done)]
  BY <1>1, <1>5 DEF Last, Open, NoEvent
<1>7. SessionInv'
  BY <1>0, <1>1, <1>2, <1>3, <1>5, <1>6 DEF SessionInv, FirstCommands
<1>8. ~status'[grant] /\ \A k \in Hosts \ {grant} : status'[k] = status[k]
  BY <1>0, <1>1, <1>3 DEF TypeOK
<1>9. ~Gone(grant) /\ LinkedInv(grant) => LinkedInv(grant)'
  <2> SUFFICES ASSUME ~Gone(grant), LinkedInv(grant) PROVE LinkedInv(grant)'
    OBVIOUS
  <2>1. /\ host[grant] = "acking" /\ Awaited(grant) /\ ~hostEvent[grant]
        /\ asked[grant] = Len(done) /\ got[grant] # <<>>
    BY <1>0, <1>1, <1>2, <1>3 DEF LinkedInv, Open, Gone, TypeOK, HostStates
  <2>2. Awaited(grant)' /\ page'[grant] = Empty /\ Len(got[grant]) = current.part
    BY <1>1, <2>1 DEF Awaited
  <2>3. CASE Last
    BY <1>1, <1>6, <1>8, <2>1, <2>2, <2>3 DEF LinkedInv
  <2>4. CASE ~Last
    BY <1>1, <1>6, <1>8, <2>1, <2>2, <2>4 DEF LinkedInv
  <2>5. QED
    BY <2>3, <2>4
<1>10. \A h \in Hosts : HostInv(h)'
  BY <1>1, <1>2, <1>8, <1>9, SessionHosts
<1>11. QED
  BY <1>4, <1>7, <1>10 DEF StubOK

\* So every step of the stub domain keeps the invariant.
LEMMA StubKeeps ==
  ASSUME OneAtATime, IInv, Stub \/ event_handler
  PROVE  IInv'
<1>1. TypeOK'
  BY StubTypes DEF IInv
<1>2. StubOK
  BY ConnectKeeps, GrantKeeps, ChannelKeeps, EventKeeps, SessionEndKeeps, CommandKeeps, TakenKeeps,
     ResetKeeps, ReplyKeeps, ReplyNotifyKeeps, ReplyStatusKeeps DEF Stub
<1>3. QED
  BY <1>1, <1>2, StubLeaves DEF IInv, StubOK

-----------------------------------------------------------------------------
(* The invariant holds, ...                                                *)

LEMMA IInvBegins ==
  ASSUME OneAtATime, Init
  PROVE  IInv
<1>1. /\ Empty \in Messages /\ 0 \in 0..Len(Replies)
      /\ <<>> \in Seq(Messages) /\ <<>> \in Seq(Nodes) /\ Len(<<>>) = 0
  BY AreMessages, Numbers, EmptySeq
<1>2. TypeOK
  BY <1>1 DEF Init, TypeOK, HostStates, StubStates
<1>3. ~InSession /\ stub = "accept" /\ \A h \in Hosts : host[h] = "off"
  BY DEF Init, InSession
<1>4. StubInv /\ SessionInv
  BY <1>3 DEF Init, StubInv, SessionInv, Crossed
<1>5. OneAtWork
  BY <1>3 DEF OneAtWork, AtWork
<1>6. ASSUME NEW h \in Hosts PROVE HostInv(h) /\ NodeInv(h) /\ GotInv(h)
  <2>1. ApartInv(h)
    BY <1>3 DEF ApartInv, Init
  <2>2. HostInv(h)
    BY <1>3, <2>1 DEF HostInv, Linked
  <2>3. NodeInv(h)
    BY <1>3 DEF NodeInv, Init, OneAtATime
  <2>4. GotInv(h)
    BY <1>1 DEF GotInv, FirstReplies, Init
  <2>5. QED
    BY <2>2, <2>3, <2>4
<1>7. QED
  BY <1>2, <1>4, <1>5, <1>6 DEF IInv

\* ... goes on to hold ...
LEMMA IInvKept ==
  ASSUME OneAtATime, IInv, [Next]_vars
  PROVE  IInv'
<1>1. CASE \E h \in Hosts : Host(h) \/ kill(h)
  BY <1>1, HostKeeps
<1>2. CASE Stub \/ event_handler
  BY <1>2, StubKeeps
<1>3. CASE UNCHANGED vars
  <2>1. TypeOK' /\ OneAtWork'
    BY <1>3 DEF IInv, vars, TypeOK, OneAtWork, AtWork, Gone
  <2>2. StubInv' /\ SessionInv'
    BY <1>3 DEF IInv, vars, StubInv, SessionInv, Crossed, InSession, Open, NoEvent, Gone, FirstCommands
  <2>3. ASSUME NEW h \in Hosts PROVE HostInv(h)' /\ NodeInv(h)' /\ GotInv(h)'
    <3>1. HostInv(h) /\ NodeInv(h) /\ GotInv(h)
      BY DEF IInv
    <3>2. HostInv(h)'
      BY <1>3, <3>1 DEF vars, HostInv, Linked, InSession, Gone, LinkedInv, CrossedInv, ApartInv, Open,
                        NoEvent, Given, Awaited
    <3>3. NodeInv(h)' /\ GotInv(h)'
      BY <1>3, <3>1 DEF vars, NodeInv, GotInv, FirstReplies
    <3>4. QED
      BY <3>2, <3>3
  <2>4. QED
    BY <2>1, <2>2, <2>3 DEF IInv
<1>4. QED
  BY <1>1, <1>2, <1>3 DEF Next

\* ... and this is what it is for.
LEMMA IInvAnswers ==
  ASSUME OneAtATime, IInv
  PROVE  RepliesAreToCommand /\ CommandsInOrder
<1>1. RepliesAreToCommand
  <2> SUFFICES ASSUME NEW h \in Hosts, NEW k \in DOMAIN got[h]
               PROVE  got[h][k] = Reply(Command(h, asked[h]), k)
    BY DEF RepliesAreToCommand
  <2>1. got[h] = FirstReplies(h, asked[h], Len(got[h])) /\ got[h] \in Seq(Messages)
    BY DEF IInv, GotInv, TypeOK
  <2>2. k \in 1..Len(got[h])
    BY <2>1
  <2>3. QED
    BY <2>1, <2>2 DEF FirstReplies
<1>2. CommandsInOrder
  <2>1. done \in Seq(Messages)
    BY DEF IInv, TypeOK
  <2>2. CASE InSession
    <3>1. channel = grant => done = FirstCommands(grant, Len(done))
      BY <2>2 DEF IInv, SessionInv
    <3>2. QED
      BY <2>1, <3>1 DEF CommandsInOrder, FirstCommands
  <2>3. CASE ~InSession
    BY <2>3 DEF IInv, StubInv, CommandsInOrder
  <2>4. QED
    BY <2>2, <2>3
<1>3. QED
  BY <1>1, <1>2

\* Over the page, an orchestrator is given what answers its command, from its
\* beginning, each message once, and the stub domain interprets the commands of the
\* one it is connected to, each once, in their order: for any number of orchestrators
\* that are started one after the other, and whoever of them is killed.
THEOREM AnswersAreToCommands == OneAtATime /\ Spec => [](RepliesAreToCommand /\ CommandsInOrder)
<1> SUFFICES ASSUME OneAtATime PROVE Spec => [](RepliesAreToCommand /\ CommandsInOrder)
  OBVIOUS
<1>1. QED
  BY IInvBegins, IInvKept, IInvAnswers, PTL DEF Spec

-----------------------------------------------------------------------------
(* Orchestrators that nothing kills.                                       *)

\* None is killed, none fails, and none is told to reset the stub domain.
Undisturbed == OneAtATime /\ Kills = FALSE /\ InitFaults = FALSE /\ Reset = {}

Announcement == <<"connect", "grant-ref", "event-channel">>
Announcing(h) == host[h] \in {"connecting", "granting", "offered"}
Announced(h) == IF host[h] = "connecting" THEN 1 ELSE IF host[h] = "granting" THEN 2 ELSE 3

\* What an orchestrator before has left in the queue is no connect.
NoConnect == \A i \in DOMAIN watch : watch[i] # "connect"

\* The queue ends with the n first events of an orchestrator, all but taken of them taken.
EndsWith(n) ==
  /\ Len(watch) >= n
  /\ \A i \in 1..n : watch[Len(watch) - n + i] = Announcement[i]
  /\ \A i \in 1..(Len(watch) - n) : watch[i] # "connect"
Remains(n, taken) ==
  /\ Len(watch) = n - taken
  /\ \A i \in 1..(n - taken) : watch[i] = Announcement[i + taken]

\* The stub domain takes what the one at work announces, and has no other session.
QuietHost(h) ==
  /\ Announcing(h) =>
       /\ host[h] \in {"granting", "offered"} => node["grant-ref"] = h
       /\ host[h] = "offered" => node["event-channel"] = h
       /\ \/ stub = "accept" /\ EndsWith(Announced(h))
          \/ stub = "map" /\ Remains(Announced(h), 1)
          \/ stub = "bind" /\ Remains(Announced(h), 2) /\ grant = h
          \/ Linked(h) /\ NoConnect /\ host[h] = "offered"
  /\ ~Announcing(h) => NoConnect /\ (Linked(h) \/ (host[h] = "ending" /\ stub = "accept"))

QuietInv ==
  /\ \A h \in Hosts : host[h] \notin {"killed", "crashed", "refused"}
  /\ \A h \in Hosts : AtWork(h) => QuietHost(h)
  /\ (\A h \in Hosts : ~AtWork(h)) => stub = "accept" /\ NoConnect

\* What it says of the one at work is what has to be shown.
LEMMA QuietMoves ==
  ASSUME QuietInv, NEW h \in Hosts, Moves(h), host'[h] \notin {"killed", "crashed", "refused"},
         AtWork(h)' => QuietHost(h)', ~AtWork(h)' => stub' = "accept" /\ NoConnect'
  PROVE  QuietInv'
<1>1. \A k \in Hosts : host'[k] \notin {"killed", "crashed", "refused"}
  BY DEF QuietInv, Moves
<1>2. \A k \in Hosts \ {h} : ~AtWork(k)'
  BY DEF Moves, AtWork, Gone
<1>3. \A k \in Hosts : AtWork(k)' => QuietHost(k)'
  BY <1>2
<1>4. (\A k \in Hosts : ~AtWork(k)') => stub' = "accept" /\ NoConnect'
  OBVIOUS
<1>5. QED
  BY <1>1, <1>3, <1>4 DEF QuietInv

\* How the queue grows ...
LEMMA Grows ==
  ASSUME watch \in Seq(Nodes), NEW n \in Nodes, watch' = Append(watch, n)
  PROVE  /\ n # "connect" /\ NoConnect => NoConnect'
         /\ NoConnect /\ n = "connect" => EndsWith(1)'
         /\ \A m \in 1..2 : n = Announcement[m + 1] =>
              /\ EndsWith(m) => EndsWith(m + 1)'
              /\ \A taken \in 1..m : Remains(m, taken) => Remains(m + 1, taken)'
<1>1. /\ Len(watch) \in Nat /\ Len(watch') = Len(watch) + 1 /\ watch'[Len(watch) + 1] = n
      /\ DOMAIN watch = 1..Len(watch) /\ DOMAIN watch' = 1..Len(watch')
      /\ \A i \in 1..Len(watch) : watch'[i] = watch[i]
  BY AppendProperties
<1>2. n # "connect" /\ NoConnect => NoConnect'
  BY <1>1 DEF NoConnect
<1>3. NoConnect /\ n = "connect" => EndsWith(1)'
  BY <1>1 DEF NoConnect, EndsWith, Announcement
<1>4. ASSUME NEW m \in 1..2, n = Announcement[m + 1], EndsWith(m) PROVE EndsWith(m + 1)'
  <2>1. Len(watch') >= m + 1 /\ Len(watch') - (m + 1) = Len(watch) - m
    BY <1>1, <1>4 DEF EndsWith
  <2>2. \A i \in 1..m : watch'[Len(watch') - (m + 1) + i] = Announcement[i]
    <3> TAKE i \in 1..m
    <3>1. Len(watch) - m + i \in 1..Len(watch)
      BY <1>1, <1>4 DEF EndsWith
    <3>2. QED
      BY <1>1, <1>4, <2>1, <3>1 DEF EndsWith
  <2>3. watch'[Len(watch') - (m + 1) + (m + 1)] = Announcement[m + 1]
    BY <1>1, <1>4
  <2>4. \A i \in 1..(m + 1) : watch'[Len(watch') - (m + 1) + i] = Announcement[i]
    <3> TAKE i \in 1..(m + 1)
    <3>1. i \in 1..m \/ i = m + 1
      OBVIOUS
    <3>2. QED
      BY <2>2, <2>3, <3>1
  <2>5. \A i \in 1..(Len(watch') - (m + 1)) : watch'[i] # "connect"
    <3> TAKE i \in 1..(Len(watch') - (m + 1))
    <3>1. i \in 1..(Len(watch) - m) /\ i \in 1..Len(watch)
      BY <1>1, <2>1
    <3>2. QED
      BY <1>1, <1>4, <3>1 DEF EndsWith
  <2>6. QED
    BY <2>1, <2>4, <2>5 DEF EndsWith
<1>5. ASSUME NEW m \in 1..2, n = Announcement[m + 1], NEW taken \in 1..m, Remains(m, taken)
      PROVE  Remains(m + 1, taken)'
  <2>1. Len(watch') = m + 1 - taken /\ Len(watch) = m - taken
    BY <1>1, <1>5 DEF Remains
  <2>2. \A i \in 1..(m - taken) : watch'[i] = Announcement[i + taken]
    BY <1>1, <1>5, <2>1 DEF Remains
  <2>3. watch'[m + 1 - taken] = Announcement[m + 1]
    BY <1>1, <1>5, <2>1
  <2>4. \A i \in 1..(m + 1 - taken) : watch'[i] = Announcement[i + taken]
    <3> TAKE i \in 1..(m + 1 - taken)
    <3>1. i \in 1..(m - taken) \/ (i = m + 1 - taken /\ i + taken = m + 1)
      OBVIOUS
    <3>2. QED
      BY <2>2, <2>3, <3>1
  <2>5. QED
    BY <2>1, <2>4 DEF Remains
<1>6. QED
  BY <1>2, <1>3, <1>4, <1>5

\* ... and is taken from.
LEMMA Shrinks ==
  ASSUME watch \in Seq(Nodes), watch # <<>>, watch' = Tail(watch)
  PROVE  /\ NoConnect => NoConnect' /\ Head(watch) # "connect"
         /\ \A n \in 1..3 : EndsWith(n) =>
              /\ Head(watch) = "connect" => Remains(n, 1)'
              /\ Head(watch) # "connect" => EndsWith(n)'
         /\ \A n \in 1..3 : \A taken \in 1..3 : Remains(n, taken) =>
              taken < n /\ Head(watch) = Announcement[taken + 1] /\ Remains(n, taken + 1)'
<1>1. /\ Len(watch) \in Nat /\ Len(watch) > 0 /\ Len(watch') = Len(watch) - 1 /\ Head(watch) = watch[1]
      /\ DOMAIN watch = 1..Len(watch) /\ DOMAIN watch' = 1..Len(watch')
      /\ \A i \in 1..Len(watch') : watch'[i] = watch[i + 1]
  BY HeadTailProperties, EmptySeq
<1>2. NoConnect => NoConnect' /\ Head(watch) # "connect"
  BY <1>1 DEF NoConnect
<1>3. ASSUME NEW n \in 1..3, EndsWith(n)
      PROVE  /\ Head(watch) = "connect" => Remains(n, 1)'
             /\ Head(watch) # "connect" => EndsWith(n)'
  <2>1. \A i \in 2..3 : Announcement[i] # "connect"
    BY DEF Announcement
  <2>2. CASE Len(watch) = n
    <3>1. Head(watch) = Announcement[1]
      BY <1>1, <1>3, <2>2 DEF EndsWith
    <3>2. Head(watch) = "connect"
      BY <3>1 DEF Announcement
    <3>3. \A i \in 1..(n - 1) : watch'[i] = Announcement[i + 1]
      BY <1>1, <1>3, <2>2 DEF EndsWith
    <3>4. QED
      BY <1>1, <2>2, <3>2, <3>3 DEF Remains
  <2>3. CASE Len(watch) > n
    <3>1. Head(watch) # "connect"
      BY <1>1, <1>3, <2>3 DEF EndsWith
    <3>2. \A i \in 1..n : watch'[Len(watch') - n + i] = Announcement[i]
      <4> TAKE i \in 1..n
      <4>1. Len(watch') - n + i \in 1..Len(watch') /\ Len(watch') - n + i + 1 = Len(watch) - n + i
        BY <1>1, <2>3
      <4>2. QED
        BY <1>1, <1>3, <4>1 DEF EndsWith
    <3>3. \A i \in 1..(Len(watch') - n) : watch'[i] # "connect"
      <4> TAKE i \in 1..(Len(watch') - n)
      <4>1. i \in 1..Len(watch') /\ i + 1 \in 1..(Len(watch) - n)
        BY <1>1, <2>3
      <4>2. QED
        BY <1>1, <1>3, <4>1 DEF EndsWith
    <3>4. QED
      BY <1>1, <2>3, <3>1, <3>2, <3>3 DEF EndsWith
  <2>4. Len(watch) = n \/ Len(watch) > n
    <3>1. Len(watch) >= n
      BY <1>3 DEF EndsWith
    <3>2. n \in Int /\ Len(watch) \in Int
      BY <1>1
    <3>3. QED
      BY <3>1, <3>2
  <2>5. QED
    BY <2>2, <2>3, <2>4
<1>4. ASSUME NEW n \in 1..3, NEW taken \in 1..3, Remains(n, taken)
      PROVE  taken < n /\ Head(watch) = Announcement[taken + 1] /\ Remains(n, taken + 1)'
  <2>1. Len(watch) = n - taken /\ taken < n
    BY <1>1, <1>4 DEF Remains
  <2>2. Head(watch) = Announcement[taken + 1]
    BY <1>1, <1>4, <2>1 DEF Remains
  <2>3. \A i \in 1..(n - (taken + 1)) : watch'[i] = Announcement[i + (taken + 1)]
    <3> TAKE i \in 1..(n - (taken + 1))
    <3>1. i \in 1..Len(watch') /\ i + 1 \in 1..(n - taken)
      BY <1>1, <2>1
    <3>2. watch'[i] = Announcement[i + 1 + taken]
      BY <1>1, <1>4, <3>1 DEF Remains
    <3>3. i + 1 + taken = i + (taken + 1)
      OBVIOUS
    <3>4. QED
      BY <3>2, <3>3
  <2>4. QED
    BY <1>1, <2>1, <2>2, <2>3 DEF Remains
<1>5. QED
  BY <1>2, <1>3, <1>4

\* An orchestrator announces itself to a stub domain that looks for it, ...
LEMMA AnnounceQuiet ==
  ASSUME Undisturbed, IInv, QuietInv, NEW h \in Hosts, Moves(h),
         init_connect(h) \/ init_grant(h) \/ init_channel(h)
  PROVE  QuietInv'
<1>0. /\ watch \in Seq(Nodes) /\ {"connect", "grant-ref", "event-channel"} = Nodes
      /\ node \in [{"grant-ref", "event-channel"} -> Hosts \cup {None}]
  BY DEF IInv, TypeOK, Nodes
<1>1. UNCHANGED stubVars
  BY DEF Moves
<1>2. CASE init_connect(h)
  <2>1. host'[h] = "connecting" /\ watch' = Append(watch, "connect") /\ \A k \in Hosts : ~AtWork(k)
    BY <1>2 DEF IInv, TypeOK, init_connect, Announce, Undisturbed, OneAtATime
  <2>2. stub = "accept" /\ NoConnect
    BY <2>1 DEF QuietInv
  <2>3. EndsWith(1)'
    BY <1>0, <2>1, <2>2, Grows
  <2>4. Announcing(h)' /\ Announced(h)' = 1
    BY <2>1 DEF Announcing, Announced
  <2>5. EndsWith(Announced(h))'
    BY <2>3, <2>4
  <2>6. QuietHost(h)'
    BY <1>1, <2>1, <2>2, <2>4, <2>5 DEF QuietHost
  <2>7. AtWork(h)'
    BY <2>1 DEF AtWork, Gone
  <2>8. QED
    BY <2>1, <2>6, <2>7, QuietMoves
<1>3. CASE init_grant(h)
  <2>1. /\ host[h] = "connecting" /\ host'[h] = "granting" /\ watch' = Append(watch, "grant-ref")
        /\ node'["grant-ref"] = h
    BY <1>0, <1>3 DEF IInv, TypeOK, init_grant, Announce
  <2>2. AtWork(h) /\ Announcing(h) /\ Announced(h) = 1 /\ Announcing(h)' /\ Announced(h)' = 2 /\ AtWork(h)'
    BY <2>1 DEF AtWork, Gone, Announcing, Announced
  <2>3. \/ stub = "accept" /\ EndsWith(1)
        \/ stub = "map" /\ Remains(1, 1)
        \/ stub = "bind" /\ Remains(1, 2)
    BY <2>1, <2>2 DEF QuietInv, QuietHost
  <2>4. ~Remains(1, 2)
    BY <1>0, LenProperties DEF Remains
  <2>5. "grant-ref" = Announcement[1 + 1]
    BY DEF Announcement
  <2>6. (EndsWith(1) => EndsWith(2)') /\ (Remains(1, 1) => Remains(2, 1)')
    BY <1>0, <2>1, <2>5, Grows
  <2>7. (EndsWith(2)' => EndsWith(Announced(h))') /\ (Remains(2, 1)' => Remains(Announced(h), 1)')
    BY <2>2
  <2>8. QuietHost(h)'
    BY <1>1, <2>1, <2>2, <2>3, <2>4, <2>6, <2>7 DEF QuietHost
  <2>9. QED
    BY <2>1, <2>2, <2>8, QuietMoves
<1>4. CASE init_channel(h)
  <2>1. /\ host[h] = "granting" /\ host'[h] = "offered" /\ watch' = Append(watch, "event-channel")
        /\ node'["event-channel"] = h /\ node'["grant-ref"] = node["grant-ref"]
    BY <1>0, <1>4 DEF IInv, TypeOK, init_channel, Announce
  <2>2. AtWork(h) /\ Announcing(h) /\ Announced(h) = 2 /\ Announcing(h)' /\ Announced(h)' = 3 /\ AtWork(h)'
    BY <2>1 DEF AtWork, Gone, Announcing, Announced
  <2>3. /\ node["grant-ref"] = h
        /\ \/ stub = "accept" /\ EndsWith(2)
           \/ stub = "map" /\ Remains(2, 1)
           \/ stub = "bind" /\ Remains(2, 2) /\ grant = h
    BY <2>1, <2>2 DEF QuietInv, QuietHost
  <2>4. "event-channel" = Announcement[2 + 1]
    BY DEF Announcement
  <2>5. (EndsWith(2) => EndsWith(3)') /\ (Remains(2, 1) => Remains(3, 1)') /\ (Remains(2, 2) => Remains(3, 2)')
    BY <1>0, <2>1, <2>4, Grows
  <2>6. /\ EndsWith(3)' => EndsWith(Announced(h))'
        /\ Remains(3, 1)' => Remains(Announced(h), 1)'
        /\ Remains(3, 2)' => Remains(Announced(h), 2)'
    BY <2>2
  <2>7. QuietHost(h)'
    BY <1>1, <2>1, <2>2, <2>3, <2>5, <2>6 DEF QuietHost
  <2>8. QED
    BY <2>1, <2>2, <2>7, QuietMoves
<1>5. QED
  BY <1>2, <1>3, <1>4

\* ... goes through its session ...
LEMMA SessionQuiet ==
  ASSUME Undisturbed, IInv, QuietInv, NEW h \in Hosts, Moves(h), Host(h),
         host[h] \notin {"off", "connecting", "granting", "ending"}
  PROVE  QuietInv'
<1>0. /\ watch \in Seq(Nodes) /\ {"connect", "grant-ref", "event-channel"} = Nodes
      /\ host \in [Hosts -> HostStates]
  BY DEF IInv, TypeOK, Nodes
<1>1. AtWork(h) /\ QuietHost(h) /\ ~Gone(h)
  BY DEF QuietInv, Moves, AtWork
<1>2. /\ host'[h] \in HostStates
      /\ host'[h] \notin {"off", "connecting", "granting", "offering", "offered", "ended", "killed",
                          "refused", "crashed"}
  <2> USE <1>0 DEF HostStates
  <2>1. CASE init_connect(h) \/ init_grant(h) \/ init_channel(h) \/ init_fails(h) \/ whack_pending(h)
    BY <2>1 DEF init_connect, init_grant, init_channel, Announce, init_fails, whack_pending
  <2>2. CASE init_pending(h) \/ init_confirm(h) \/ send_load(h) \/ send_notify(h) \/ send_status(h)
    BY <2>2 DEF init_pending, init_confirm, send_load, send_notify, send_status
  <2>3. CASE receive(h) \/ receive_nothing(h) \/ receive_acked(h)
    BY <2>3 DEF receive, receive_nothing, receive_acked
  <2>4. CASE whack(h) \/ remove_grant(h) \/ remove_channel(h) \/ whack_notify(h)
    BY <2>4 DEF whack, remove_grant, remove_channel, Remove, whack_notify
  <2>5. QED
    BY <2>1, <2>2, <2>3, <2>4 DEF Host
<1>3. Linked(h) /\ NoConnect
  <2>1. CASE host[h] = "offered"
    <3>1. hostEvent[h]
      BY <2>1 DEF Host, init_connect, init_grant, init_channel, Announce, init_pending, Pending,
                  init_confirm, init_fails, send_load, send_notify, send_status, receive, receive_nothing,
                  receive_acked, whack, remove_grant, remove_channel, Remove, whack_notify, whack_pending
    <3>2. InSession
      BY <1>1, <2>1, <3>1, HostCases DEF ApartInv, Linked
    <3>3. QED
      BY <1>1, <2>1, <3>2 DEF QuietHost, Announcing, InSession
  <2>2. CASE host[h] # "offered"
    BY <1>1, <2>2 DEF QuietHost, Announcing
  <2>3. QED
    BY <2>1, <2>2
<1>4. Linked(h)'
  BY <1>3 DEF Linked, InSession, Moves
<1>5. NoConnect'
  <2>1. CASE watch' = watch
    BY <1>3, <2>1 DEF NoConnect
  <2>2. CASE watch' = Append(watch, "grant-ref") \/ watch' = Append(watch, "event-channel")
    BY <1>0, <1>3, <2>2, Grows
  <2>3. watch' = watch \/ watch' = Append(watch, "grant-ref") \/ watch' = Append(watch, "event-channel")
    BY DEF Host, init_connect, init_grant, init_channel, Announce, init_pending, init_confirm, init_fails,
           send_load, send_notify, send_status, receive, receive_nothing, receive_acked, whack,
           remove_grant, remove_channel, Remove, whack_notify, whack_pending
  <2>4. QED
    BY <2>1, <2>2, <2>3
<1>6. AtWork(h)' /\ ~Announcing(h)'
  BY <1>2 DEF AtWork, Gone, Announcing
<1>7. QuietHost(h)'
  BY <1>4, <1>5, <1>6 DEF QuietHost
<1>8. QED
  BY <1>2, <1>6, <1>7, QuietMoves

\* ... and leaves the stub domain as it found it.
LEMMA EndQuiet ==
  ASSUME Undisturbed, IInv, QuietInv, NEW h \in Hosts, Moves(h), whack_pending(h)
  PROVE  QuietInv'
<1>1. host[h] = "ending" /\ host'[h] = "ended" /\ hostEvent[h] /\ watch' = watch
  BY DEF IInv, TypeOK, whack_pending, Pending
<1>2. AtWork(h) /\ QuietHost(h) /\ ~Gone(h)
  BY <1>1 DEF QuietInv, AtWork, Gone
<1>3. ~Linked(h)
  BY <1>1, <1>2, HostCases DEF LinkedInv, Linked
<1>4. stub = "accept" /\ NoConnect
  BY <1>1, <1>2, <1>3 DEF QuietHost, Announcing
<1>5. stub' = "accept" /\ NoConnect'
  BY <1>1, <1>4 DEF Moves, NoConnect
<1>6. ~AtWork(h)'
  BY <1>1 DEF AtWork, Gone
<1>7. QED
  BY <1>1, <1>5, <1>6, QuietMoves

\* So every step of an orchestrator keeps the stub domain where it is expected.
LEMMA HostQuiet ==
  ASSUME Undisturbed, IInv, QuietInv, NEW h \in Hosts, Host(h) \/ kill(h)
  PROVE  QuietInv'
<1>1. OneAtATime /\ ~kill(h) /\ ~init_fails(h)
  BY DEF Undisturbed, kill, init_fails
<1>2. Moves(h)
  BY <1>1, HostMoves DEF IInv
<1>3. Host(h)
  BY <1>1
<1>4. CASE init_connect(h) \/ init_grant(h) \/ init_channel(h)
  BY <1>2, <1>4, AnnounceQuiet
<1>5. CASE whack_pending(h)
  BY <1>2, <1>5, EndQuiet
<1>6. CASE ~(init_connect(h) \/ init_grant(h) \/ init_channel(h) \/ whack_pending(h))
  <2>1. host[h] \notin {"off", "connecting", "granting", "ending"}
    BY <1>1, <1>3, <1>6 DEF Host, init_pending, init_confirm, send_load, send_notify, send_status, receive,
                            receive_nothing, receive_acked, whack, remove_grant, remove_channel, Remove,
                            whack_notify
  <2>2. QED
    BY <1>2, <1>3, <2>1, SessionQuiet
<1>7. QED
  BY <1>4, <1>5, <1>6

\* The stub domain takes what is announced, as it is announced, ...
LEMMA AcceptQuiet ==
  ASSUME Undisturbed, IInv, QuietInv, NEW h \in Hosts, AtWork(h),
         accept_connect \/ accept_grant \/ accept_channel
  PROVE  QuietHost(h)'
<1>0. /\ watch \in Seq(Nodes) /\ node \in [{"grant-ref", "event-channel"} -> Hosts \cup {None}]
      /\ h # None /\ ~Gone(h) /\ QuietHost(h)
  BY DEF IInv, TypeOK, Undisturbed, OneAtATime, QuietInv, AtWork
<1>1. watch # <<>> /\ watch' = Tail(watch) /\ UNCHANGED <<host, node>>
  BY DEF accept_connect, accept_grant, accept_channel
<1>2. ~InSession
  BY DEF accept_connect, accept_grant, accept_channel, InSession
<1>3. Announcing(h)' = Announcing(h) /\ Announced(h)' = Announced(h) /\ Announced(h) \in 1..3
  BY <1>1 DEF Announcing, Announced
<1>4. CASE ~Announcing(h)
  <2>1. host[h] = "ending" /\ stub = "accept" /\ NoConnect
    BY <1>0, <1>2, <1>4 DEF QuietHost, Linked
  <2>2. Head(watch) # "connect" /\ NoConnect'
    BY <1>0, <1>1, <2>1, Shrinks
  <2>3. stub' = "accept"
    BY <2>1, <2>2 DEF accept_connect, accept_grant, accept_channel
  <2>4. QED
    BY <1>1, <1>3, <1>4, <2>1, <2>2, <2>3 DEF QuietHost
<1>5. CASE Announcing(h)
  <2>0. /\ host[h] \in {"granting", "offered"} => node["grant-ref"] = h
        /\ host[h] = "offered" => node["event-channel"] = h
        /\ \/ stub = "accept" /\ EndsWith(Announced(h))
           \/ stub = "map" /\ Remains(Announced(h), 1)
           \/ stub = "bind" /\ Remains(Announced(h), 2) /\ grant = h
    BY <1>0, <1>2, <1>5 DEF QuietHost, Linked
  <2>1. CASE accept_connect
    <3>1. stub = "accept" /\ stub' = IF Head(watch) = "connect" THEN "map" ELSE "accept"
      BY <2>1 DEF accept_connect
    <3>2. EndsWith(Announced(h))
      BY <2>0, <3>1
    <3>3. /\ Head(watch) = "connect" => Remains(Announced(h), 1)'
          /\ Head(watch) # "connect" => EndsWith(Announced(h))'
      <4> DEFINE n == Announced(h)
      <4>1. n' = n /\ n \in 1..3
        BY <1>3
      <4> HIDE DEF n
      <4>2. /\ Head(watch) = "connect" => Remains(n, 1)'
            /\ Head(watch) # "connect" => EndsWith(n)'
        BY <1>0, <1>1, <1>3, <3>2, <4>1, Shrinks DEF n
      <4>3. QED
        BY <4>2 DEF n
    <3>4. QED
      BY <1>1, <1>3, <1>5, <2>0, <3>1, <3>3 DEF QuietHost
  <2>2. CASE accept_grant
    <3>1. stub = "map" /\ Remains(Announced(h), 1)
      BY <2>0, <2>2 DEF accept_grant
    <3>2. 1 < Announced(h) /\ Head(watch) = Announcement[1 + 1] /\ Remains(Announced(h), 2)'
      BY <1>0, <1>1, <1>3, <3>1, Shrinks
    <3>3. Head(watch) = "grant-ref" /\ node["grant-ref"] = h
      BY <1>5, <2>0, <3>2 DEF Announcement, Announcing, Announced
    <3>4. Usable("grant-ref")
      BY <1>0, <3>3 DEF Usable
    <3>5. stub' = "bind" /\ grant' = h
      BY <2>2, <3>3, <3>4 DEF accept_grant
    <3>6. QED
      BY <1>1, <1>3, <1>5, <2>0, <3>2, <3>5 DEF QuietHost
  <2>3. CASE accept_channel
    <3>1. stub = "bind" /\ Remains(Announced(h), 2) /\ grant = h
      BY <2>0, <2>3 DEF accept_channel
    <3>2. 2 < Announced(h) /\ Head(watch) = Announcement[2 + 1] /\ Remains(Announced(h), 3)'
      BY <1>0, <1>1, <1>3, <3>1, Shrinks
    <3>3. host[h] = "offered" /\ Head(watch) = "event-channel" /\ node["event-channel"] = h
      BY <1>5, <2>0, <3>2 DEF Announcement, Announcing, Announced
    <3>4. Usable("event-channel")
      BY <1>0, <3>3 DEF Usable
    <3>5. stub' = "receive" /\ grant' = h /\ channel' = h
      BY <2>3, <3>1, <3>3, <3>4 DEF accept_channel
    <3>6. NoConnect'
      <4>1. Announced(h) = 3
        BY <3>3 DEF Announced
      <4>2. Len(watch') = 0
        BY <1>3, <3>2, <4>1 DEF Remains
      <4>3. DOMAIN watch' = 1..Len(watch')
        BY <1>0, <1>1, HeadTailProperties, LenProperties
      <4>4. QED
        BY <4>2, <4>3 DEF NoConnect
    <3>7. QED
      BY <1>1, <1>3, <1>5, <2>0, <3>3, <3>5, <3>6 DEF QuietHost, Linked, InSession
  <2>4. QED
    BY <2>1, <2>2, <2>3
<1>6. QED
  BY <1>4, <1>5

\* ... so that it stays in its session until the orchestrator ends it.
LEMMA StubQuiet ==
  ASSUME Undisturbed, IInv, QuietInv, Stub \/ event_handler
  PROVE  QuietInv'
<1>0. /\ UNCHANGED <<host, node>> /\ ~reset
      /\ watch \in Seq(Nodes)
  BY StubLeaves DEF Undisturbed, reset, IInv, TypeOK
<1>1. CASE \A h \in Hosts : ~AtWork(h)
  <2>1. stub = "accept" /\ NoConnect
    BY <1>1 DEF QuietInv
  <2>2. /\ stub' = "accept" /\ NoConnect'
    <3>1. CASE event_handler
      BY <2>1, <3>1 DEF event_handler, NoConnect
    <3>2. CASE Stub
      <4>1. accept_connect
        BY <2>1, <3>2 DEF Stub, accept_grant, accept_channel, receive_flag, receive_status, receive_end,
                          receive_command, receive_taken, reset, reply, reply_notify, reply_status
      <4>2. Head(watch) # "connect" /\ NoConnect'
        BY <1>0, <2>1, <4>1, Shrinks DEF accept_connect
      <4>3. QED
        BY <4>1, <4>2 DEF accept_connect
    <3>3. QED
      BY <3>1, <3>2
  <2>3. \A h \in Hosts : ~AtWork(h)' /\ host'[h] \notin {"killed", "crashed", "refused"}
    BY <1>0, <1>1 DEF AtWork, Gone, QuietInv
  <2>4. QED
    BY <2>2, <2>3 DEF QuietInv
<1>2. ASSUME NEW h \in Hosts, AtWork(h) PROVE QuietInv'
  <2>0. ~Gone(h) /\ QuietHost(h)
    BY <1>2 DEF AtWork, QuietInv
  <2>1. QuietHost(h)'
    <3>1. CASE accept_connect \/ accept_grant \/ accept_channel
      BY <1>2, <3>1, AcceptQuiet
    <3>2. CASE receive_end
      <4>1. stub = "wait" /\ stub' = "accept" /\ watch' = watch /\ haveEvent /\ page[grant] = End
        BY <3>2 DEF receive_end
      <4>2. Linked(h) /\ NoConnect
        BY <2>0, <4>1 DEF QuietHost
      <4>3. LinkedInv(h) /\ ~NoEvent /\ Open /\ page[h] = End
        BY <2>0, <4>1, <4>2, HostCases DEF NoEvent, Open, Linked
      <4>4. host[h] = "ending"
        BY <2>0, <4>3, Differ DEF LinkedInv, Open, Gone, IInv, TypeOK, HostStates
      <4>5. QED
        BY <1>0, <4>1, <4>2, <4>4 DEF QuietHost, Announcing, NoConnect
    <3>3. CASE ~(accept_connect \/ accept_grant \/ accept_channel \/ receive_end)
      <4>1. CASE InSession
        <5>1. InSession' /\ UNCHANGED <<grant, channel, watch>>
          BY <1>0, <3>3, <4>1 DEF InSession, Stub, event_handler, receive_flag, receive_status,
                                  receive_command, receive_taken, reply, reply_notify, reply_status
        <5>2. Linked(h) /\ NoConnect /\ Linked(h)' /\ NoConnect'
          BY <2>0, <4>1, <5>1 DEF QuietHost, InSession, Linked, NoConnect
        <5>3. QED
          BY <1>0, <2>0, <4>1, <5>2 DEF QuietHost, Announcing, InSession
      <4>2. CASE ~InSession
        <5>1. event_handler
          BY <1>0, <3>3, <4>2 DEF InSession, Stub, receive_flag, receive_status, receive_command,
                                  receive_taken, reply, reply_notify, reply_status
        <5>2. ~stubEvent
          BY <4>2 DEF IInv, StubInv
        <5>3. QED
          BY <5>1, <5>2 DEF event_handler
      <4>3. QED
        BY <4>1, <4>2
    <3>4. QED
      BY <3>1, <3>2, <3>3
  <2>2. \A k \in Hosts : (AtWork(k)' <=> AtWork(k)) /\ host'[k] \notin {"killed", "crashed", "refused"}
    BY <1>0 DEF AtWork, Gone, QuietInv
  <2>3. \A k \in Hosts : AtWork(k) => k = h
    BY <1>2 DEF IInv, OneAtWork
  <2>4. QED
    BY <1>2, <2>1, <2>2, <2>3 DEF QuietInv
<1>3. QED
  BY <1>1, <1>2

\* So it holds, ...
LEMMA QuietBegins ==
  ASSUME Init
  PROVE  QuietInv
<1>1. stub = "accept" /\ watch = <<>> /\ \A h \in Hosts : host[h] = "off"
  BY DEF Init
<1>2. NoConnect
  BY <1>1, EmptySeq DEF NoConnect
<1>3. QED
  BY <1>1, <1>2 DEF QuietInv, AtWork

\* ... goes on to hold ...
LEMMA QuietKept ==
  ASSUME Undisturbed, IInv, QuietInv, [Next]_vars
  PROVE  QuietInv'
<1>1. CASE \E h \in Hosts : Host(h) \/ kill(h)
  BY <1>1, HostQuiet
<1>2. CASE Stub \/ event_handler
  BY <1>2, StubQuiet
<1>3. CASE UNCHANGED vars
  BY <1>3 DEF vars, QuietInv, AtWork, Gone, QuietHost, Announcing, Announced, EndsWith, Remains, NoConnect,
              Linked, InSession
<1>4. QED
  BY <1>1, <1>2, <1>3 DEF Next

\* ... and this is what it is for.
LEMMA QuietIsUp ==
  ASSUME IInv, QuietInv
  PROVE  StubStaysUp /\ ConnectionIsToOne
<1>1. StubStaysUp
  BY DEF QuietInv, QuietHost, StubStaysUp, Linked, InSession
<1>2. channel # None => InSession
  BY <1>1 DEF IInv, StubInv, TypeOK, StubStates, InSession, StubStaysUp
<1>3. InSession => channel = grant
  BY DEF QuietInv, QuietHost, Linked, InSession
<1>4. QED
  BY <1>1, <1>2, <1>3 DEF ConnectionIsToOne

\* The stub domain does not end, as long as the orchestrators are started one after
\* the other and end by themselves: it finds a page and a channel whenever it looks
\* for them, and they are those of one orchestrator.
THEOREM StubIsUp == Undisturbed /\ Spec => [](StubStaysUp /\ ConnectionIsToOne)
<1> SUFFICES ASSUME Undisturbed PROVE Spec => [](StubStaysUp /\ ConnectionIsToOne)
  OBVIOUS
<1>1. OneAtATime
  BY DEF Undisturbed
<1>2. QED
  BY <1>1, IInvBegins, IInvKept, QuietBegins, QuietKept, QuietIsUp, PTL DEF Spec

=============================================================================
