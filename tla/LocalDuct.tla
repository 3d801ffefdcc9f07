------------------------------ MODULE LocalDuct ------------------------------
(***************************************************************************)
(* The management socket, lib/LocalDuct.c, as quixote-us.c sets it up and  *)
(* serves it and quixote-console.c connects to it: several orchestrators   *)
(* that are started for the same cartridge, so for the same path, and the  *)
(* consoles that find them by that path.                                   *)
(*                                                                         *)
(* A message of a console is one command, or the length of zero that whack *)
(* sends; the answer is one message (module ConsoleLink is about answers). *)
(* The file system, listen queues and the end of a process are external.   *)
(***************************************************************************)
EXTENDS Naturals, Sequences, FiniteSets

CONSTANTS Servers,   \* orchestrators, each of them started once
          Clients,   \* consoles, each of them run once
          None,
          Backlog,   \* connections the kernel keeps for accept
          Exclusive, \* is an orchestrator started only when none is at work?
          Crashes    \* can a process be killed?

ASSUME DuctAssumption ==
  /\ None \notin Servers \cup Clients
  /\ Backlog \in Nat \ {0}
  /\ {Exclusive, Crashes} \subseteq BOOLEAN

VARIABLES
  path,    \* the orchestrator whose socket the path names
  server,  \* what each orchestrator is doing
  backlog, \* the connections it has not accepted
  fd,      \* the connection it has accepted
  client,  \* what each console is doing
  peer,    \* the orchestrator a console is connected to
  sent,    \* the messages of a console that were not received
  answers  \* the answers sent to it

vars == <<path, server, backlog, fd, client, peer, sent, answers>>

TypeOK ==
  /\ path \in Servers \cup {None}
  /\ server \in [Servers -> {"new", "bound", "serving", "failing", "ended", "crashed"}]
  /\ backlog \in [Servers -> Seq(Clients)]
  /\ fd \in [Servers -> Clients \cup {None}]
  /\ client \in [Clients -> {"new", "refused", "connected", "waiting", "whacked", "crashed"}]
  /\ peer \in [Clients -> Servers \cup {None}]
  /\ sent \in [Clients -> Seq({"command", "end"})]
  /\ answers \in [Clients -> 0..1]

Init ==
  /\ path = None
  /\ server = [s \in Servers |-> "new"]
  /\ backlog = [s \in Servers |-> <<>>]
  /\ fd = [s \in Servers |-> None]
  /\ client = [c \in Clients |-> "new"]
  /\ peer = [c \in Clients |-> None]
  /\ sent = [c \in Clients |-> <<>>]
  /\ answers = [c \in Clients |-> 0]

AtWork(s) == server[s] \in {"bound", "serving", "failing"}

\* The console has closed its end of the connection.
Closed(c) == client[c] \in {"whacked", "crashed"}

-----------------------------------------------------------------------------
(* The orchestrator's object.                                              *)

ServerStep(s, from, to) ==
  /\ server[s] = from
  /\ server' = [server EXCEPT ![s] = to]
  /\ UNCHANGED <<client, peer>>

\* Mutant: the outcome of bind is not looked at.
InitPortUnchecked(s) ==
  /\ Exclusive => \A other \in Servers : ~AtWork(other)
  /\ ServerStep(s, "new", "bound")
  /\ path' = IF path = None THEN s ELSE path
  /\ UNCHANGED <<backlog, fd, sent, answers>>

\* init_port: bind fails when there is something at the path, whatever it is.
init_port(s) ==
  /\ Exclusive => \A other \in Servers : ~AtWork(other)
  /\ ServerStep(s, "new", IF path = None THEN "bound" ELSE "failing")
  /\ path' = IF path = None THEN s ELSE path
  /\ UNCHANGED <<backlog, fd, sent, answers>>

listen(s) ==
  /\ ServerStep(s, "bound", "serving")
  /\ UNCHANGED <<path, backlog, fd, sent, answers>>

accept_connection(s) ==
  /\ fd[s] = None
  /\ backlog[s] # <<>>
  /\ ServerStep(s, "serving", "serving")
  /\ fd' = [fd EXCEPT ![s] = Head(backlog[s])]
  /\ backlog' = [backlog EXCEPT ![s] = Tail(@)]
  /\ UNCHANGED <<path, sent, answers>>

\* receive_Buffer, the part of it that succeeds.
TakeMessage(c) == sent' = [sent EXCEPT ![c] = Tail(@)]

\* A command is received and answered.  Nobody handles SIGPIPE: to answer a
\* console that is gone is the end of the orchestrator.
receive_command(s) ==
  LET c == fd[s]
  IN  /\ c # None
      /\ sent[c] # <<>> /\ Head(sent[c]) = "command"
      /\ ServerStep(s, "serving", IF Closed(c) THEN "crashed" ELSE "serving")
      /\ TakeMessage(c)
      /\ answers' = [answers EXCEPT ![c] = IF Closed(c) THEN @ ELSE @ + 1]
      /\ UNCHANGED <<path, backlog, fd>>

\* reset: the object is ready for the next connection.
reset(s) == fd' = [fd EXCEPT ![s] = None]

\* The end of transmission: eof and reset.
receive_end(s) ==
  LET c == fd[s]
  IN  /\ c # None
      /\ sent[c] # <<>> /\ Head(sent[c]) = "end"
      /\ ServerStep(s, "serving", "serving")
      /\ reset(s)
      /\ TakeMessage(c)
      /\ UNCHANGED <<path, backlog, answers>>

\* The connection ends without one: receive_Buffer fails, the object is
\* poisoned, and the workload is killed.
receive_fails(s) ==
  LET c == fd[s]
  IN  /\ c # None
      /\ sent[c] = <<>> /\ Closed(c)
      /\ ServerStep(s, "serving", "failing")
      /\ UNCHANGED <<path, backlog, fd, sent, answers>>

\* Mutant: the path stays.
UnlinkNot == UNCHANGED path

\* whack removes the path of a server object, whoever's socket it names.
unlink == path' = None

whack(s) ==
  /\ \E from \in {"serving", "failing"} : ServerStep(s, from, "ended")
  /\ unlink
  /\ UNCHANGED <<backlog, fd, sent, answers>>

ServerCrash(s) ==
  /\ Crashes
  /\ \E from \in {"bound", "serving", "failing"} : ServerStep(s, from, "crashed")
  /\ UNCHANGED <<path, backlog, fd, sent, answers>>

-----------------------------------------------------------------------------
(* The console's object.                                                   *)

ClientStep(c, from, to) ==
  /\ client[c] = from
  /\ client' = [client EXCEPT ![c] = to]
  /\ UNCHANGED <<path, server, fd>>

\* connect waits while the backlog is full.  After a crash the processes the
\* orchestrator has forked may hold its socket open, and nobody will accept.
connect(c) ==
  \/ /\ path # None
     /\ server[path] \in {"serving", "failing", "crashed"}
     /\ Len(backlog[path]) < Backlog
     /\ ClientStep(c, "new", "connected")
     /\ backlog' = [backlog EXCEPT ![path] = Append(@, c)]
     /\ peer' = [peer EXCEPT ![c] = path]
     /\ UNCHANGED <<sent, answers>>
  \/ /\ \/ path = None
        \/ \E s \in Servers : path = s /\ server[s] \in {"bound", "crashed"}
     /\ ClientStep(c, "new", "refused")
     /\ UNCHANGED <<backlog, peer, sent, answers>>

\* The command is sent; it is the end of the console if the other end is gone.
send_Buffer(c) ==
  /\ ClientStep(c, "connected", IF server[peer[c]] = "ended" THEN "crashed" ELSE "waiting")
  /\ sent' = [sent EXCEPT ![c] = Append(@, "command")]
  /\ UNCHANGED <<backlog, peer, answers>>

SendEnd(c) == sent' = [sent EXCEPT ![c] = Append(@, "end")]

\* The answer, or the end of the connection, is received, and whack says so.
receive_answer(c) ==
  /\ ClientStep(c, "waiting", "whacked")
  /\ answers[c] > 0 \/ ~AtWork(peer[c])
  /\ SendEnd(c)
  /\ UNCHANGED <<backlog, peer, answers>>

ClientCrash(c) ==
  /\ Crashes
  /\ \E from \in {"connected", "waiting"} : ClientStep(c, from, "crashed")
  /\ UNCHANGED <<backlog, peer, sent, answers>>

-----------------------------------------------------------------------------
Serve(s) == \/ listen(s) \/ accept_connection(s) \/ receive_command(s)
            \/ receive_end(s) \/ receive_fails(s)

Server(s) == init_port(s) \/ Serve(s) \/ whack(s) \/ ServerCrash(s)

Enquire(c) == send_Buffer(c) \/ receive_answer(c)

Client(c) == connect(c) \/ Enquire(c) \/ ClientCrash(c)

Next == (\E s \in Servers : Server(s)) \/ (\E c \in Clients : Client(c))

\* An orchestrator that is at work and a console that is connected go on; one
\* that has failed ends when its workload has been killed.
Fairness == /\ \A s \in Servers : WF_vars(Serve(s))
            /\ \A s \in Servers : WF_vars(server[s] = "failing" /\ whack(s))
            /\ \A c \in Clients : WF_vars(Enquire(c))

Spec == Init /\ [][Next]_vars /\ Fairness

-----------------------------------------------------------------------------
(* Properties.                                                             *)

\* "[T]he -c argument can be used with quixote-console to select that session"
\* (README): the path of a running orchestrator leads to it.
RunningIsReachable == \A s \in Servers : server[s] = "serving" => path = s

\* An orchestrator that ends leaves no path behind: what is there names one that
\* is at work, or one that was killed, which makes the next start fail once.
OnlyCrashLeavesPath == path # None => AtWork(path) \/ server[path] = "crashed"

\* A console that runs to its end never costs an orchestrator its workload: the
\* object that serves connections is poisoned only by one that was killed.
PoisonedByCrashOnly ==
  \A s \in Servers : server[s] = "failing" /\ fd[s] # None => client[fd[s]] = "crashed"

\* A console that has sent its command does not wait for ever, whoever is in
\* front of it, unless the orchestrator is killed while others hold its socket.
WaitingIsServed ==
  \A c \in Clients :
    client[c] = "waiting" ~> (client[c] # "waiting" \/ server[peer[c]] = "crashed")
=============================================================================
