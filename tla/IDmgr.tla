-------------------------------- MODULE IDmgr --------------------------------
(***************************************************************************)
(* The identity manager of lib/IDmgr.c: clients that ask a daemon for an   *)
(* identity through a segment of shared memory and a semaphore, as lib/    *)
(* IPC.c makes them and takes them away.                                   *)
(*                                                                         *)
(* The daemon's loop is external: at SIGUSR1 it looks at the request, with *)
(* get_idtype and get_idname, and answers with set_idtoken or set_id_key.  *)
(* The kernel, the names of a segment and of a semaphore are external too. *)
(***************************************************************************)
EXTENDS Naturals

CONSTANTS Daemons,    \* how many daemons are started, one after the other
          Clients,    \* the names of the clients, and of what they ask for
          Requests,   \* how often a client asks
          Leaves,     \* can a daemon that serves end?
          Overlap,    \* can a daemon be started while another runs?
          Early,      \* can a client attach before the daemon has set up?
          Interrupts, \* can a signal interrupt the wait for the semaphore?
          Kills,      \* can a process be killed?
          Hoists      \* does the compiler read valid once for the whole loop?

VARIABLES
  path,    \* the daemon whose segment has the name /IDmgr, or 0
  sempath, \* and whose semaphore has the name /IDmgr.sem
  segment, \* struct IDmgr_ipc, of each daemon
  sem,     \* the values of the semaphores
  daemon,  \* what a daemon is doing
  pending, \* is SIGUSR1 pending for it?
  request, \* the request it looked at
  client,  \* what a client is doing
  at,      \* the segment and the semaphore it is attached to
  kind,    \* what it asks for
  asked,   \* how often it has asked
  got      \* what it was answered

nameVars == <<path, sempath>>
daemonVars == <<daemon, pending, request>>
clientVars == <<client, at, kind, asked, got>>
vars == <<nameVars, segment, sem, daemonVars, clientVars>>

Started == 1..Daemons
Kinds == {"token", "idhash"}
Empty(pid) == [pid |-> pid, valid |-> FALSE, type |-> "none", name |-> "none", assertion |-> "none", id |-> "none"]
Segments == [pid : 0..Daemons, valid : BOOLEAN, type : Kinds \cup {"none"},
             name : Clients \cup {"none"}, assertion : Clients \cup {"none"},
             id : Clients \cup {"none"}]
Nothing == [assertion |-> "none", id |-> "none"]

TypeOK ==
  /\ path \in 0..Daemons /\ sempath \in 0..Daemons
  /\ segment \in [Started -> Segments]
  /\ daemon \in [Started -> {"off", "opened", "made", "ready", "answering", "copying", "failed",
                             "unlinking", "gone"}]
  /\ client \in [Clients -> {"off", "attached", "locked", "asking", "waiting", "spinning",
                             "answered", "cleared", "poisoned", "gone"}]
  /\ asked \in [Clients -> 0..Requests]

Init ==
  /\ path = 0 /\ sempath = 0
  /\ segment = [d \in Started |-> Empty(0)]
  /\ sem = [d \in Started |-> 0]
  /\ daemon = [d \in Started |-> "off"]
  /\ pending = [d \in Started |-> FALSE]
  /\ request = [d \in Started |-> [type |-> "none", name |-> "none"]]
  /\ client = [c \in Clients |-> "off"]
  /\ at = [c \in Clients |-> [segment |-> 0, sem |-> 0]]
  /\ kind = [c \in Clients |-> "token"]
  /\ asked = [c \in Clients |-> 0]
  /\ got = [c \in Clients |-> Nothing]

Daemon(d, from, to) == daemon[d] = from /\ daemon' = [daemon EXCEPT ![d] = to]
Client(c, from, to) == client[c] = from /\ client' = [client EXCEPT ![c] = to]

-----------------------------------------------------------------------------
(* The daemon: setup, which creates the segment and the semaphore.         *)

\* O_EXCL: neither may have its name already.
create(d) ==
  /\ \A e \in 1..(d - 1) : daemon[e] = "gone" \/ (Overlap /\ daemon[e] # "off")
  /\ IF path = 0
     THEN Daemon(d, "off", "opened") /\ path' = d
     ELSE Daemon(d, "off", "failed") /\ UNCHANGED path
  /\ UNCHANGED <<sempath, segment, sem, pending, request, clientVars>>

create_sem(d) ==
  /\ IF sempath = 0
     THEN /\ Daemon(d, "opened", "made")
          /\ sempath' = d
          /\ sem' = [sem EXCEPT ![d] = 1]
     ELSE Daemon(d, "opened", "failed") /\ UNCHANGED <<sempath, sem>>
  /\ UNCHANGED <<path, segment, pending, request, clientVars>>

\* Only now the segment is cleared, and gets the pid that requests are signalled to.
setup(d) ==
  /\ Daemon(d, "made", "ready")
  /\ segment' = [segment EXCEPT ![d] = Empty(d)]
  /\ UNCHANGED <<nameVars, sem, pending, request, clientVars>>

\* A request that is of no type is only marked as valid.
get_idtype(d) ==
  /\ pending[d]
  /\ pending' = [pending EXCEPT ![d] = FALSE]
  /\ request' = [request EXCEPT ![d] = [type |-> segment[d].type, name |-> segment[d].name]]
  /\ IF segment[d].type = "none"
     THEN /\ Daemon(d, "ready", "ready")
          /\ segment' = [segment EXCEPT ![d] = [@ EXCEPT !.valid = TRUE]]
     ELSE Daemon(d, "ready", "answering") /\ UNCHANGED segment
  /\ UNCHANGED <<nameVars, sem, clientVars>>

\* set_idtoken begins with the assertion ...
set_assertion(d) ==
  /\ request[d].type = "token"
  /\ Daemon(d, "answering", "copying")
  /\ segment' = [segment EXCEPT ![d] = [@ EXCEPT !.assertion = request[d].name]]
  /\ UNCHANGED <<nameVars, sem, pending, request, clientVars>>

\* ... and ends as set_id_key does.
set_id_key(d) ==
  /\ \/ Daemon(d, "copying", "ready")
     \/ request[d].type = "idhash" /\ Daemon(d, "answering", "ready")
  /\ segment' = [segment EXCEPT ![d] = [@ EXCEPT !.id = request[d].name, !.valid = TRUE]]
  /\ UNCHANGED <<nameVars, sem, pending, request, clientVars>>

\* The destructor takes the names away, whosever they are, one after the other.
whack(d) ==
  /\ \/ Leaves /\ Daemon(d, "ready", "unlinking")
     \/ Daemon(d, "failed", "unlinking")
  /\ path' = 0
  /\ UNCHANGED <<sempath, segment, sem, pending, request, clientVars>>

whack_sem(d) ==
  /\ Daemon(d, "unlinking", "gone")
  /\ sempath' = 0
  /\ UNCHANGED <<path, segment, sem, pending, request, clientVars>>

daemon_killed(d) ==
  /\ Kills /\ daemon[d] \notin {"off", "gone"}
  /\ daemon' = [daemon EXCEPT ![d] = "gone"]
  /\ UNCHANGED <<nameVars, segment, sem, pending, request, clientVars>>

-----------------------------------------------------------------------------
(* A client.                                                               *)

attach(c) ==
  /\ asked[c] < Requests
  /\ Early \/ (path # 0 /\ daemon[path] = "ready")
  /\ IF path # 0 /\ sempath # 0
     THEN /\ Client(c, "off", "attached")
          /\ at' = [at EXCEPT ![c] = [segment |-> path, sem |-> sempath]]
     ELSE Client(c, "off", "poisoned") /\ UNCHANGED at
  /\ UNCHANGED <<nameVars, segment, sem, daemonVars, kind, asked, got>>

\* get_idtoken and get_id_key; a wait that is interrupted is taken for a lock.
lock(c) ==
  /\ asked[c] < Requests
  /\ Client(c, "attached", "locked")
  /\ \/ /\ sem[at[c].sem] > 0
        /\ sem' = [sem EXCEPT ![at[c].sem] = @ - 1]
     \/ Interrupts /\ sem[at[c].sem] = 0 /\ UNCHANGED sem
  /\ \E k \in Kinds : kind' = [kind EXCEPT ![c] = k]
  /\ got' = [got EXCEPT ![c] = Nothing]
  /\ UNCHANGED <<nameVars, segment, daemonVars, at, asked>>

\* Mutant: the answer to the request before is still marked as valid.
RequestValid(s, c) == [s EXCEPT !.name = c, !.type = kind[c]]

\* What the client writes for the daemon.
Request(s, c) == [s EXCEPT !.name = c, !.type = kind[c], !.valid = FALSE]

write_request(c) ==
  /\ Client(c, "locked", "asking")
  /\ segment' = [segment EXCEPT ![at[c].segment] = Request(@, c)]
  /\ UNCHANGED <<nameVars, sem, daemonVars, at, kind, asked, got>>

\* kill: the pid 0 is the process group of the client itself.
signal(c) ==
  /\ client[c] = "asking"
  /\ LET pid == segment[at[c].segment].pid IN
       /\ IF pid = 0 THEN Client(c, "asking", "gone") ELSE Client(c, "asking", "waiting")
       /\ pending' = [d \in Started |-> pending[d] \/ (d = pid /\ daemon[d] # "gone")]
  /\ UNCHANGED <<nameVars, segment, sem, daemon, request, at, kind, asked, got>>

\* The loop on valid; what is read once is not read again.
spin(c) ==
  /\ Hoists
  /\ Client(c, "waiting", "spinning")
  /\ ~segment[at[c].segment].valid
  /\ UNCHANGED <<nameVars, segment, sem, daemonVars, at, kind, asked, got>>

read_answer(c) ==
  /\ Client(c, "waiting", "answered")
  /\ segment[at[c].segment].valid
  /\ got' = [got EXCEPT ![c] =
       [assertion |-> IF kind[c] = "token" THEN segment[at[c].segment].assertion ELSE "none",
        id |-> segment[at[c].segment].id]]
  /\ UNCHANGED <<nameVars, segment, sem, daemonVars, at, kind, asked>>

clear_ipc(c) ==
  /\ Client(c, "answered", "cleared")
  /\ segment' = [segment EXCEPT ![at[c].segment] =
       [@ EXCEPT !.name = "none", !.assertion = "none", !.id = "none"]]
  /\ UNCHANGED <<nameVars, sem, daemonVars, at, kind, asked, got>>

unlock(c) ==
  /\ Client(c, "cleared", "attached")
  /\ sem' = [sem EXCEPT ![at[c].sem] = @ + 1]
  /\ asked' = [asked EXCEPT ![c] = @ + 1]
  /\ UNCHANGED <<nameVars, segment, daemonVars, at, kind, got>>

detach(c) ==
  /\ Client(c, "attached", "off")
  /\ UNCHANGED <<nameVars, segment, sem, daemonVars, at, kind, asked, got>>

client_killed(c) ==
  /\ Kills /\ client[c] \notin {"off", "gone"}
  /\ client' = [client EXCEPT ![c] = "gone"]
  /\ UNCHANGED <<nameVars, segment, sem, daemonVars, at, kind, asked, got>>

Serve(d) == create(d) \/ create_sem(d) \/ setup(d) \/ get_idtype(d) \/ set_assertion(d) \/ set_id_key(d)
Exchange(c) == write_request(c) \/ signal(c) \/ spin(c) \/ read_answer(c) \/ clear_ipc(c) \/ unlock(c)
Ask(c) == attach(c) \/ lock(c) \/ Exchange(c)

Next ==
  \/ \E d \in Started : Serve(d) \/ whack(d) \/ whack_sem(d) \/ daemon_killed(d)
  \/ \E c \in Clients : Ask(c) \/ detach(c) \/ client_killed(c)

Spec == Init /\ [][Next]_vars

\* Every process is scheduled; a daemon, which serves for ever, stays as it likes.
Fairness ==
  /\ \A d \in Started : WF_vars(Serve(d))
  /\ \A c \in Clients : WF_vars(lock(c)) /\ WF_vars(Exchange(c))

FairSpec == Spec /\ Fairness

-----------------------------------------------------------------------------
(* Properties.                                                             *)

Exchanging(c) == client[c] \in {"locked", "asking", "waiting", "spinning", "answered", "cleared"}

\* lib/IPC.c:322: a client that has the lock has it alone.
OneExchange ==
  \A b, c \in Clients :
    b # c /\ Exchanging(b) /\ Exchanging(c) => at[b].segment # at[c].segment

\* A client is answered what it asked for, whole, whoever asks before and after.
AnswerIsForName ==
  \A c \in Clients : client[c] \in {"answered", "cleared"} =>
    got[c] = [assertion |-> IF kind[c] = "token" THEN c ELSE "none", id |-> c]

\* lib/IDmgr.c:103: no key is left in the segment for the one who asks next.
NothingIsLeft ==
  \A d \in Started : sem[d] > 0 => segment[d].assertion = "none" /\ segment[d].id = "none"

\* A daemon that serves can be found, until another one takes its names away.
DaemonIsReachable ==
  \A d \in Started : daemon[d] \in {"ready", "answering", "copying"} => path = d /\ sempath = d

\* What is signalled is the daemon of the segment, never the pid 0, which is
\* the process group of the client.
DaemonIsSignalled ==
  \A c \in Clients : Exchanging(c) => segment[at[c].segment].pid = at[c].segment

\* Whoever asks for an identity has the daemon alone, and gets what it asked for.
IdentityIsOwn ==
  OneExchange /\ AnswerIsForName /\ NothingIsLeft /\ DaemonIsReachable /\ DaemonIsSignalled

\* A client that has asked is answered as long as the daemon stays.
AskedIsAnswered == \A c \in Clients : client[c] = "waiting" ~> client[c] # "waiting"

\* lib/IDmgr.c:371: a client that waits for the lock gets it ...
WantsLock(c) == client[c] = "attached" /\ asked[c] < Requests
LockIsObtained == \A c \in Clients : WantsLock(c) ~> client[c] # "attached"

\* ... and the query says whether it was successful, rather than not to return.
NeverStuck == \A c \in Clients : client[c] # "spinning"

=============================================================================
