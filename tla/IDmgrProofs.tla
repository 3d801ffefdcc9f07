---------------------------- MODULE IDmgrProofs ----------------------------
(* The exchange of IDmgr, for any number of clients and of daemons that are *)
(* started one after the other.                                             *)
EXTENDS IDmgr, TLAPS

\* A daemon is started when the one before has gone, a client when the daemon
\* is ready, and no signal interrupts the wait for the semaphore.  Daemons may
\* leave, daemons and clients may be killed, and valid may be read only once.
InTurn ==
  /\ Daemons \in Nat
  /\ Overlap = FALSE /\ Early = FALSE /\ Interrupts = FALSE
  /\ "none" \notin Clients

Serving == {"ready", "answering", "copying"}

Types ==
  /\ path \in 0..Daemons /\ sempath \in 0..Daemons
  /\ segment \in [Started -> Segments]
  /\ sem \in [Started -> {0, 1}]
  /\ daemon \in [Started -> {"off", "opened", "made", "ready", "answering", "copying", "failed",
                             "unlinking", "gone"}]
  /\ pending \in [Started -> BOOLEAN]
  /\ request \in [Started -> [type : Kinds \cup {"none"}, name : Clients \cup {"none"}]]
  /\ client \in [Clients -> {"off", "attached", "locked", "asking", "waiting", "spinning",
                             "answered", "cleared", "poisoned", "gone"}]
  /\ at \in [Clients -> [segment : 0..Daemons, sem : 0..Daemons]]
  /\ kind \in [Clients -> Kinds]
  /\ got \in [Clients -> [assertion : Clients \cup {"none"}, id : Clients \cup {"none"}]]

\* A daemon is started when those before it have gone, ...
Order == \A d, e \in Started : e < d /\ daemon[d] # "off" => daemon[e] = "gone"

\* ... so that the names are its own, ...
NamesInv ==
  \A d \in Started :
    /\ daemon[d] \in Serving \cup {"opened", "made"} => path = d
    /\ daemon[d] \in Serving \cup {"made"} => sempath = d
    /\ daemon[d] \in Serving => segment[d].pid = d

\* ... and a client has the segment and the semaphore of one daemon.
Attached(c) == client[c] = "attached" \/ Exchanging(c)

AttachedInv ==
  \A c \in Clients : Attached(c) =>
    /\ at[c].segment \in Started
    /\ at[c].sem = at[c].segment
    /\ daemon[at[c].segment] \in Serving \cup {"unlinking", "gone"}
    /\ segment[at[c].segment].pid = at[c].segment

\* Who is in the exchange has the semaphore, alone.
LockInv ==
  /\ \A c \in Clients : Exchanging(c) => sem[at[c].segment] = 0
  /\ OneExchange

\* How far the exchange over the segment d is.
Idle(d) == ~pending[d] /\ daemon[d] \notin {"answering", "copying"}
Clean(d) == segment[d].assertion = "none" /\ segment[d].id = "none"
Asks(c, s) == s.name = c /\ s.type = kind[c]
Answer(c) == [assertion |-> IF kind[c] = "token" THEN c ELSE "none", id |-> c]

Waiting(c, d) ==
  /\ Asks(c, segment[d])
  /\ \/ /\ ~segment[d].valid /\ pending[d] /\ Clean(d)
        /\ daemon[d] \notin {"answering", "copying"}
     \/ /\ ~segment[d].valid /\ ~pending[d] /\ Clean(d)
        /\ daemon[d] = "answering" /\ Asks(c, request[d])
     \/ /\ ~segment[d].valid /\ ~pending[d] /\ segment[d].assertion = c
        /\ daemon[d] = "copying" /\ Asks(c, request[d]) /\ kind[c] = "token"
     \/ ~segment[d].valid /\ daemon[d] \in {"unlinking", "gone"}
     \/ /\ segment[d].valid /\ Idle(d)
        /\ segment[d].assertion = Answer(c).assertion /\ segment[d].id = c

Progress(c, d) ==
  /\ client[c] = "locked" => Idle(d) /\ Clean(d)
  /\ client[c] = "asking" => Idle(d) /\ Clean(d) /\ Asks(c, segment[d]) /\ ~segment[d].valid
  /\ client[c] \in {"waiting", "spinning"} => Waiting(c, d)
  /\ client[c] = "answered" => Idle(d) /\ got[c] = Answer(c)
  /\ client[c] = "cleared" => Idle(d) /\ Clean(d) /\ got[c] = Answer(c)

ExchangeInv ==
  /\ \A c \in Clients : Exchanging(c) => Progress(c, at[c].segment)
  /\ \A d \in Started : sem[d] = 1 \/ daemon[d] \in {"off", "opened", "made"} => Idle(d) /\ Clean(d)

IInv == Types /\ Order /\ NamesInv /\ AttachedInv /\ LockInv /\ ExchangeInv

-----------------------------------------------------------------------------
(* What is written to a segment.                                           *)

\* The segment i becomes new.
Writes(i, new) == segment' = [segment EXCEPT ![i] = new]

LEMMA SetupWrites ==
  ASSUME InTurn, Types, NEW d \in Started, setup(d)
  PROVE  \E new \in Segments :
           /\ Writes(d, new)
           /\ new.pid = d /\ new.type = "none" /\ new.name = "none" /\ ~new.valid
           /\ new.assertion = "none" /\ new.id = "none"
<1>1. d \in 0..Daemons
  BY DEF Started, InTurn
<1>2. Writes(d, Empty(d))
  BY DEF setup, Writes
<1> DEFINE new == Empty(d)
<1>3. /\ new \in Segments /\ new.pid = d /\ new.type = "none" /\ new.name = "none"
      /\ new.valid = FALSE /\ new.assertion = "none" /\ new.id = "none"
  BY <1>1 DEF Segments, Empty
<1> HIDE DEF new
<1>4. QED
  BY <1>2, <1>3 DEF new

LEMMA MarkWrites ==
  ASSUME InTurn, Types, NEW d \in Started, segment' = [segment EXCEPT ![d] = [@ EXCEPT !.valid = TRUE]]
  PROVE  \E new \in Segments :
           /\ Writes(d, new)
           /\ new.pid = segment[d].pid /\ new.type = segment[d].type /\ new.name = segment[d].name
           /\ new.valid
           /\ new.assertion = segment[d].assertion /\ new.id = segment[d].id
<1> DEFINE s == segment[d]
           new == [s EXCEPT !.valid = TRUE]
<1>1. s \in Segments
  BY DEF Types
<1>2. Writes(d, new)
  BY DEF Writes
<1> HIDE DEF s
<1>3. /\ new \in Segments /\ new.pid = s.pid /\ new.type = s.type /\ new.name = s.name
      /\ new.valid = TRUE /\ new.assertion = s.assertion /\ new.id = s.id
  BY <1>1 DEF Segments
<1> HIDE DEF new
<1>4. QED
  BY <1>2, <1>3 DEF s

LEMMA AssertionWrites ==
  ASSUME InTurn, Types, NEW d \in Started, set_assertion(d)
  PROVE  \E new \in Segments :
           /\ Writes(d, new)
           /\ new.pid = segment[d].pid /\ new.type = segment[d].type /\ new.name = segment[d].name
           /\ new.valid = segment[d].valid
           /\ new.assertion = request[d].name /\ new.id = segment[d].id
<1> DEFINE s == segment[d]
           name == request[d].name
           new == [s EXCEPT !.assertion = name]
<1>1. s \in Segments /\ name \in Clients \cup {"none"}
  BY DEF Types
<1>2. Writes(d, new)
  BY DEF Writes, set_assertion
<1> HIDE DEF s, name
<1>3. /\ new \in Segments /\ new.pid = s.pid /\ new.type = s.type /\ new.name = s.name
      /\ new.valid = s.valid /\ new.assertion = name /\ new.id = s.id
  BY <1>1 DEF Segments
<1> HIDE DEF new
<1>4. QED
  BY <1>2, <1>3 DEF s, name

LEMMA KeyWrites ==
  ASSUME InTurn, Types, NEW d \in Started, set_id_key(d)
  PROVE  \E new \in Segments :
           /\ Writes(d, new)
           /\ new.pid = segment[d].pid /\ new.type = segment[d].type /\ new.name = segment[d].name
           /\ new.valid
           /\ new.assertion = segment[d].assertion /\ new.id = request[d].name
<1> DEFINE s == segment[d]
           name == request[d].name
           new == [s EXCEPT !.id = name, !.valid = TRUE]
<1>1. s \in Segments /\ name \in Clients \cup {"none"}
  BY DEF Types
<1>2. Writes(d, new)
  BY DEF Writes, set_id_key
<1> HIDE DEF s, name
<1>3. /\ new \in Segments /\ new.pid = s.pid /\ new.type = s.type /\ new.name = s.name
      /\ new.valid = TRUE /\ new.assertion = s.assertion /\ new.id = name
  BY <1>1 DEF Segments
<1> HIDE DEF new
<1>4. QED
  BY <1>2, <1>3 DEF s, name

LEMMA RequestWrites ==
  ASSUME InTurn, Types, NEW c \in Clients, at[c].segment \in Started, write_request(c)
  PROVE  \E new \in Segments :
           /\ Writes(at[c].segment, new)
           /\ new.pid = segment[at[c].segment].pid /\ new.type = kind[c] /\ new.name = c
           /\ ~new.valid
           /\ new.assertion = segment[at[c].segment].assertion /\ new.id = segment[at[c].segment].id
<1> DEFINE i == at[c].segment
           s == segment[i]
           k == kind[c]
           new == [s EXCEPT !.name = c, !.type = k, !.valid = FALSE]
<1>1. s \in Segments /\ k \in Kinds
  BY DEF Types
<1>2. Writes(i, new)
  BY DEF Writes, write_request, Request
<1> HIDE DEF s, k
<1>3. /\ new \in Segments /\ new.pid = s.pid /\ new.type = k /\ new.name = c
      /\ new.valid = FALSE /\ new.assertion = s.assertion /\ new.id = s.id
  BY <1>1 DEF Segments
<1> HIDE DEF new
<1>4. QED
  BY <1>2, <1>3 DEF s, k

LEMMA ClearWrites ==
  ASSUME InTurn, Types, NEW c \in Clients, at[c].segment \in Started, clear_ipc(c)
  PROVE  \E new \in Segments :
           /\ Writes(at[c].segment, new)
           /\ new.pid = segment[at[c].segment].pid
           /\ new.assertion = "none" /\ new.id = "none"
<1> DEFINE i == at[c].segment
           s == segment[i]
           new == [s EXCEPT !.name = "none", !.assertion = "none", !.id = "none"]
<1>1. s \in Segments
  BY DEF Types
<1>2. Writes(i, new)
  BY DEF Writes, clear_ipc
<1> HIDE DEF s
<1>3. new \in Segments /\ new.pid = s.pid /\ new.assertion = "none" /\ new.id = "none"
  BY <1>1 DEF Segments
<1> HIDE DEF new
<1>4. QED
  BY <1>2, <1>3 DEF s

LEMMA WrittenSegment ==
  ASSUME Types, NEW i \in Started, NEW new \in Segments, Writes(i, new)
  PROVE  /\ segment' \in [Started -> Segments]
         /\ segment'[i] = new
         /\ \A d \in Started : d # i => segment'[d] = segment[d]
BY DEF Types, Writes

\* Only setup gives a segment another pid, its daemon's.
LEMMA PidsStep ==
  ASSUME InTurn, Types, AttachedInv, [Next]_vars
  PROVE  /\ segment' \in [Started -> Segments]
         /\ \A d \in Started : \/ segment'[d].pid = segment[d].pid
                               \/ segment'[d].pid = d
         /\ \A d \in Started : setup(d) => segment'[d].pid = d
<1> DEFINE Keeps == /\ segment' \in [Started -> Segments]
                    /\ \A d \in Started : \/ segment'[d].pid = segment[d].pid
                                          \/ segment'[d].pid = d
                    /\ \A d \in Started : setup(d) => segment'[d].pid = d
<1> SUFFICES Keeps
  OBVIOUS
<1>0. \A d \in Started : setup(d) => segment'[d].pid = d
  BY SetupWrites, WrittenSegment
<1>a. ASSUME NEW i \in Started, NEW new \in Segments, Writes(i, new), new.pid \in {segment[i].pid, i}
      PROVE  Keeps
  BY <1>0, <1>a, WrittenSegment
<1>b. UNCHANGED segment => Keeps
  BY <1>0 DEF Types
<1> HIDE DEF Keeps
<1>1. ASSUME NEW d \in Started, setup(d) PROVE Keeps
  BY <1>1, <1>a, SetupWrites
<1>2. ASSUME NEW d \in Started, get_idtype(d) PROVE Keeps
  BY <1>2, <1>a, <1>b, MarkWrites DEF get_idtype
<1>3. ASSUME NEW d \in Started, set_assertion(d) PROVE Keeps
  BY <1>3, <1>a, AssertionWrites
<1>4. ASSUME NEW d \in Started, set_id_key(d) PROVE Keeps
  BY <1>4, <1>a, KeyWrites
<1>5. ASSUME NEW c \in Clients, write_request(c) PROVE Keeps
  <2>1. at[c].segment \in Started
    BY <1>5 DEF AttachedInv, Attached, Exchanging, write_request, Client
  <2>2. QED
    BY <1>5, <1>a, <2>1, RequestWrites
<1>6. ASSUME NEW c \in Clients, clear_ipc(c) PROVE Keeps
  <2>1. at[c].segment \in Started
    BY <1>6 DEF AttachedInv, Attached, Exchanging, clear_ipc, Client
  <2>2. QED
    BY <1>6, <1>a, <2>1, ClearWrites
<1>7. ASSUME NEW d \in Started, create(d) \/ create_sem(d) \/ whack(d) \/ whack_sem(d) \/ daemon_killed(d)
      PROVE  Keeps
  BY <1>7, <1>b DEF create, create_sem, whack, whack_sem, daemon_killed
<1>8. ASSUME NEW c \in Clients, \/ attach(c) \/ lock(c) \/ signal(c) \/ spin(c) \/ read_answer(c)
                                \/ unlock(c) \/ detach(c) \/ client_killed(c)
      PROVE  Keeps
  BY <1>8, <1>b DEF attach, lock, signal, spin, read_answer, unlock, detach, client_killed
<1>9. CASE UNCHANGED vars
  BY <1>9, <1>b DEF vars
<1>10. QED
  BY <1>1, <1>2, <1>3, <1>4, <1>5, <1>6, <1>7, <1>8, <1>9 DEF Next, Serve, Ask, Exchange

-----------------------------------------------------------------------------
(* Who has the names, the segments and the semaphores.                     *)

\* One daemon at a time.
LEMMA OthersAreNot ==
  ASSUME InTurn, Order, NEW d \in Started, daemon[d] \notin {"off", "gone"}
  PROVE  \A e \in Started : e # d => daemon[e] \in {"off", "gone"}
<1> SUFFICES ASSUME NEW e \in Started, e # d PROVE daemon[e] \in {"off", "gone"}
  OBVIOUS
<1>1. d \in Nat /\ e \in Nat
  BY DEF Started, InTurn
<1>2. CASE e < d
  BY <1>2 DEF Order
<1>3. CASE d < e
  BY <1>3 DEF Order
<1>4. QED
  BY <1>1, <1>2, <1>3

\* A semaphore is given back by the one who has it: its value is 0 or 1.
LEMMA TypesStep ==
  ASSUME InTurn, Types, AttachedInv, LockInv, [Next]_vars
  PROVE  Types'
<1>0. segment' \in [Started -> Segments]
  BY PidsStep
<1>a. ASSUME NEW d \in Started, NEW to \in {"ready", "copying", "unlinking", "gone"},
             daemon' = [daemon EXCEPT ![d] = to], path' \in 0..Daemons, sempath' \in 0..Daemons,
             UNCHANGED <<sem, pending, request, clientVars>>
      PROVE  Types'
  BY <1>a, <1>0 DEF Types, clientVars
<1>b. ASSUME NEW c \in Clients, NEW to \in {"attached", "asking", "waiting", "spinning", "cleared",
                                           "off", "gone"},
             client' = [client EXCEPT ![c] = to], pending' \in [Started -> BOOLEAN],
             UNCHANGED <<nameVars, sem, daemon, request, at, kind, got>>
      PROVE  Types'
  BY <1>b, <1>0 DEF Types, nameVars
<1>1. ASSUME NEW d \in Started, create(d) PROVE Types'
  <2>1. d \in 0..Daemons
    BY DEF Started, InTurn
  <2>2. path' \in 0..Daemons
    BY <1>1, <2>1 DEF create, Types
  <2>3. QED
    BY <1>1, <1>0, <2>2 DEF create, Daemon, Types, daemonVars, clientVars
<1>2. ASSUME NEW d \in Started, create_sem(d) PROVE Types'
  <2>1. d \in 0..Daemons
    BY DEF Started, InTurn
  <2>2. sem' \in [Started -> {0, 1}] /\ sempath' \in 0..Daemons
    BY <1>2, <2>1 DEF create_sem, Types
  <2>3. QED
    BY ZenonT(60), <1>2, <1>0, <2>2 DEF create_sem, Daemon, Types, clientVars
<1>3. ASSUME NEW d \in Started, setup(d) PROVE Types'
  BY <1>3, <1>a DEF setup, Daemon, Types, nameVars
<1>4. ASSUME NEW d \in Started, get_idtype(d) PROVE Types'
  <2>1. segment[d] \in Segments
    BY DEF Types
  <2>2. segment[d].type \in Kinds \cup {"none"} /\ segment[d].name \in Clients \cup {"none"}
    BY <2>1 DEF Segments
  <2> DEFINE t == segment[d].type
             n == segment[d].name
  <2>3. request' = [request EXCEPT ![d] = [type |-> t, name |-> n]]
    BY <1>4 DEF get_idtype
  <2> HIDE DEF t, n
  <2>4. request' \in [Started -> [type : Kinds \cup {"none"}, name : Clients \cup {"none"}]]
    BY <2>2, <2>3 DEF Types, t, n
  <2>5. /\ daemon' \in [Started -> {"off", "opened", "made", "ready", "answering", "copying", "failed",
                                   "unlinking", "gone"}]
        /\ pending' \in [Started -> BOOLEAN]
        /\ UNCHANGED <<nameVars, sem, clientVars>>
    BY <1>4 DEF get_idtype, Daemon, Types
  <2>6. QED
    BY <1>0, <2>4, <2>5 DEF Types, nameVars, clientVars
<1>5. ASSUME NEW d \in Started, set_assertion(d) PROVE Types'
  BY <1>5, <1>a DEF set_assertion, Daemon, Types, nameVars
<1>6. ASSUME NEW d \in Started, set_id_key(d) PROVE Types'
  BY <1>6, <1>a DEF set_id_key, Daemon, Types, nameVars
<1>7. ASSUME NEW d \in Started, whack(d) PROVE Types'
  <2>1. path' \in 0..Daemons /\ sempath' \in 0..Daemons
    BY <1>7 DEF whack, Types, InTurn
  <2>2. QED
    BY <1>7, <1>a, <2>1 DEF whack, Daemon
<1>8. ASSUME NEW d \in Started, whack_sem(d) PROVE Types'
  <2>1. path' \in 0..Daemons /\ sempath' \in 0..Daemons
    BY <1>8 DEF whack_sem, Types, InTurn
  <2>2. QED
    BY <1>8, <1>a, <2>1 DEF whack_sem, Daemon
<1>9. ASSUME NEW d \in Started, daemon_killed(d) PROVE Types'
  BY <1>9, <1>a DEF daemon_killed, Types, nameVars
<1>10. ASSUME NEW c \in Clients, attach(c) PROVE Types'
  <2>1. at' = at \/ at' = [at EXCEPT ![c] = [segment |-> path, sem |-> sempath]]
    BY <1>10 DEF attach
  <2>2. [segment |-> path, sem |-> sempath] \in [segment : 0..Daemons, sem : 0..Daemons]
    BY DEF Types
  <2>3. at' \in [Clients -> [segment : 0..Daemons, sem : 0..Daemons]]
    BY <2>1, <2>2 DEF Types
  <2>4. PICK to \in {"attached", "poisoned"} : client' = [client EXCEPT ![c] = to]
    BY <1>10 DEF attach, Client
  <2>5. client' \in [Clients -> {"off", "attached", "locked", "asking", "waiting", "spinning",
                                 "answered", "cleared", "poisoned", "gone"}]
    BY <2>4 DEF Types
  <2>6. UNCHANGED <<nameVars, sem, daemonVars, kind, got>>
    BY <1>10 DEF attach
  <2>7. QED
    BY <1>0, <2>3, <2>5, <2>6 DEF Types, nameVars, daemonVars
<1>11. ASSUME NEW c \in Clients, lock(c) PROVE Types'
  <2>1. client[c] = "attached" /\ at[c].sem \in Started
    BY <1>11 DEF lock, Client, AttachedInv, Attached
  <2> DEFINE e == at[c].sem
  <2>a. e \in Started /\ sem[e] \in {0, 1}
    BY <2>1 DEF Types
  <2>b. \/ sem[e] > 0 /\ sem' = [sem EXCEPT ![e] = sem[e] - 1]
        \/ sem' = sem
    BY <1>11 DEF lock
  <2> HIDE DEF e
  <2>2. sem' \in [Started -> {0, 1}]
    <3>1. CASE sem[e] > 0 /\ sem' = [sem EXCEPT ![e] = sem[e] - 1]
      <4>1. sem[e] - 1 \in {0, 1}
        BY <2>a, <3>1
      <4>2. QED
        BY <2>a, <3>1, <4>1 DEF Types
    <3>2. CASE sem' = sem
      BY <3>2 DEF Types
    <3>3. QED
      BY <2>b, <3>1, <3>2
  <2>3. got' \in [Clients -> [assertion : Clients \cup {"none"}, id : Clients \cup {"none"}]]
    BY <1>11 DEF lock, Types, Nothing
  <2>4. kind' \in [Clients -> Kinds]
    BY <1>11 DEF lock, Types
  <2>5. QED
    BY <1>11, <1>0, <2>2, <2>3, <2>4 DEF lock, Client, Types, nameVars, daemonVars
<1>12. ASSUME NEW c \in Clients, write_request(c) PROVE Types'
  BY <1>12, <1>b DEF write_request, Client, Types, daemonVars
<1>13. ASSUME NEW c \in Clients, signal(c) PROVE Types'
  <2>1. pending' \in [Started -> BOOLEAN]
    BY <1>13 DEF signal, Types
  <2>2. PICK to \in {"gone", "waiting"} : client' = [client EXCEPT ![c] = to]
    BY <1>13 DEF signal, Client
  <2>3. UNCHANGED <<nameVars, sem, daemon, request, at, kind, got>>
    BY <1>13 DEF signal
  <2>4. QED
    BY <1>b, <2>1, <2>2, <2>3
<1>14. ASSUME NEW c \in Clients, spin(c) PROVE Types'
  BY <1>14, <1>b DEF spin, Client, Types, daemonVars
<1>15. ASSUME NEW c \in Clients, read_answer(c) PROVE Types'
  <2>1. client[c] = "waiting"
    BY <1>15 DEF read_answer, Client
  <2> DEFINE s == segment[at[c].segment]
  <2>2. s \in Segments
    BY <2>1 DEF Types, AttachedInv, Attached, Exchanging
  <2>3. got' = [got EXCEPT ![c] = [assertion |-> IF kind[c] = "token" THEN s.assertion ELSE "none",
                                   id |-> s.id]]
    BY <1>15 DEF read_answer
  <2> HIDE DEF s
  <2>4. s.assertion \in Clients \cup {"none"} /\ s.id \in Clients \cup {"none"}
    BY <2>2 DEF Segments
  <2>5. got' \in [Clients -> [assertion : Clients \cup {"none"}, id : Clients \cup {"none"}]]
    BY <2>3, <2>4 DEF Types
  <2>6. QED
    BY <1>15, <1>0, <2>5 DEF read_answer, Client, Types, nameVars, daemonVars
<1>16. ASSUME NEW c \in Clients, clear_ipc(c) PROVE Types'
  BY <1>16, <1>b DEF clear_ipc, Client, Types, daemonVars
<1>17. ASSUME NEW c \in Clients, unlock(c) PROVE Types'
  <2>1. client[c] = "cleared"
    BY <1>17 DEF unlock, Client
  <2>2. at[c].sem \in Started /\ sem[at[c].sem] = 0
    BY <2>1 DEF AttachedInv, Attached, Exchanging, LockInv
  <2>3. sem' \in [Started -> {0, 1}]
    BY <1>17, <2>2 DEF unlock, Types
  <2>4. QED
    BY <1>17, <1>0, <2>3 DEF unlock, Client, Types, nameVars, daemonVars
<1>18. ASSUME NEW c \in Clients, detach(c) PROVE Types'
  BY <1>18, <1>b DEF detach, Client, Types, daemonVars
<1>19. ASSUME NEW c \in Clients, client_killed(c) PROVE Types'
  BY <1>19, <1>b DEF client_killed, Types, daemonVars
<1>20. CASE UNCHANGED vars
  BY <1>20, <1>0 DEF vars, Types, nameVars, daemonVars, clientVars
<1>21. QED
  BY <1>1, <1>2, <1>3, <1>4, <1>5, <1>6, <1>7, <1>8, <1>9, <1>10, <1>11, <1>12, <1>13, <1>14,
    <1>15, <1>16, <1>17, <1>18, <1>19, <1>20 DEF Next, Serve, Ask, Exchange

\* A daemon is not started before the one before has gone.
LEMMA OrderStep ==
  ASSUME InTurn, Types, Order, [Next]_vars
  PROVE  Order'
<1>1. ASSUME NEW d \in Started, create(d) PROVE Order'
  BY <1>1 DEF create, Daemon, Order, Types, InTurn, Started, nameVars, daemonVars, clientVars
<1>2. ASSUME NEW d \in Started, create_sem(d) PROVE Order'
  BY <1>2 DEF create_sem, Daemon, Order, Types, InTurn, Started, nameVars, daemonVars,
    clientVars
<1>3. ASSUME NEW d \in Started, setup(d) PROVE Order'
  BY <1>3 DEF setup, Daemon, Order, Types, InTurn, Started, nameVars, daemonVars, clientVars
<1>4. ASSUME NEW d \in Started, get_idtype(d) PROVE Order'
  BY <1>4 DEF get_idtype, Daemon, Order, Types, InTurn, Started, nameVars, daemonVars,
    clientVars
<1>5. ASSUME NEW d \in Started, set_assertion(d) PROVE Order'
  BY <1>5 DEF set_assertion, Daemon, Order, Types, InTurn, Started, nameVars, daemonVars,
    clientVars
<1>6. ASSUME NEW d \in Started, set_id_key(d) PROVE Order'
  BY <1>6 DEF set_id_key, Daemon, Order, Types, InTurn, Started, nameVars, daemonVars,
    clientVars
<1>7. ASSUME NEW d \in Started, whack(d) PROVE Order'
  BY <1>7 DEF whack, Daemon, Order, Types, InTurn, Started, nameVars, daemonVars, clientVars
<1>8. ASSUME NEW d \in Started, whack_sem(d) PROVE Order'
  BY <1>8 DEF whack_sem, Daemon, Order, Types, InTurn, Started, nameVars, daemonVars, clientVars
<1>9. ASSUME NEW d \in Started, daemon_killed(d) PROVE Order'
  BY <1>9 DEF daemon_killed, Order, Types, InTurn, Started, nameVars, daemonVars, clientVars
<1>10. ASSUME NEW c \in Clients,
             \/ attach(c) \/ lock(c) \/ write_request(c) \/ signal(c) \/ spin(c)
             \/ read_answer(c) \/ clear_ipc(c) \/ unlock(c) \/ detach(c) \/ client_killed(c)
      PROVE  Order'
  BY <1>10 DEF attach, lock, write_request, signal, spin, read_answer, clear_ipc, unlock,
    detach, client_killed, Order, Types, InTurn, Started, nameVars, daemonVars, clientVars
<1>11. CASE UNCHANGED vars
  BY <1>11 DEF vars, Order, Types, InTurn, Started, nameVars, daemonVars, clientVars
<1>12. QED
  BY <1>1, <1>2, <1>3, <1>4, <1>5, <1>6, <1>7, <1>8, <1>9, <1>10, <1>11 DEF Next, Serve, Ask,
    Exchange

\* A daemon that ends takes away no names but its own: it is alone.
LEMMA NamesStep ==
  ASSUME InTurn, Types, Order, NamesInv, AttachedInv, [Next]_vars
  PROVE  NamesInv'
<1>0. /\ \A d \in Started : segment'[d].pid \in {segment[d].pid, d}
      /\ \A d \in Started : setup(d) => segment'[d].pid = d
  BY PidsStep
<1>a. ASSUME NEW d \in Started, NEW to, daemon' = [daemon EXCEPT ![d] = to], UNCHANGED nameVars,
             to \in Serving => daemon[d] \in Serving \/ (daemon[d] = "made" /\ segment'[d].pid = d),
             to # "opened", to # "made"
      PROVE  NamesInv'
  <2>1. daemon'[d] = to /\ \A e \in Started : e # d => daemon'[e] = daemon[e]
    BY <1>a DEF Types
  <2>2. UNCHANGED <<path, sempath>>
    BY <1>a DEF nameVars
  <2>3. QED
    BY <1>0, <1>a, <2>1, <2>2 DEF NamesInv
<1>b. UNCHANGED <<nameVars, daemon>> => NamesInv'
  BY <1>0 DEF NamesInv, nameVars
<1>1. ASSUME NEW d \in Started, create(d) PROVE NamesInv'
  <2>1. \A e \in Started : e # d => daemon'[e] = daemon[e]
    BY <1>1 DEF create, Daemon, Types
  <2>2. \A e \in Started : e # d => daemon[e] \in {"off", "gone"}
    <3>1. ASSUME NEW e \in Started, e < d PROVE daemon[e] = "gone"
      BY <1>1, <3>1 DEF create, InTurn, Started
    <3>2. ASSUME NEW e \in Started, d < e PROVE daemon[e] = "off"
      BY <1>1, <3>2 DEF create, Daemon, Order
    <3>3. QED
      BY <3>1, <3>2 DEF InTurn, Started
  <2>3. /\ daemon'[d] \in {"opened", "failed"}
        /\ daemon'[d] = "opened" => path' = d
    BY <1>1 DEF create, Daemon, Types
  <2>4. QED
    BY <2>1, <2>2, <2>3 DEF NamesInv, Serving
<1>2. ASSUME NEW d \in Started, create_sem(d) PROVE NamesInv'
  <2>1. /\ daemon[d] = "opened" /\ daemon'[d] \in {"made", "failed"}
        /\ \A e \in Started : e # d => daemon'[e] = daemon[e]
    BY <1>2 DEF create_sem, Daemon, Types
  <2>2. \A e \in Started : e # d => daemon[e] \in {"off", "gone"}
    BY <2>1, OthersAreNot
  <2>3. path' = path /\ (daemon'[d] = "made" => sempath' = d)
    BY <1>2 DEF create_sem, Daemon, Types
  <2>4. QED
    BY <2>1, <2>2, <2>3 DEF NamesInv, Serving
<1>3. ASSUME NEW d \in Started, setup(d) PROVE NamesInv'
  <2>1. daemon[d] = "made" /\ daemon' = [daemon EXCEPT ![d] = "ready"] /\ UNCHANGED nameVars
    BY <1>3 DEF setup, Daemon
  <2>2. segment'[d].pid = d
    BY <1>0, <1>3
  <2>3. QED
    BY <1>a, <2>1, <2>2
<1>4. ASSUME NEW d \in Started, get_idtype(d) PROVE NamesInv'
  <2>1. daemon[d] \in Serving /\ UNCHANGED nameVars
    BY <1>4 DEF get_idtype, Daemon, Serving
  <2>2. PICK to \in {"ready", "answering"} : daemon' = [daemon EXCEPT ![d] = to]
    BY <1>4 DEF get_idtype, Daemon
  <2>3. to # "opened" /\ to # "made"
    BY <2>2
  <2>4. QED
    BY <1>a, <2>1, <2>2, <2>3
<1>5. ASSUME NEW d \in Started, set_assertion(d) PROVE NamesInv'
  <2>1. daemon[d] \in Serving /\ daemon' = [daemon EXCEPT ![d] = "copying"] /\ UNCHANGED nameVars
    BY <1>5 DEF set_assertion, Daemon, Serving
  <2>2. QED
    BY <1>a, <2>1
<1>6. ASSUME NEW d \in Started, set_id_key(d) PROVE NamesInv'
  <2>1. daemon[d] \in Serving /\ daemon' = [daemon EXCEPT ![d] = "ready"] /\ UNCHANGED nameVars
    BY <1>6 DEF set_id_key, Daemon, Serving
  <2>2. QED
    BY <1>a, <2>1
<1>7. ASSUME NEW d \in Started, whack(d) PROVE NamesInv'
  <2>1. \A e \in Started : e # d => daemon[e] \in {"off", "gone"}
    BY <1>7, OthersAreNot DEF whack, Daemon
  <2>2. /\ daemon'[d] = "unlinking"
        /\ \A e \in Started : e # d => daemon'[e] = daemon[e]
    BY <1>7 DEF whack, Daemon, Types
  <2>3. QED
    BY <2>1, <2>2 DEF NamesInv, Serving
<1>8. ASSUME NEW d \in Started, whack_sem(d) PROVE NamesInv'
  <2>1. \A e \in Started : e # d => daemon[e] \in {"off", "gone"}
    BY <1>8, OthersAreNot DEF whack_sem, Daemon
  <2>2. /\ daemon'[d] = "gone"
        /\ \A e \in Started : e # d => daemon'[e] = daemon[e]
    BY <1>8 DEF whack_sem, Daemon, Types
  <2>3. QED
    BY <2>1, <2>2 DEF NamesInv, Serving
<1>9. ASSUME NEW d \in Started, daemon_killed(d) PROVE NamesInv'
  BY <1>9, <1>a DEF daemon_killed, Serving
<1>10. ASSUME NEW c \in Clients,
             \/ attach(c) \/ lock(c) \/ write_request(c) \/ signal(c) \/ spin(c)
             \/ read_answer(c) \/ clear_ipc(c) \/ unlock(c) \/ detach(c) \/ client_killed(c)
      PROVE  NamesInv'
  BY <1>10, <1>b DEF attach, lock, write_request, signal, spin, read_answer, clear_ipc, unlock,
    detach, client_killed, daemonVars
<1>11. CASE UNCHANGED vars
  BY <1>11, <1>b DEF vars, daemonVars
<1>12. QED
  BY <1>1, <1>2, <1>3, <1>4, <1>5, <1>6, <1>7, <1>8, <1>9, <1>10, <1>11 DEF Next, Serve, Ask,
    Exchange

\* A client attaches to a segment and a semaphore of the same, ready daemon.
LEMMA AttachedStep ==
  ASSUME InTurn, Types, Order, NamesInv, AttachedInv, [Next]_vars
  PROVE  AttachedInv'
<1>0. /\ \A d \in Started : segment'[d].pid \in {segment[d].pid, d}
      /\ \A d \in Started : setup(d) => segment'[d].pid = d
  BY PidsStep
<1>a. ASSUME NEW d \in Started, NEW to, daemon' = [daemon EXCEPT ![d] = to], UNCHANGED clientVars,
             daemon[d] \in Serving \cup {"unlinking", "gone"} => to \in Serving \cup {"unlinking", "gone"}
      PROVE  AttachedInv'
  <2>1. daemon'[d] = to /\ \A e \in Started : e # d => daemon'[e] = daemon[e]
    BY <1>a DEF Types
  <2>2. UNCHANGED <<client, at>>
    BY <1>a DEF clientVars
  <2>3. QED
    BY <1>0, <1>a, <2>1, <2>2 DEF AttachedInv, Attached, Exchanging
<1>b. ASSUME NEW c \in Clients, NEW to, client' = [client EXCEPT ![c] = to],
             UNCHANGED <<at, daemon>>,
             to \in {"off", "gone"} \/ Attached(c)
      PROVE  AttachedInv'
  <2>1. client'[c] = to /\ \A b \in Clients : b # c => client'[b] = client[b]
    BY <1>b DEF Types
  <2>2. \A b \in Clients : Attached(b)' => Attached(b)
    BY <1>b, <2>1 DEF Attached, Exchanging
  <2>3. QED
    BY <1>0, <1>b, <2>2 DEF AttachedInv
<1>1. ASSUME NEW d \in Started, create(d) PROVE AttachedInv'
  <2>1. PICK to : Daemon(d, "off", to)
    BY <1>1 DEF create
  <2>2. UNCHANGED clientVars
    BY <1>1 DEF create
  <2>3. QED
    BY <1>a, <2>1, <2>2 DEF Daemon, Serving
<1>2. ASSUME NEW d \in Started, create_sem(d) PROVE AttachedInv'
  <2>1. PICK to : Daemon(d, "opened", to)
    BY <1>2 DEF create_sem
  <2>2. UNCHANGED clientVars
    BY <1>2 DEF create_sem
  <2>3. QED
    BY <1>a, <2>1, <2>2 DEF Daemon, Serving
<1>3. ASSUME NEW d \in Started, setup(d) PROVE AttachedInv'
  BY <1>3, <1>a DEF setup, Daemon, Serving
<1>4. ASSUME NEW d \in Started, get_idtype(d) PROVE AttachedInv'
  <2>1. /\ daemon[d] = "ready" /\ daemon'[d] \in {"ready", "answering"}
        /\ \A e \in Started : e # d => daemon'[e] = daemon[e]
        /\ UNCHANGED <<client, at>>
    BY <1>4 DEF get_idtype, Daemon, Types, clientVars
  <2>2. QED
    BY <1>0, <2>1 DEF AttachedInv, Attached, Exchanging, Serving
<1>5. ASSUME NEW d \in Started, set_assertion(d) PROVE AttachedInv'
  BY <1>5, <1>a DEF set_assertion, Daemon, Serving
<1>6. ASSUME NEW d \in Started, set_id_key(d) PROVE AttachedInv'
  BY <1>6, <1>a DEF set_id_key, Daemon, Serving
<1>7. ASSUME NEW d \in Started, whack(d) PROVE AttachedInv'
  BY <1>7, <1>a DEF whack, Daemon, Serving
<1>8. ASSUME NEW d \in Started, whack_sem(d) PROVE AttachedInv'
  BY <1>8, <1>a DEF whack_sem, Daemon, Serving
<1>9. ASSUME NEW d \in Started, daemon_killed(d) PROVE AttachedInv'
  BY <1>9, <1>a DEF daemon_killed
<1>10. ASSUME NEW c \in Clients, attach(c) PROVE AttachedInv'
  <2>1. /\ client[c] = "off" /\ client'[c] \in {"attached", "poisoned"}
        /\ \A b \in Clients : b # c => client'[b] = client[b] /\ at'[b] = at[b]
        /\ UNCHANGED <<daemon, segment>>
    BY <1>10 DEF attach, Client, Types, daemonVars
  <2>2. ASSUME client'[c] = "attached"
        PROVE  /\ at'[c].segment = path /\ at'[c].sem = sempath
               /\ path \in Started /\ daemon[path] = "ready"
    BY <1>10, <2>2 DEF attach, Client, Types, InTurn, Started
  <2>3. ASSUME client'[c] = "attached"
        PROVE  sempath = path /\ segment[path].pid = path
    BY <2>2, <2>3 DEF NamesInv, Serving
  <2>4. QED
    BY <2>1, <2>2, <2>3 DEF AttachedInv, Attached, Exchanging, Serving
<1>11. ASSUME NEW c \in Clients, lock(c) PROVE AttachedInv'
  BY <1>11, <1>b DEF lock, Client, Attached, Exchanging, daemonVars
<1>12. ASSUME NEW c \in Clients, write_request(c) PROVE AttachedInv'
  BY <1>12, <1>b DEF write_request, Client, Attached, Exchanging, daemonVars
<1>13. ASSUME NEW c \in Clients, signal(c) PROVE AttachedInv'
  <2>1. PICK to \in {"gone", "waiting"} : Client(c, "asking", to)
    BY <1>13 DEF signal
  <2>2. UNCHANGED <<at, daemon>>
    BY <1>13 DEF signal
  <2>3. QED
    BY <1>b, <2>1, <2>2 DEF Client, Attached, Exchanging
<1>14. ASSUME NEW c \in Clients, spin(c) PROVE AttachedInv'
  BY <1>14, <1>b DEF spin, Client, Attached, Exchanging, daemonVars
<1>15. ASSUME NEW c \in Clients, read_answer(c) PROVE AttachedInv'
  BY <1>15, <1>b DEF read_answer, Client, Attached, Exchanging, daemonVars
<1>16. ASSUME NEW c \in Clients, clear_ipc(c) PROVE AttachedInv'
  BY <1>16, <1>b DEF clear_ipc, Client, Attached, Exchanging, daemonVars
<1>17. ASSUME NEW c \in Clients, unlock(c) PROVE AttachedInv'
  BY <1>17, <1>b DEF unlock, Client, Attached, Exchanging, daemonVars
<1>18. ASSUME NEW c \in Clients, detach(c) PROVE AttachedInv'
  BY <1>18, <1>b DEF detach, Client, Attached, Exchanging, daemonVars
<1>19. ASSUME NEW c \in Clients, client_killed(c) PROVE AttachedInv'
  BY <1>19, <1>b DEF client_killed, daemonVars
<1>20. CASE UNCHANGED vars
  BY <1>20, <1>0 DEF vars, AttachedInv, Attached, Exchanging, daemonVars, clientVars
<1>21. QED
  BY <1>1, <1>2, <1>3, <1>4, <1>5, <1>6, <1>7, <1>8, <1>9, <1>10, <1>11, <1>12, <1>13, <1>14,
    <1>15, <1>16, <1>17, <1>18, <1>19, <1>20 DEF Next, Serve, Ask, Exchange

\* The semaphore lets one client in, and nobody gives it back twice.
LEMMA LockStep ==
  ASSUME InTurn, Types, AttachedInv, LockInv, [Next]_vars
  PROVE  LockInv'
<1>1. ASSUME NEW d \in Started, create(d) PROVE LockInv'
  BY <1>1 DEF create, Daemon, LockInv, OneExchange, AttachedInv, Types, InTurn, Started,
    Attached, Exchanging, nameVars, daemonVars, clientVars
<1>2. ASSUME NEW d \in Started, create_sem(d) PROVE LockInv'
  <2>1. \A c \in Clients : Exchanging(c) => at[c].segment # d
    BY <1>2 DEF create_sem, Daemon, AttachedInv, Attached, Serving
  <2>2. UNCHANGED <<client, at>> /\ \A e \in Started : e # d => sem'[e] = sem[e]
    BY <1>2 DEF create_sem, clientVars, Types
  <2>3. QED
    BY <2>1, <2>2 DEF LockInv, OneExchange, AttachedInv, Attached, Exchanging
<1>3. ASSUME NEW d \in Started, setup(d) PROVE LockInv'
  BY <1>3 DEF setup, Daemon, LockInv, OneExchange, AttachedInv, Types, InTurn, Started,
    Attached, Exchanging, nameVars, daemonVars, clientVars
<1>4. ASSUME NEW d \in Started, get_idtype(d) PROVE LockInv'
  BY <1>4 DEF get_idtype, Daemon, LockInv, OneExchange, AttachedInv, Types, InTurn, Started,
    Attached, Exchanging, nameVars, daemonVars, clientVars
<1>5. ASSUME NEW d \in Started, set_assertion(d) PROVE LockInv'
  BY <1>5 DEF set_assertion, Daemon, LockInv, OneExchange, AttachedInv, Types, InTurn, Started,
    Attached, Exchanging, nameVars, daemonVars, clientVars
<1>6. ASSUME NEW d \in Started, set_id_key(d) PROVE LockInv'
  BY <1>6 DEF set_id_key, Daemon, LockInv, OneExchange, AttachedInv, Types, InTurn, Started,
    Attached, Exchanging, nameVars, daemonVars, clientVars
<1>7. ASSUME NEW d \in Started, whack(d) PROVE LockInv'
  BY <1>7 DEF whack, Daemon, LockInv, OneExchange, AttachedInv, Types, InTurn, Started,
    Attached, Exchanging, nameVars, daemonVars, clientVars
<1>8. ASSUME NEW d \in Started, whack_sem(d) PROVE LockInv'
  BY <1>8 DEF whack_sem, Daemon, LockInv, OneExchange, AttachedInv, Types, InTurn, Started,
    Attached, Exchanging, nameVars, daemonVars, clientVars
<1>9. ASSUME NEW d \in Started, daemon_killed(d) PROVE LockInv'
  BY <1>9 DEF daemon_killed, LockInv, OneExchange, AttachedInv, Types, InTurn, Started,
    Attached, Exchanging, nameVars, daemonVars, clientVars
<1>10. ASSUME NEW c \in Clients, attach(c) PROVE LockInv'
  <2>1. /\ client'[c] \in {"attached", "poisoned"} /\ UNCHANGED sem
        /\ \A b \in Clients : b # c => client'[b] = client[b] /\ at'[b] = at[b]
    BY <1>10 DEF attach, Client, Types
  <2>2. QED
    BY <2>1 DEF LockInv, OneExchange, Exchanging
<1>11. ASSUME NEW c \in Clients, lock(c) PROVE LockInv'
  BY <1>11 DEF lock, Client, LockInv, OneExchange, AttachedInv, Types, InTurn, Started,
    Attached, Exchanging, nameVars, daemonVars, clientVars
<1>12. ASSUME NEW c \in Clients, write_request(c) PROVE LockInv'
  BY <1>12 DEF write_request, Client, LockInv, OneExchange, AttachedInv, Types, InTurn, Started,
    Attached, Exchanging, nameVars, daemonVars, clientVars
<1>13. ASSUME NEW c \in Clients, signal(c) PROVE LockInv'
  <2>1. /\ client[c] = "asking" /\ client'[c] \in {"gone", "waiting"} /\ UNCHANGED <<sem, at>>
        /\ \A b \in Clients : b # c => client'[b] = client[b]
    BY <1>13 DEF signal, Client, Types
  <2>2. QED
    BY <2>1 DEF LockInv, OneExchange, Exchanging
<1>14. ASSUME NEW c \in Clients, spin(c) PROVE LockInv'
  BY <1>14 DEF spin, Client, LockInv, OneExchange, AttachedInv, Types, InTurn, Started,
    Attached, Exchanging, nameVars, daemonVars, clientVars
<1>15. ASSUME NEW c \in Clients, read_answer(c) PROVE LockInv'
  BY <1>15 DEF read_answer, Client, LockInv, OneExchange, AttachedInv, Types, InTurn, Started,
    Attached, Exchanging, nameVars, daemonVars, clientVars
<1>16. ASSUME NEW c \in Clients, clear_ipc(c) PROVE LockInv'
  BY <1>16 DEF clear_ipc, Client, LockInv, OneExchange, AttachedInv, Types, InTurn, Started,
    Attached, Exchanging, nameVars, daemonVars, clientVars
<1>17. ASSUME NEW c \in Clients, unlock(c) PROVE LockInv'
  BY <1>17 DEF unlock, Client, LockInv, OneExchange, AttachedInv, Types, InTurn, Started,
    Attached, Exchanging, nameVars, daemonVars, clientVars
<1>18. ASSUME NEW c \in Clients, detach(c) PROVE LockInv'
  BY <1>18 DEF detach, Client, LockInv, OneExchange, AttachedInv, Types, InTurn, Started,
    Attached, Exchanging, nameVars, daemonVars, clientVars
<1>19. ASSUME NEW c \in Clients, client_killed(c) PROVE LockInv'
  BY <1>19 DEF client_killed, LockInv, OneExchange, AttachedInv, Types, InTurn, Started,
    Attached, Exchanging, nameVars, daemonVars, clientVars
<1>20. CASE UNCHANGED vars
  BY <1>20 DEF vars, LockInv, OneExchange, AttachedInv, Types, InTurn, Started, Attached,
    Exchanging, nameVars, daemonVars, clientVars
<1>21. QED
  BY <1>1, <1>2, <1>3, <1>4, <1>5, <1>6, <1>7, <1>8, <1>9, <1>10, <1>11, <1>12, <1>13, <1>14,
    <1>15, <1>16, <1>17, <1>18, <1>19, <1>20 DEF Next, Serve, Ask, Exchange

-----------------------------------------------------------------------------
(* How the exchange goes on.                                               *)

\* An exchange over a segment that a step has nothing to do with.
LEMMA ProgressKept ==
  ASSUME NEW b, NEW i, Progress(b, i), client'[b] = client[b], kind'[b] = kind[b], got'[b] = got[b],
         segment'[i] = segment[i], pending'[i] = pending[i], daemon'[i] = daemon[i],
         request'[i] = request[i]
  PROVE  Progress(b, i)'
BY DEF Progress, Waiting, Asks, Answer, Idle, Clean

\* What a step of a daemon leaves alone.
DaemonMoves(d) ==
  /\ UNCHANGED <<client, at, kind, got>>
  /\ \A i \in Started : i # d => /\ segment'[i] = segment[i] /\ pending'[i] = pending[i]
                                 /\ daemon'[i] = daemon[i] /\ request'[i] = request[i]

\* Only the exchange over its own segment depends on a daemon's step.
LEMMA DaemonProgress ==
  ASSUME InTurn, Types, AttachedInv, ExchangeInv, NEW d \in Started, DaemonMoves(d),
         ASSUME NEW b \in Clients, Exchanging(b), at[b].segment = d, Progress(b, d)
         PROVE  Progress(b, d)'
  PROVE  \A b \in Clients : Exchanging(b)' => Progress(b, at[b].segment)'
<1> SUFFICES ASSUME NEW b \in Clients, Exchanging(b)' PROVE Progress(b, at[b].segment)'
  OBVIOUS
<1>1. Exchanging(b) /\ at'[b] = at[b]
  BY DEF DaemonMoves, Exchanging
<1>2. Progress(b, at[b].segment) /\ at[b].segment \in Started
  BY <1>1 DEF ExchangeInv, AttachedInv, Attached
<1>3. CASE at[b].segment = d
  <2>1. Progress(b, d)'
    BY SMTT(30), <1>1, <1>2, <1>3
  <2>2. QED
    BY <1>1, <1>3, <2>1 DEF Progress, Waiting, Asks, Answer, Idle, Clean
<1>4. CASE at[b].segment # d
  <2> DEFINE i == at[b].segment
  <2>1. Progress(b, i)
    BY <1>2
  <2>2. /\ client'[b] = client[b] /\ kind'[b] = kind[b] /\ got'[b] = got[b]
        /\ segment'[i] = segment[i] /\ pending'[i] = pending[i] /\ daemon'[i] = daemon[i]
        /\ request'[i] = request[i] /\ at'[b].segment = i
    BY <1>1, <1>2, <1>4 DEF DaemonMoves
  <2>3. QED
    BY <2>1, <2>2 DEF Progress, Waiting, Asks, Answer, Idle, Clean
<1>5. QED
  BY <1>3, <1>4

\* Who is in the exchange finds its daemon at work, or on its way out.
LEMMA DaemonOfExchange ==
  ASSUME AttachedInv, NEW b \in Clients, Exchanging(b)
  PROVE  daemon[at[b].segment] \in {"ready", "answering", "copying", "unlinking", "gone"}
BY DEF AttachedInv, Attached, Serving

DaemonGoal == \A b \in Clients : Exchanging(b)' => Progress(b, at[b].segment)'

LEMMA StartProgress ==
  ASSUME InTurn, Types, AttachedInv, ExchangeInv, NEW d \in Started,
         create(d) \/ create_sem(d) \/ setup(d)
  PROVE  DaemonGoal
<1>1. daemon[d] \in {"off", "opened", "made"}
  BY DEF create, create_sem, setup, Daemon
<1>2. DaemonMoves(d)
  <2>1. CASE create(d) \/ create_sem(d)
    BY <2>1 DEF DaemonMoves, create, create_sem, Daemon, Types, clientVars
  <2>2. CASE setup(d)
    <3>1. \A i \in Started : i # d => segment'[i] = segment[i]
      BY <2>2 DEF setup, Types
    <3>2. QED
      BY <2>2, <3>1 DEF DaemonMoves, setup, Daemon, Types, clientVars
  <2>3. QED
    BY <2>1, <2>2
<1>3. ASSUME NEW b \in Clients, Exchanging(b), at[b].segment = d, Progress(b, d)
      PROVE  Progress(b, d)'
  BY <1>1, <1>3, DaemonOfExchange
<1>4. QED
  BY <1>2, <1>3, DaemonProgress DEF DaemonGoal

\* A daemon that ends, or is killed, leaves a request as it is.
LEMMA EndProgress ==
  ASSUME InTurn, Types, AttachedInv, ExchangeInv, NEW d \in Started,
         whack(d) \/ whack_sem(d) \/ daemon_killed(d)
  PROVE  DaemonGoal
<1>1. DaemonMoves(d)
  BY DEF DaemonMoves, whack, whack_sem, daemon_killed, Daemon, Types, clientVars
<1>2. /\ UNCHANGED <<segment, pending, request>>
      /\ daemon'[d] \in {"unlinking", "gone"}
  BY DEF whack, whack_sem, daemon_killed, Daemon, Types
<1>3. ASSUME NEW b \in Clients, Exchanging(b), at[b].segment = d, Progress(b, d)
      PROVE  Progress(b, d)'
  <2>1. client'[b] = client[b] /\ kind'[b] = kind[b] /\ got'[b] = got[b]
    BY <1>1 DEF DaemonMoves
  <2>2. QED
    BY <1>2, <1>3, <2>1 DEF Progress, Waiting, Asks, Answer, Idle, Clean
<1>4. QED
  BY <1>1, <1>3, DaemonProgress DEF DaemonGoal

\* A daemon looks at a request that is there, and complete.
LEMMA LookProgress ==
  ASSUME InTurn, Types, AttachedInv, ExchangeInv, NEW d \in Started, get_idtype(d)
  PROVE  DaemonGoal
<1>1. pending[d] /\ daemon[d] = "ready" /\ ~pending'[d]
  BY DEF get_idtype, Daemon, Types
<1>2. DaemonMoves(d)
  <2>1. \A i \in Started : i # d => segment'[i] = segment[i]
    BY DEF get_idtype, Types
  <2>2. \A i \in Started : i # d => request'[i] = request[i] /\ pending'[i] = pending[i]
    BY DEF get_idtype, Types
  <2>3. \A i \in Started : i # d => daemon'[i] = daemon[i]
    BY DEF get_idtype, Daemon, Types
  <2>4. QED
    BY <2>1, <2>2, <2>3 DEF DaemonMoves, get_idtype, clientVars
<1>3. ASSUME NEW b \in Clients, Exchanging(b), at[b].segment = d, Progress(b, d)
      PROVE  Progress(b, d)'
  <2>1. client'[b] = client[b] /\ kind'[b] = kind[b] /\ kind[b] \in Kinds
    BY <1>2 DEF DaemonMoves, Types
  <2>2. /\ client[b] \in {"waiting", "spinning"}
        /\ Asks(b, segment[d]) /\ ~segment[d].valid /\ Clean(d)
    BY <1>1, <1>3 DEF Progress, Waiting, Idle, Exchanging
  <2>3. segment[d].type # "none"
    BY <2>1, <2>2 DEF Asks, Kinds
  <2>4. daemon'[d] = "answering" /\ UNCHANGED segment
    BY <2>3 DEF get_idtype, Daemon, Types
  <2>5. request'[d].type = segment[d].type /\ request'[d].name = segment[d].name
    BY DEF get_idtype, Types
  <2>6. Waiting(b, d)'
    BY <1>1, <2>1, <2>2, <2>4, <2>5 DEF Waiting, Asks, Clean
  <2>7. QED
    BY <2>1, <2>2, <2>6 DEF Progress
<1>4. QED
  BY <1>2, <1>3, DaemonProgress DEF DaemonGoal

\* The first half of the answer to a request for a token.
LEMMA AssertionProgress ==
  ASSUME InTurn, Types, AttachedInv, ExchangeInv, NEW d \in Started, set_assertion(d)
  PROVE  DaemonGoal
<1>1. PICK new \in Segments :
        /\ Writes(d, new)
        /\ new.pid = segment[d].pid /\ new.type = segment[d].type /\ new.name = segment[d].name
        /\ new.valid = segment[d].valid
        /\ new.assertion = request[d].name /\ new.id = segment[d].id
  BY AssertionWrites
<1>2. segment'[d] = new /\ \A i \in Started : i # d => segment'[i] = segment[i]
  BY <1>1, WrittenSegment
<1>3. /\ request[d].type = "token" /\ daemon[d] = "answering" /\ daemon'[d] = "copying"
      /\ UNCHANGED <<pending, request>>
      /\ \A i \in Started : i # d => daemon'[i] = daemon[i]
  BY DEF set_assertion, Daemon, Types
<1>4. DaemonMoves(d)
  BY <1>2, <1>3 DEF DaemonMoves, set_assertion, clientVars
<1>5. ASSUME NEW b \in Clients, Exchanging(b), at[b].segment = d, Progress(b, d)
      PROVE  Progress(b, d)'
  <2>1. client'[b] = client[b] /\ kind'[b] = kind[b]
    BY <1>4 DEF DaemonMoves
  <2>2. /\ client[b] \in {"waiting", "spinning"}
        /\ Asks(b, segment[d]) /\ ~segment[d].valid /\ ~pending[d] /\ Asks(b, request[d])
    BY <1>3, <1>5 DEF Progress, Waiting, Idle, Exchanging
  <2>3. Asks(b, new) /\ new.assertion = b /\ kind[b] = "token"
    BY <1>1, <1>3, <2>2 DEF Asks
  <2>4. ~new.valid
    BY <1>1, <2>2
  <2>5. Waiting(b, d)'
    BY <1>2, <1>3, <2>1, <2>2, <2>3, <2>4 DEF Waiting, Asks
  <2>6. QED
    BY <2>1, <2>2, <2>5 DEF Progress
<1>6. QED
  BY <1>4, <1>5, DaemonProgress DEF DaemonGoal

\* The answer is complete.
LEMMA KeyProgress ==
  ASSUME InTurn, Types, AttachedInv, ExchangeInv, NEW d \in Started, set_id_key(d)
  PROVE  DaemonGoal
<1>1. PICK new \in Segments :
        /\ Writes(d, new)
        /\ new.pid = segment[d].pid /\ new.type = segment[d].type /\ new.name = segment[d].name
        /\ new.valid
        /\ new.assertion = segment[d].assertion /\ new.id = request[d].name
  BY KeyWrites
<1>2. segment'[d] = new /\ \A i \in Started : i # d => segment'[i] = segment[i]
  BY <1>1, WrittenSegment
<1>3. /\ daemon[d] = "copying" \/ (daemon[d] = "answering" /\ request[d].type = "idhash")
      /\ daemon'[d] = "ready"
      /\ UNCHANGED <<pending, request>>
      /\ \A i \in Started : i # d => daemon'[i] = daemon[i]
  BY DEF set_id_key, Daemon, Types
<1>4. DaemonMoves(d)
  BY <1>2, <1>3 DEF DaemonMoves, set_id_key, clientVars
<1>5. ASSUME NEW b \in Clients, Exchanging(b), at[b].segment = d, Progress(b, d)
      PROVE  Progress(b, d)'
  <2>1. client'[b] = client[b] /\ kind'[b] = kind[b]
    BY <1>4 DEF DaemonMoves
  <2>2. /\ client[b] \in {"waiting", "spinning"}
        /\ Asks(b, segment[d]) /\ ~pending[d] /\ Asks(b, request[d])
        /\ \/ Clean(d) /\ daemon[d] = "answering"
           \/ segment[d].assertion = b /\ kind[b] = "token"
    BY <1>3, <1>5 DEF Progress, Waiting, Idle, Exchanging
  <2>3. Asks(b, new) /\ new.id = b
    BY <1>1, <2>2 DEF Asks
  <2>4. new.assertion = Answer(b).assertion
    BY <1>1, <1>3, <2>2 DEF Answer, Asks, Clean
  <2>5. Idle(d)'
    BY <1>3, <2>2 DEF Idle
  <2>6. Answer(b)' = Answer(b)
    BY <2>1 DEF Answer
  <2>7. Waiting(b, d)'
    BY SMTT(30), <1>1, <1>2, <2>1, <2>3, <2>4, <2>5, <2>6 DEF Waiting, Asks
  <2>8. QED
    BY <2>1, <2>2, <2>7 DEF Progress
<1>6. QED
  BY <1>4, <1>5, DaemonProgress DEF DaemonGoal

\* What a step of a client leaves alone.
ClientMoves(c) ==
  /\ UNCHANGED <<daemon, request>>
  /\ \A b \in Clients : b # c => /\ client'[b] = client[b] /\ at'[b] = at[b]
                                 /\ kind'[b] = kind[b] /\ got'[b] = got[b]
  /\ \A i \in Started : ~(Exchanging(c) /\ i = at[c].segment) =>
       segment'[i] = segment[i] /\ pending'[i] = pending[i]

\* The exchanges of the others go on over other segments.
LEMMA ClientProgress ==
  ASSUME InTurn, Types, AttachedInv, LockInv, ExchangeInv, NEW c \in Clients, ClientMoves(c),
         Exchanging(c)' => Progress(c, at[c].segment)'
  PROVE  \A b \in Clients : b = c \/ (Exchanging(b)' => Progress(b, at[b].segment)')
<1> SUFFICES ASSUME NEW b \in Clients, b # c, Exchanging(b)' PROVE Progress(b, at[b].segment)'
  OBVIOUS
<1> DEFINE i == at[b].segment
<1>1. Exchanging(b) /\ at'[b] = at[b]
  BY DEF ClientMoves, Exchanging
<1>2. Progress(b, i) /\ i \in Started
  BY <1>1 DEF ExchangeInv, AttachedInv, Attached
<1>3. ~(Exchanging(c) /\ i = at[c].segment)
  BY <1>1 DEF LockInv, OneExchange
<1>4. /\ client'[b] = client[b] /\ kind'[b] = kind[b] /\ got'[b] = got[b]
      /\ segment'[i] = segment[i] /\ pending'[i] = pending[i]
      /\ UNCHANGED <<daemon, request>> /\ at'[b].segment = i
  BY <1>1, <1>2, <1>3 DEF ClientMoves
<1>5. QED
  BY <1>2, <1>4 DEF Progress, Waiting, Asks, Answer, Idle, Clean

\* A client that has the lock finds the segment clean.
LEMMA LockProgress ==
  ASSUME InTurn, Types, AttachedInv, LockInv, ExchangeInv, NEW c \in Clients, lock(c)
  PROVE  DaemonGoal
<1> DEFINE i == at[c].segment
<1>1. /\ client[c] = "attached" /\ client'[c] = "locked" /\ sem[at[c].sem] > 0
      /\ UNCHANGED <<segment, daemon, pending, request, at>>
      /\ \A b \in Clients : b # c => client'[b] = client[b] /\ kind'[b] = kind[b] /\ got'[b] = got[b]
  BY DEF lock, Client, Types, InTurn, daemonVars
<1>2. i \in Started /\ at[c].sem = i
  BY <1>1 DEF AttachedInv, Attached
<1>3. sem[i] = 1
  BY <1>1, <1>2 DEF Types
<1>4. Idle(i) /\ Clean(i)
  BY <1>2, <1>3 DEF ExchangeInv
<1>5. ClientMoves(c)
  BY <1>1 DEF ClientMoves
<1>6. Progress(c, at[c].segment)'
  BY <1>1, <1>4 DEF Progress, Idle, Clean
<1>7. QED
  BY <1>5, <1>6, ClientProgress DEF DaemonGoal

LEMMA RequestProgress ==
  ASSUME InTurn, Types, AttachedInv, LockInv, ExchangeInv, NEW c \in Clients, write_request(c)
  PROVE  DaemonGoal
<1> DEFINE i == at[c].segment
<1>1. /\ client[c] = "locked" /\ client'[c] = "asking"
      /\ UNCHANGED <<daemon, pending, request, at, kind, got>>
      /\ \A b \in Clients : b # c => client'[b] = client[b]
  BY DEF write_request, Client, Types, daemonVars
<1>2. i \in Started /\ Idle(i) /\ Clean(i)
  BY <1>1 DEF AttachedInv, Attached, Exchanging, ExchangeInv, Progress
<1>3. PICK new \in Segments :
        /\ Writes(at[c].segment, new)
        /\ new.pid = segment[at[c].segment].pid /\ new.type = kind[c] /\ new.name = c
        /\ ~new.valid
        /\ new.assertion = segment[at[c].segment].assertion /\ new.id = segment[at[c].segment].id
  BY <1>2, RequestWrites
<1>4. segment'[i] = new /\ \A d \in Started : d # i => segment'[d] = segment[d]
  BY <1>2, <1>3, WrittenSegment
<1>5. ClientMoves(c)
  BY <1>1, <1>4 DEF ClientMoves, Exchanging
<1>6. Progress(c, i)'
  BY <1>1, <1>2, <1>3, <1>4 DEF Progress, Asks, Idle, Clean
<1>7. QED
  BY <1>5, <1>6, ClientProgress DEF DaemonGoal

\* The daemon is told of a request that is there; one that is gone is not.
LEMMA SignalProgress ==
  ASSUME InTurn, Types, AttachedInv, LockInv, ExchangeInv, NEW c \in Clients, signal(c)
  PROVE  DaemonGoal
<1> DEFINE i == at[c].segment
<1>1. /\ client[c] = "asking" /\ UNCHANGED <<daemon, segment, request, at, kind, got>>
      /\ \A b \in Clients : b # c => client'[b] = client[b]
  BY DEF signal, Client, Types
<1>2. i \in Started /\ segment[i].pid = i
  BY <1>1 DEF AttachedInv, Attached, Exchanging
<1>3. Idle(i) /\ Clean(i) /\ Asks(c, segment[i]) /\ ~segment[i].valid
  BY <1>1 DEF ExchangeInv, Progress, Exchanging
<1>4. /\ client'[c] = "waiting"
      /\ pending' = [d \in Started |-> pending[d] \/ (d = i /\ daemon[d] # "gone")]
  BY <1>2 DEF signal, Client, Types, Started, InTurn
<1>5. ClientMoves(c)
  <2>1. \A d \in Started : d # i => pending'[d] = pending[d]
    BY <1>4 DEF Types
  <2>2. QED
    BY <1>1, <2>1 DEF ClientMoves, Exchanging
<1>6. daemon[i] # "gone" => pending'[i]
  BY <1>2, <1>4
<1>7. Waiting(c, i)'
  BY <1>1, <1>3, <1>6 DEF Waiting, Asks, Idle, Clean
<1>8. Progress(c, i)'
  BY <1>1, <1>4, <1>7 DEF Progress
<1>9. QED
  BY <1>5, <1>8, ClientProgress DEF DaemonGoal

\* What is read once valid is marked is the answer to the request.
LEMMA ReadProgress ==
  ASSUME InTurn, Types, AttachedInv, LockInv, ExchangeInv, NEW c \in Clients, read_answer(c)
  PROVE  DaemonGoal
<1> DEFINE i == at[c].segment
<1>1. /\ client[c] = "waiting" /\ client'[c] = "answered" /\ segment[i].valid
      /\ UNCHANGED <<daemon, segment, pending, request, at, kind>>
      /\ \A b \in Clients : b # c => client'[b] = client[b] /\ got'[b] = got[b]
  BY DEF read_answer, Client, Types, daemonVars
<1>2. Idle(i) /\ segment[i].assertion = Answer(c).assertion /\ segment[i].id = c
  BY <1>1 DEF ExchangeInv, Progress, Waiting, Exchanging
<1>3. got'[c] = [assertion |-> IF kind[c] = "token" THEN segment[i].assertion ELSE "none",
                 id |-> segment[i].id]
  BY DEF read_answer, Types
<1>4. got'[c] = Answer(c)
  BY <1>2, <1>3 DEF Answer
<1>5. ClientMoves(c)
  BY <1>1 DEF ClientMoves
<1>6. Progress(c, i)'
  BY <1>1, <1>2, <1>4 DEF Progress, Idle, Answer
<1>7. QED
  BY <1>5, <1>6, ClientProgress DEF DaemonGoal

LEMMA ClearProgress ==
  ASSUME InTurn, Types, AttachedInv, LockInv, ExchangeInv, NEW c \in Clients, clear_ipc(c)
  PROVE  DaemonGoal
<1> DEFINE i == at[c].segment
<1>1. /\ client[c] = "answered" /\ client'[c] = "cleared"
      /\ UNCHANGED <<daemon, pending, request, at, kind, got>>
      /\ \A b \in Clients : b # c => client'[b] = client[b]
  BY DEF clear_ipc, Client, Types, daemonVars
<1>2. i \in Started /\ Idle(i) /\ got[c] = Answer(c)
  BY <1>1 DEF AttachedInv, Attached, Exchanging, ExchangeInv, Progress
<1>3. PICK new \in Segments :
        /\ Writes(at[c].segment, new)
        /\ new.pid = segment[at[c].segment].pid
        /\ new.assertion = "none" /\ new.id = "none"
  BY <1>2, ClearWrites
<1>4. segment'[i] = new /\ \A d \in Started : d # i => segment'[d] = segment[d]
  BY <1>2, <1>3, WrittenSegment
<1>5. ClientMoves(c)
  BY <1>1, <1>4 DEF ClientMoves, Exchanging
<1>6. Progress(c, i)'
  BY <1>1, <1>2, <1>3, <1>4 DEF Progress, Answer, Idle, Clean
<1>7. QED
  BY <1>5, <1>6, ClientProgress DEF DaemonGoal

\* A client that only looks, comes or goes.
LEMMA QuietProgress ==
  ASSUME InTurn, Types, AttachedInv, LockInv, ExchangeInv, NEW c \in Clients,
         attach(c) \/ spin(c) \/ unlock(c) \/ detach(c) \/ client_killed(c)
  PROVE  DaemonGoal
<1>1. /\ UNCHANGED <<segment, daemon, pending, request, kind, got>>
      /\ \A b \in Clients : b # c => client'[b] = client[b] /\ at'[b] = at[b]
  BY DEF attach, spin, unlock, detach, client_killed, Client, Types, daemonVars
<1>2. ClientMoves(c)
  BY <1>1 DEF ClientMoves
<1>3. ASSUME Exchanging(c)' PROVE Progress(c, at[c].segment)'
  <2>1. CASE spin(c)
    <3>1. client[c] = "waiting" /\ client'[c] = "spinning" /\ UNCHANGED at
      BY <2>1 DEF spin, Client, Types
    <3>2. Waiting(c, at[c].segment)
      BY <3>1 DEF ExchangeInv, Progress, Exchanging
    <3>3. QED
      BY <1>1, <3>1, <3>2 DEF Progress, Waiting, Asks, Answer, Idle, Clean
  <2>2. CASE attach(c) \/ unlock(c) \/ detach(c) \/ client_killed(c)
    <3>1. client'[c] \in {"attached", "poisoned", "off", "gone"}
      BY <2>2 DEF attach, unlock, detach, client_killed, Client, Types
    <3>2. QED
      BY <1>3, <3>1 DEF Exchanging
  <2>3. QED
    BY <2>1, <2>2
<1>4. QED
  BY <1>2, <1>3, ClientProgress DEF DaemonGoal

\* A segment nobody has locked, or not set up yet, is as setup leaves it.
Rests(d) == sem[d] = 1 \/ daemon[d] \in {"off", "opened", "made"} => Idle(d) /\ Clean(d)

LEMMA RestsStep ==
  ASSUME InTurn, Types, AttachedInv, LockInv, ExchangeInv, [Next]_vars
  PROVE  \A d \in Started : Rests(d)'
<1> SUFFICES ASSUME NEW e \in Started PROVE Rests(e)'
  OBVIOUS
<1>0. Rests(e) /\ (sem[e] \in {0, 1}) /\ segment[e] \in Segments
  BY DEF ExchangeInv, Rests, Types
<1>1. ASSUME NEW d \in Started, create(d) \/ create_sem(d) PROVE Rests(e)'
  <2>1. /\ UNCHANGED <<segment, pending>>
        /\ d = e => daemon'[e] \notin {"answering", "copying"}
        /\ d # e => daemon'[e] = daemon[e] /\ sem'[e] = sem[e]
        /\ daemon[d] \in {"off", "opened"}
    BY <1>1 DEF create, create_sem, Daemon, Types
  <2>2. UNCHANGED <<segment, pending>>
    BY <1>1 DEF create, create_sem
  <2>3. QED
    BY <1>0, <2>1, <2>2 DEF Rests, Idle, Clean
<1>2. ASSUME NEW d \in Started, setup(d) PROVE Rests(e)'
  <2>1. PICK new \in Segments :
          /\ Writes(d, new)
          /\ new.pid = d /\ new.type = "none" /\ new.name = "none" /\ ~new.valid
          /\ new.assertion = "none" /\ new.id = "none"
    BY <1>2, SetupWrites
  <2>2. segment'[d] = new /\ \A i \in Started : i # d => segment'[i] = segment[i]
    BY <2>1, WrittenSegment
  <2>3. /\ UNCHANGED <<sem, pending>> /\ daemon[d] = "made" /\ daemon'[d] = "ready"
        /\ d # e => daemon'[e] = daemon[e]
    BY <1>2 DEF setup, Daemon, Types
  <2>4. QED
    BY <1>0, <2>1, <2>2, <2>3 DEF Rests, Idle, Clean
<1>3. ASSUME NEW d \in Started, get_idtype(d) PROVE Rests(e)'
  <2>1. CASE e = d
    <3>1. pending[d] /\ daemon[d] = "ready" /\ UNCHANGED sem /\ daemon'[d] \in {"ready", "answering"}
      BY <1>3 DEF get_idtype, Daemon, Types
    <3>2. QED
      BY <1>0, <2>1, <3>1 DEF Rests, Idle
  <2>2. CASE e # d
    <3>1. daemon'[e] = daemon[e] /\ UNCHANGED sem /\ segment'[e] = segment[e] /\ pending'[e] = pending[e]
      BY <1>3, <2>2 DEF get_idtype, Daemon, Types
    <3>2. QED
      BY <1>0, <3>1 DEF Rests, Idle, Clean
  <2>3. QED
    BY <2>1, <2>2
<1>4. ASSUME NEW d \in Started, set_assertion(d) \/ set_id_key(d) PROVE Rests(e)'
  <2>1. CASE e = d
    <3>1. daemon[d] \in {"answering", "copying"} /\ UNCHANGED sem /\ daemon'[d] \in {"copying", "ready"}
      BY <1>4 DEF set_assertion, set_id_key, Daemon, Types
    <3>2. QED
      BY <1>0, <2>1, <3>1 DEF Rests, Idle
  <2>2. CASE e # d
    <3>1. daemon'[e] = daemon[e] /\ UNCHANGED <<sem, pending>> /\ segment'[e] = segment[e]
      BY <1>4, <2>2 DEF set_assertion, set_id_key, Daemon, Types
    <3>2. QED
      BY <1>0, <3>1 DEF Rests, Idle, Clean
  <2>3. QED
    BY <2>1, <2>2
<1>5. ASSUME NEW d \in Started, whack(d) \/ whack_sem(d) \/ daemon_killed(d) PROVE Rests(e)'
  <2>1. /\ UNCHANGED <<sem, pending, segment>>
        /\ daemon'[e] = daemon[e] \/ daemon'[e] \in {"unlinking", "gone"}
    BY <1>5 DEF whack, whack_sem, daemon_killed, Daemon, Types
  <2>2. QED
    BY <1>0, <2>1 DEF Rests, Idle, Clean
<1>6. ASSUME NEW c \in Clients,
             attach(c) \/ lock(c) \/ spin(c) \/ read_answer(c) \/ detach(c) \/ client_killed(c)
      PROVE  Rests(e)'
  <2>1. UNCHANGED <<segment, pending, daemon>> /\ (lock(c) \/ UNCHANGED sem)
    BY <1>6 DEF attach, lock, spin, read_answer, detach, client_killed, daemonVars
  <2>2. sem'[e] = 1 => sem[e] = 1
    <3>1. CASE UNCHANGED sem
      BY <3>1
    <3>2. CASE lock(c)
      <4>1. at[c].sem \in Started /\ sem' = [sem EXCEPT ![at[c].sem] = @ - 1] /\ sem[at[c].sem] > 0
        BY <3>2 DEF lock, Client, AttachedInv, Attached, InTurn
      <4>2. QED
        BY <4>1 DEF Types
    <3>3. QED
      BY <2>1, <3>1, <3>2
  <2>3. QED
    BY <1>0, <2>1, <2>2 DEF Rests, Idle, Clean
<1>7. ASSUME NEW c \in Clients, write_request(c) \/ signal(c) \/ clear_ipc(c) PROVE Rests(e)'
  <2>1. Exchanging(c) /\ UNCHANGED <<sem, daemon>>
    BY <1>7 DEF write_request, signal, clear_ipc, Client, Exchanging, daemonVars
  <2>2. /\ at[c].segment \in Started /\ sem[at[c].segment] = 0
        /\ daemon[at[c].segment] \notin {"off", "opened", "made"}
        /\ segment[at[c].segment].pid = at[c].segment
    BY <2>1, DaemonOfExchange DEF LockInv, AttachedInv, Attached
  <2>3. CASE e = at[c].segment
    BY <2>1, <2>2, <2>3 DEF Rests
  <2>4. CASE e # at[c].segment
    <3>1. segment'[e] = segment[e]
      BY <1>7, <2>4 DEF write_request, signal, clear_ipc, Types
    <3>2. pending'[e] = pending[e]
      BY <1>7, <2>2, <2>4 DEF write_request, signal, clear_ipc, Types, daemonVars
    <3>3. QED
      BY <1>0, <2>1, <3>1, <3>2 DEF Rests, Idle, Clean
  <2>5. QED
    BY <2>3, <2>4
<1>8. ASSUME NEW c \in Clients, unlock(c) PROVE Rests(e)'
  <2>1. /\ client[c] = "cleared" /\ UNCHANGED <<segment, pending, daemon>>
        /\ sem' = [sem EXCEPT ![at[c].sem] = @ + 1]
    BY <1>8 DEF unlock, Client, daemonVars
  <2>2. /\ at[c].segment \in Started /\ at[c].sem = at[c].segment
        /\ Idle(at[c].segment) /\ Clean(at[c].segment)
    BY <2>1 DEF AttachedInv, Attached, Exchanging, ExchangeInv, Progress
  <2>3. e # at[c].segment => sem'[e] = sem[e]
    BY <2>1, <2>2 DEF Types
  <2>4. QED
    BY <1>0, <2>1, <2>2, <2>3 DEF Rests, Idle, Clean
<1>9. CASE UNCHANGED vars
  BY <1>0, <1>9 DEF vars, daemonVars, Rests, Idle, Clean
<1>10. QED
  BY <1>1, <1>2, <1>3, <1>4, <1>5, <1>6, <1>7, <1>8, <1>9 DEF Next, Serve, Ask, Exchange

LEMMA ExchangeStep ==
  ASSUME InTurn, Types, AttachedInv, LockInv, ExchangeInv, [Next]_vars
  PROVE  ExchangeInv'
<1>1. DaemonGoal
  <2>1. CASE UNCHANGED vars
    BY <2>1 DEF DaemonGoal, vars, daemonVars, clientVars, ExchangeInv, Exchanging, Progress, Waiting,
      Asks, Answer, Idle, Clean
  <2>2. QED
    BY SMTT(30), <2>1, StartProgress, LookProgress, AssertionProgress, KeyProgress, EndProgress,
      LockProgress, RequestProgress, SignalProgress, ReadProgress, ClearProgress, QuietProgress
      DEF Next, Serve, Ask, Exchange
<1>2. \A d \in Started : Rests(d)'
  BY RestsStep
<1>3. QED
  BY <1>1, <1>2 DEF ExchangeInv, DaemonGoal, Rests

\* So it begins, ...
LEMMA IInvBegins ==
  ASSUME InTurn, Init
  PROVE  IInv
<1>1. Empty(0) \in Segments /\ Empty(0).assertion = "none" /\ Empty(0).id = "none"
  BY DEF Empty, Segments, InTurn
<1>2. segment \in [Started -> Segments] /\ \A d \in Started : segment[d] = Empty(0)
  BY <1>1 DEF Init
<1>3. /\ sem \in [Started -> {0, 1}] /\ pending \in [Started -> BOOLEAN]
      /\ path \in 0..Daemons /\ sempath \in 0..Daemons
  BY DEF Init, InTurn
<1>4. /\ daemon \in [Started -> {"off", "opened", "made", "ready", "answering", "copying", "failed",
                                 "unlinking", "gone"}]
      /\ request \in [Started -> [type : Kinds \cup {"none"}, name : Clients \cup {"none"}]]
  BY DEF Init
<1>5. /\ client \in [Clients -> {"off", "attached", "locked", "asking", "waiting", "spinning",
                                 "answered", "cleared", "poisoned", "gone"}]
      /\ at \in [Clients -> [segment : 0..Daemons, sem : 0..Daemons]]
  BY DEF Init, InTurn
<1>6. /\ kind \in [Clients -> Kinds]
      /\ got \in [Clients -> [assertion : Clients \cup {"none"}, id : Clients \cup {"none"}]]
  BY DEF Init, Kinds, Nothing
<1>7. Types
  BY <1>2, <1>3, <1>4, <1>5, <1>6 DEF Types
<1>8. /\ \A d \in Started : daemon[d] = "off" /\ ~pending[d]
      /\ \A c \in Clients : client[c] = "off"
  BY DEF Init
<1>9. Order /\ NamesInv /\ AttachedInv /\ LockInv
  BY <1>8 DEF Order, NamesInv, Serving, AttachedInv, Attached, LockInv, OneExchange, Exchanging
<1>10. ExchangeInv
  BY <1>1, <1>2, <1>8 DEF ExchangeInv, Exchanging, Idle, Clean
<1>11. QED
  BY <1>7, <1>9, <1>10 DEF IInv

\* ... so it goes on ...
LEMMA IInvKept ==
  ASSUME InTurn, IInv, [Next]_vars
  PROVE  IInv'
BY TypesStep, OrderStep, NamesStep, AttachedStep, LockStep, ExchangeStep DEF IInv

\* ... and this is what it is for.
LEMMA IInvOwns ==
  ASSUME IInv
  PROVE  IdentityIsOwn
<1>1. AnswerIsForName
  BY DEF IInv, ExchangeInv, Exchanging, Progress, Answer, AnswerIsForName
<1>2. NothingIsLeft
  BY DEF IInv, ExchangeInv, Types, Clean, NothingIsLeft
<1>3. DaemonIsReachable /\ DaemonIsSignalled
  BY DEF IInv, NamesInv, AttachedInv, Attached, Serving, DaemonIsReachable, DaemonIsSignalled
<1>4. QED
  BY <1>1, <1>2, <1>3 DEF IdentityIsOwn, IInv, LockInv

\* The daemons started one after the other and the clients only when one is
\* ready, a client has its daemon alone and is answered what it asked for, whole,
\* no key is left behind, and it is the daemon that is signalled: for any number
\* of daemons, clients and requests, whoever leaves or is killed meanwhile.
THEOREM IdentityIsOnesOwn == InTurn /\ Spec => []IdentityIsOwn
<1> SUFFICES ASSUME InTurn PROVE Spec => []IdentityIsOwn
  OBVIOUS
<1>1. QED
  BY IInvBegins, IInvKept, IInvOwns, PTL DEF Spec
=============================================================================
