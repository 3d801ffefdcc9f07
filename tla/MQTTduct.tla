------------------------------ MODULE MQTTduct ------------------------------
(***************************************************************************)
(* The publisher object of lib/MQTTduct.c: the thread that uses it, as     *)
(* quixote-export.c does, and the thread of the mosquitto library that     *)
(* runs the callbacks and shares count, type and poisoned with it.         *)
(*                                                                         *)
(* The library, the network and the broker are external: a message that    *)
(* mosquitto_publish has taken is written by the library's thread, which   *)
(* then calls back, or goes down with the connection, and nobody calls.    *)
(***************************************************************************)
EXTENDS Naturals, Sequences

CONSTANTS Messages, \* how many messages there are to send
          Width,    \* the number of values count can hold
          Races,    \* can the increments of the two threads meet?
          Losses,   \* how often the connection can be lost
          Refusals  \* can the broker refuse the connection?

VARIABLES
  user,     \* what the thread of the caller is doing
  thread,   \* what the thread of the library is doing
  type,     \* the type of the object
  poisoned, \* is it poisoned?
  count,    \* the messages it counts as not transmitted
  sent,     \* the messages mosquitto_publish has taken
  queue,    \* those of them the library still has
  broker,   \* those the broker has
  link,     \* the connection to the broker
  losses,   \* how often it was lost
  reg       \* the value of count each thread has in a register

libraryVars == <<queue, broker, link, losses>>
vars == <<user, thread, type, poisoned, count, sent, reg, libraryVars>>

TypeOK ==
  /\ user \in {"new", "connecting", "idle", "counting", "adding", "resetting", "destroyed", "failed"}
  /\ thread \in {"off", "loop", "called", "subtracting", "gone"}
  /\ type \in {"not_defined", "connected", "publisher"}
  /\ poisoned \in BOOLEAN
  /\ count \in 0..(Width - 1)
  /\ sent \in 0..Messages
  /\ queue \in Seq(1..Messages)
  /\ broker \in Seq(1..Messages)
  /\ link \in {"none", "up", "down", "refused"}
  /\ losses \in 0..Losses
  /\ reg \in [{"user", "thread"} -> 0..(Width - 1)]

Init ==
  /\ user = "new"
  /\ thread = "off"
  /\ type = "not_defined"
  /\ poisoned = FALSE
  /\ count = 0
  /\ sent = 0
  /\ queue = <<>>
  /\ broker = <<>>
  /\ link = "none"
  /\ losses = 0
  /\ reg = [t \in {"user", "thread"} |-> 0]

UserStep(from, to) == user = from /\ user' = to
ThreadStep(from, to) == thread = from /\ thread' = to

-----------------------------------------------------------------------------
(* The caller.                                                             *)

\* init_publisher starts the library's thread, or is refused by it ...
init_publisher ==
  /\ \/ UserStep("new", "connecting") /\ ThreadStep("off", "loop") /\ UNCHANGED poisoned
     \/ UserStep("new", "failed") /\ poisoned' = TRUE /\ UNCHANGED thread
  /\ UNCHANGED <<type, count, sent, reg, libraryVars>>

\* ... and waits for the callback of the connection.
init_connected ==
  /\ type = "connected"
  /\ UserStep("connecting", "idle")
  /\ type' = "publisher"
  /\ UNCHANGED <<thread, poisoned, count, sent, reg, libraryVars>>

\* send_String: what there is no connection for is refused, and poisons.
send_String ==
  /\ ~poisoned /\ sent < Messages
  /\ IF link = "up"
     THEN /\ UserStep("idle", "counting")
          /\ sent' = sent + 1
          /\ queue' = Append(queue, sent + 1)
          /\ UNCHANGED poisoned
     ELSE /\ UserStep("idle", "idle")
          /\ poisoned' = TRUE
          /\ UNCHANGED <<sent, queue>>
  /\ UNCHANGED <<thread, type, count, reg, broker, link, losses>>

\* ++S->count, after the library has taken the message.
count_up ==
  /\ ~Races
  /\ UserStep("counting", "idle")
  /\ count' = (count + 1) % Width
  /\ UNCHANGED <<thread, type, poisoned, sent, reg, libraryVars>>

\* The same where the compiler loads and stores: another thread can be between.
count_load ==
  /\ Races
  /\ UserStep("counting", "adding")
  /\ reg' = [reg EXCEPT !["user"] = count]
  /\ UNCHANGED <<thread, type, poisoned, count, sent, libraryVars>>

count_store ==
  /\ UserStep("adding", "idle")
  /\ count' = (reg["user"] + 1) % Width
  /\ UNCHANGED <<thread, type, poisoned, sent, reg, libraryVars>>

\* whack resets the object, and a publisher that failed is whacked too ...
whack ==
  /\ \/ UserStep("idle", "resetting")
     \/ UserStep("failed", "resetting")
  /\ UNCHANGED <<thread, type, poisoned, count, sent, reg, libraryVars>>

\* Mutant: what has not been transmitted is not waited for.
ResetAtOnce ==
  /\ UserStep("resetting", "destroyed")
  /\ thread' = "gone"
  /\ poisoned' = FALSE /\ type' = "not_defined" /\ count' = 0
  /\ queue' = <<>> /\ link' = "none"
  /\ UNCHANGED <<sent, reg, broker, losses>>

\* ... which waits for count and then ends the library's thread.
reset ==
  /\ count = 0
  /\ UserStep("resetting", "destroyed")
  /\ thread' = "gone"
  /\ poisoned' = FALSE /\ type' = "not_defined" /\ count' = 0
  /\ queue' = <<>> /\ link' = "none"
  /\ UNCHANGED <<sent, reg, broker, losses>>

User ==
  \/ init_publisher \/ init_connected \/ send_String \/ count_up \/ count_load \/ count_store
  \/ whack \/ reset

-----------------------------------------------------------------------------
(* The library's thread.                                                   *)

\* _connect_callback, also when the library has connected again.
connect_callback ==
  /\ thread = "loop" /\ link \in {"none", "down", "refused"}
  /\ link' \in {"up"} \cup (IF Refusals THEN {"refused"} ELSE {})
  /\ poisoned' = (poisoned \/ link' = "refused")
  /\ type' = "connected"
  /\ UNCHANGED <<user, thread, count, sent, reg, queue, broker, losses>>

\* The library writes a message to the broker ...
write ==
  /\ queue # <<>> /\ link = "up"
  /\ ThreadStep("loop", "called")
  /\ broker' = Append(broker, Head(queue))
  /\ queue' = Tail(queue)
  /\ UNCHANGED <<user, type, poisoned, count, sent, reg, link, losses>>

\* ... and calls _publish_callback, which counts it: --S->count.
publish_callback ==
  /\ ~Races
  /\ ThreadStep("called", "loop")
  /\ count' = (count + Width - 1) % Width
  /\ UNCHANGED <<user, type, poisoned, sent, reg, libraryVars>>

publish_load ==
  /\ Races
  /\ ThreadStep("called", "subtracting")
  /\ reg' = [reg EXCEPT !["thread"] = count]
  /\ UNCHANGED <<user, type, poisoned, count, sent, libraryVars>>

publish_store ==
  /\ ThreadStep("subtracting", "loop")
  /\ count' = (reg["thread"] + Width - 1) % Width
  /\ UNCHANGED <<user, type, poisoned, sent, reg, libraryVars>>

\* A connection that is lost takes with it what was not written.
lose ==
  /\ thread = "loop" /\ link = "up" /\ losses < Losses
  /\ link' = "down" /\ losses' = losses + 1
  /\ queue' = <<>>
  /\ UNCHANGED <<user, thread, type, poisoned, count, sent, reg, broker>>

Library == connect_callback \/ write \/ publish_callback \/ publish_load \/ publish_store

Next == User \/ Library \/ lose

Spec == Init /\ [][Next]_vars

\* Both threads run, and the caller, which may be idle, whacks the object.
Fairness ==
  /\ WF_vars(User)
  /\ WF_vars(Library)

FairSpec == Spec /\ Fairness

-----------------------------------------------------------------------------
(* Properties.                                                             *)

\* What the broker has is what was sent, in order, each message once; a
\* message is left out only when the connection was lost.
InOrder ==
  /\ \A i, j \in DOMAIN broker : i < j => broker[i] < broker[j]
  /\ losses = 0 => \A i \in DOMAIN broker : broker[i] = i

\* lib/MQTTduct.c:410: reset makes sure that the transmission queue is empty
\* before it destroys the context, so no message that was taken is dropped.
DrainedBeforeDestroyed ==
  user = "destroyed" /\ losses = 0 => Len(broker) = sent

\* The destructor ends.
WhackEnds == user = "resetting" ~> user = "destroyed"

\* A caller that has to wait for the connection goes on.
InitEnds == user = "connecting" ~> user # "connecting"

\* lib/MQTTduct.c:283: init_publisher says whether the broker was initialized.
SuccessMeansConnected ==
  [][user = "connecting" /\ user' = "idle" => ~poisoned]_vars
=============================================================================
