----------------------------- MODULE RootExport -----------------------------
(***************************************************************************)
(* The export of the events of the root modeling namespace, export_root of *)
(* quixote-export.c: events are read from the kernel into a queue of       *)
(* strings and written out when the queue is full.                         *)
(*                                                                         *)
(* Events are numbered as the kernel generates them.  The kernel's file,   *)
(* signals and what becomes of the output are external.                    *)
(***************************************************************************)
EXTENDS Naturals, Sequences, SequencesExt

CONSTANTS Events,    \* how many events there are
          QueueSize, \* the option -q
          Follow,    \* the option -f
          Stops,     \* can the utility be told to stop?
          Faults,    \* can an output fail?
          MaxOutput  \* a bound on what is kept of the output

VARIABLES
  generated, \* the number of events the kernel has generated
  read,      \* the number of them that were read
  slots,     \* the event in each string of the queue, zero for none
  cursor,    \* the string the next event goes into
  Queued,    \* the strings counted as queued
  output,    \* the events written
  stop,      \* Signals.stop
  pc         \* where export_root is

kernelVars == <<generated, read>>
queueVars == <<slots, cursor, Queued>>
vars == <<kernelVars, queueVars, output, stop, pc>>

TypeOK ==
  /\ generated \in 0..Events
  /\ read \in 0..generated
  /\ slots \in [1..QueueSize -> 0..read]
  /\ cursor \in 1..(QueueSize + 1)
  /\ Queued \in 0..QueueSize
  /\ output \in Seq(0..read) /\ Len(output) <= MaxOutput
  /\ stop \in BOOLEAN
  /\ pc \in {"start", "get", "count", "output", "flush", "loop", "poll", "ended", "failed"}

Init ==
  /\ generated = 0
  /\ read = 0
  /\ slots = [i \in 1..QueueSize |-> 0]
  /\ cursor = 1
  /\ Queued = 0
  /\ output = <<>>
  /\ stop = FALSE
  /\ pc = "start"

Goto(from, to) == pc = from /\ pc' = to

\* An event is generated at any time.
generate ==
  /\ generated < Events
  /\ generated' = generated + 1
  /\ UNCHANGED <<read, queueVars, output, stop, pc>>

-----------------------------------------------------------------------------
(* Reading.                                                                *)

\* _export_events begins at the first string.
export_events ==
  /\ Goto("start", "get")
  /\ cursor' = 1
  /\ UNCHANGED <<kernelVars, slots, Queued, output, stop>>

\* Mutant: the string is looked at, not taken.
GetEventStill ==
  /\ ~stop /\ read < generated
  /\ Goto("get", "count")
  /\ read' = read + 1
  /\ slots' = [slots EXCEPT ![cursor] = read + 1]
  /\ UNCHANGED <<generated, cursor, Queued, output, stop>>

\* _get_event: the next event goes into the next string.
get_event ==
  /\ ~stop /\ read < generated
  /\ Goto("get", "count")
  /\ read' = read + 1
  /\ slots' = [slots EXCEPT ![cursor] = read + 1]
  /\ cursor' = cursor + 1
  /\ UNCHANGED <<generated, Queued, output, stop>>

\* There is none: what was asked for is done.
get_nodata ==
  /\ ~stop /\ read = generated
  /\ Goto("get", IF Follow THEN "loop" ELSE "flush")
  /\ UNCHANGED <<kernelVars, queueVars, output, stop>>

\* After a stop an event that is read is dropped, but counted like the others.
get_stopped ==
  /\ stop
  /\ Goto("get", "count")
  /\ read' = IF read < generated THEN read + 1 ELSE read
  /\ UNCHANGED <<generated, queueVars, output, stop>>

count_event ==
  /\ pc = "count"
  /\ Queued' = Queued + 1
  /\ pc' = IF Queued + 1 = QueueSize THEN "output" ELSE "get"
  /\ UNCHANGED <<kernelVars, slots, cursor, output, stop>>

-----------------------------------------------------------------------------
(* Writing.                                                                *)

Written(n) == SubSeq(slots, 1, n)
Keep(s) == SubSeq(s, 1, IF Len(s) < MaxOutput THEN Len(s) ELSE MaxOutput)

\* _output_events writes the strings that are queued.
output_events ==
  /\ Goto("output", "get")
  /\ output' = Keep(output \o Written(Queued))
  /\ cursor' = 1
  /\ Queued' = 0
  /\ UNCHANGED <<kernelVars, slots, stop>>

\* Without -f what is left is written at the end.
flush ==
  /\ Goto("flush", "ended")
  /\ output' = Keep(output \o Written(Queued))
  /\ cursor' = 1
  /\ UNCHANGED <<kernelVars, slots, Queued, stop>>

\* A write that fails ends the export; some of the strings were written.
output_fails ==
  /\ Faults
  /\ pc \in {"output", "flush"} /\ pc' = "failed"
  /\ \E n \in 0..Queued : output' = Keep(output \o Written(n))
  /\ UNCHANGED <<kernelVars, queueVars, stop>>

-----------------------------------------------------------------------------
(* Following.                                                              *)

call_poll ==
  /\ Goto("loop", "poll")
  /\ UNCHANGED <<kernelVars, queueVars, output, stop>>

poll_returns ==
  /\ read < generated
  /\ Goto("poll", "start")
  /\ UNCHANGED <<kernelVars, queueVars, output, stop>>

\* The signal sets the flag, and ends the poll if there is one.
signal ==
  /\ Stops /\ ~stop
  /\ stop' = TRUE
  /\ pc' = IF pc = "poll" THEN "ended" ELSE pc
  /\ UNCHANGED <<kernelVars, queueVars, output>>

Step ==
  \/ export_events \/ get_event \/ get_nodata \/ get_stopped \/ count_event
  \/ output_events \/ flush \/ call_poll \/ poll_returns

Next == Step \/ output_fails \/ generate \/ signal

Spec == Init /\ [][Next]_vars

\* The utility runs.
FairSpec == Spec /\ WF_vars(Step)

-----------------------------------------------------------------------------
(* Properties.                                                             *)

Numbers(n) == [i \in 1..n |-> i]

\* Until it is told to stop, the utility writes the events in the order they
\* were generated, each of them once.
OutputInOrder == ~stop => IsPrefix(output, Numbers(Events))

\* No event that was read is lost: it was written or is in a string that the
\* next output will write.
NothingOverwritten ==
  ~stop /\ pc \notin {"ended", "failed"}
    => \A e \in 1..read :
         \/ \E i \in DOMAIN output : output[i] = e
         \/ \E i \in DOMAIN slots : slots[i] = e /\ i < cursor

\* quixote-export.c: _export_events has read and written all that there is
\* when it returns.
OutstandingAreWritten ==
  ~stop /\ pc \in {"loop", "poll"} => Len(output) = read

\* A follower writes every event, sooner or later.
EveryEventIsWritten ==
  \A e \in 1..Events : generated >= e ~> stop \/ \E i \in DOMAIN output : output[i] = e

\* The utility ends when it is told to.
StopEnds == stop ~> pc \in {"ended", "failed"}
=============================================================================
