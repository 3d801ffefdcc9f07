----------------------------- MODULE ConsoleLink -----------------------------
(***************************************************************************)
(* What quixote-console is told: the command an option stands for, on its  *)
(* way through the table of Quixote/sancho-cmd.h to process_command of     *)
(* Quixote/quixote-us.c, and the answer, which is sent as a count and that *)
(* many messages while the orchestrator models nothing.                    *)
(*                                                                         *)
(* The lists of the agent are those of module TSEM: every point is in the  *)
(* list of points, its event in the trajectory or in the forensics.  How a *)
(* console gets its connection, and what becomes of one that is killed, is *)
(* module LocalDuct; here an orchestrator that ends cuts an answer short.  *)
(***************************************************************************)
EXTENDS Naturals, Sequences, SequencesExt, FiniteSets

CONSTANTS Consoles,
          NoConsole,
          Options,   \* the options the consoles are run with
          MaxPoints, \* bound on the points of the model
          MaxLogs,   \* bound on the events of untrusted processes
          DuctSize   \* messages a socket holds

VARIABLES
  \* the agent
  points,     \* of every point whether it is valid
  trajectory, \* the points whose events are in the trajectory
  forensics,  \* the points whose events are in the forensics
  tevents,    \* events of untrusted processes
  sealed,
  aggregate,  \* has the kernel's aggregate been read?
  \* the orchestrator
  pc,
  current,    \* the console it is connected to
  todo,       \* the messages of the answer it has yet to send
  \* the consoles
  console,    \* what each is doing
  option,     \* how it was run
  down,       \* the command it has sent, or 0
  up,         \* the messages on their way to it
  left,       \* the messages it still expects
  out,        \* the lines it has written
  taken       \* what its answer should be: the state when its command was taken

agentVars   == <<points, trajectory, forensics, tevents, sealed, aggregate>>
consoleVars == <<console, option, left, out>>
vars == <<points, trajectory, forensics, tevents, sealed, aggregate, pc, current,
          todo, console, option, down, up, left, out, taken>>

-----------------------------------------------------------------------------
(* The commands, numbered as in the enumeration of sancho-cmd.h.           *)

seal_event == 3
show_measurement == 6
show_state == 7
show_trajectory == 8
show_counts == 9
show_coefficients == 10
show_forensics_counts == 11
show_forensics_coefficients == 12
show_forensics == 13
show_events == 14
show_map == 15

\* The table of commands, from 0, without the spaces after some of them.
Syntax == <<"export", "aggregate", "seal", "log", "load", "show measurement",
            "show state", "show trajectory", "show counts", "show coefficients",
            "show forensics_counts", "show forensics_coefficients", "show forensics",
            "show events", "show map", "enable cellular", "reset">>

Sancho_cmd_list == [n \in 0..Len(Syntax) - 1 |-> [command |-> n + 1, syntax |-> Syntax[n + 1]]]

\* process_oneshot: the command of an option.
process_oneshot(opt) ==
  Sancho_cmd_list[CASE opt = "S" -> show_state - 1     [] opt = "T" -> show_trajectory - 1
                    [] opt = "F" -> show_forensics - 1 [] opt = "P" -> show_coefficients - 1
                    [] opt = "E" -> show_events - 1    [] opt = "M" -> show_map - 1
                    [] opt = "C" -> show_counts - 1].syntax

\* process_command of the console: the number of a command.
Command(syntax) ==
  Sancho_cmd_list[CHOOSE n \in DOMAIN Sancho_cmd_list :
                    Sancho_cmd_list[n].syntax = syntax].command

Single == {seal_event, show_measurement, show_state}

-----------------------------------------------------------------------------
(* The answers.  A message is a count or a line.                           *)

Count(n) == [count |-> n]

Line(text, n) == [text |-> text, n |-> n]

Lines(text, list) == [i \in DOMAIN list |-> Line(text, list[i])]

\* The valid points, or the others.
Class(type) ==
  LET ids[i \in 0..Len(points)] ==
        IF i = 0 THEN <<>>
        ELSE IF points[i] = type THEN Append(ids[i - 1], i) ELSE ids[i - 1]
  IN  ids[Len(points)]

\* Mutant: the trajectory is counted, which leaves the loaded points out.
AnnouncedEvents(type) == IF type THEN Len(trajectory) ELSE Len(forensics)

\* The number of points of a class, as it is announced.
Announced(type) == IF type THEN Len(points) - Len(forensics) ELSE Len(forensics)

\* A list is its length and its items; the points of a class are counted in
\* another way than they are chosen.
SendList(text, list) == <<Count(Len(list))>> \o Lines(text, list)

send_trajectory == SendList("event", trajectory)

send_forensics == SendList("event", forensics)

send_events == SendList("log", [i \in 1..tevents |-> i])

send_trajectory_coefficients(type) == <<Count(Announced(type))>> \o Lines("point", Class(type))

send_trajectory_counts(type) == <<Count(Announced(type))>> \o Lines("count", Class(type))

send_map == <<Line("aggregate", 0)>> \o send_trajectory_coefficients(TRUE)

\* The messages that answer a command.
Answer(cmd) ==
  CASE cmd \in Single                     -> <<Line("value", cmd)>>
    [] cmd = show_trajectory              -> send_trajectory
    [] cmd = show_coefficients            -> send_trajectory_coefficients(TRUE)
    [] cmd = show_counts                  -> send_trajectory_counts(TRUE)
    [] cmd = show_forensics               -> send_forensics
    [] cmd = show_forensics_coefficients  -> send_trajectory_coefficients(FALSE)
    [] cmd = show_forensics_counts        -> send_trajectory_counts(FALSE)
    [] cmd = show_events                  -> send_events
    [] cmd = show_map                     -> send_map

\* A set of numbers as a list, the least first.
InOrder(set) ==
  [i \in 1..Cardinality(set) |-> CHOOSE n \in set : Cardinality({m \in set : m <= n}) = i]

\* What a reader of the documentation expects of an option.
Documented(opt) ==
  LET valid == {i \in DOMAIN points : points[i]}
      Listed(text, set) == Lines(text, InOrder(set))
  IN  CASE opt = "S" -> <<Line("value", show_state)>>
        [] opt = "T" -> Lines("event", trajectory)
        [] opt = "F" -> Listed("event", (DOMAIN points) \ valid)
        [] opt = "P" -> Listed("point", valid)
        [] opt = "C" -> Listed("count", valid)
        [] opt = "E" -> Listed("log", 1..tevents)
        [] opt = "M" -> <<Line("aggregate", 0)>> \o Listed("point", valid)
                          \o <<Line("seal", 0), Line("end", 0)>>

-----------------------------------------------------------------------------
TypeOK ==
  /\ points \in Seq(BOOLEAN) /\ Len(points) <= MaxPoints
  /\ {trajectory, forensics} \subseteq Seq(1..MaxPoints)
  /\ tevents \in 0..MaxLogs
  /\ {sealed, aggregate} \subseteq BOOLEAN
  /\ pc \in {"poll", "send", "crashed", "ended"}
  /\ current \in Consoles \cup {NoConsole}
  /\ console \in [Consoles -> {"new", "listed", "asked", "counting", "reading", "done", "failed"}]
  /\ option \in [Consoles -> Options]
  /\ \A c \in Consoles : Len(up[c]) <= DuctSize /\ left[c] \in 0..MaxPoints + MaxLogs

\* A model file may have been loaded.
Init ==
  /\ \E n \in 0..MaxPoints : points = [i \in 1..n |-> TRUE]
  /\ sealed \in BOOLEAN
  /\ trajectory = <<>> /\ forensics = <<>> /\ tevents = 0
  /\ aggregate = FALSE
  /\ pc = "poll" /\ current = NoConsole /\ todo = <<>>
  /\ console = [c \in Consoles |-> "new"]
  /\ option \in [Consoles -> Options]
  /\ down = [c \in Consoles |-> 0]
  /\ up = [c \in Consoles |-> <<>>]
  /\ left = [c \in Consoles |-> 0]
  /\ out = [c \in Consoles |-> <<>>]
  /\ taken = [c \in Consoles |-> <<>>]

-----------------------------------------------------------------------------
(* The orchestrator.                                                       *)

Outside == UNCHANGED <<consoleVars, down>>

\* An event is modelled; the point is new.
Model ==
  /\ pc = "poll"
  /\ aggregate /\ Len(points) < MaxPoints
  /\ points' = Append(points, ~sealed)
  /\ IF sealed
       THEN forensics' = Append(forensics, Len(points) + 1) /\ UNCHANGED trajectory
       ELSE trajectory' = Append(trajectory, Len(points) + 1) /\ UNCHANGED forensics
  /\ Outside
  /\ UNCHANGED <<tevents, sealed, aggregate, pc, current, todo, up, taken>>

LogEvent ==
  /\ pc = "poll"
  /\ tevents < MaxLogs
  /\ tevents' = tevents + 1
  /\ Outside
  /\ UNCHANGED <<points, trajectory, forensics, sealed, aggregate, pc, current, todo, up, taken>>

add_aggregate ==
  /\ pc = "poll"
  /\ ~aggregate
  /\ aggregate' = TRUE
  /\ Outside
  /\ UNCHANGED <<points, trajectory, forensics, tevents, sealed, pc, current, todo, up, taken>>

accept_connection(c) ==
  /\ pc = "poll"
  /\ current = NoConsole
  /\ console[c] \in {"asked", "counting"} /\ down[c] # 0
  /\ current' = c
  /\ Outside
  /\ UNCHANGED <<agentVars, pc, todo, up, taken>>

\* A command is received.  The buffer of the aggregate does not exist before
\* the kernel has sent it, and send_map uses it all the same.
process_command(c) ==
  /\ pc = "poll"
  /\ current = c /\ down[c] # 0
  /\ taken' = [taken EXCEPT ![c] = Documented(option[c])]
  /\ IF down[c] = show_map /\ ~aggregate
       THEN pc' = "crashed" /\ UNCHANGED todo
       ELSE pc' = "send" /\ todo' = Answer(down[c])
  /\ down' = [down EXCEPT ![c] = 0]
  /\ UNCHANGED <<agentVars, consoleVars, current, up>>

\* send_Buffer blocks while the socket is full.
send_Buffer ==
  /\ pc = "send"
  /\ Len(up[current]) < DuctSize
  /\ up' = [up EXCEPT ![current] = Append(@, Head(todo))]
  /\ todo' = Tail(todo)
  /\ pc' = IF Tail(todo) = <<>> THEN "poll" ELSE "send"
  /\ Outside
  /\ UNCHANGED <<agentVars, current, taken>>

\* Mutant: the connection is kept for the next console.
ResetNot == UNCHANGED current

reset == current' = NoConsole

\* The console has sent the end of transmission.
receive_end ==
  /\ pc = "poll"
  /\ current # NoConsole
  /\ console[current] = "done"
  /\ reset
  /\ Outside
  /\ UNCHANGED <<agentVars, pc, todo, up, taken>>

\* The workload ends, or the orchestrator is killed.
End ==
  /\ pc \in {"poll", "send"}
  /\ pc' = "ended"
  /\ Outside
  /\ UNCHANGED <<agentVars, current, todo, up, taken>>

-----------------------------------------------------------------------------
(* The consoles.                                                           *)

ConsoleStep(c, from, to) ==
  /\ console[c] = from
  /\ console' = [console EXCEPT ![c] = to]
  /\ UNCHANGED <<agentVars, pc, current, todo, option, taken>>

\* Without an option for an output the domains are listed, and that is all,
\* whether a cartridge is named or not.
show_domains(c) ==
  /\ option[c] = "none"
  /\ ConsoleStep(c, "new", "listed")
  /\ UNCHANGED <<down, up, left, out>>

Ask(c) ==
  /\ option[c] # "none"
  /\ LET cmd == Command(process_oneshot(option[c]))
     IN  /\ ConsoleStep(c, "new", IF cmd \in Single \cup {show_map} THEN "asked" ELSE "counting")
         /\ down' = [down EXCEPT ![c] = cmd]
         /\ left' = [left EXCEPT ![c] = IF cmd \in Single THEN 1 ELSE 0]
  /\ UNCHANGED <<up, out>>

\* The next message, and what the console writes for it.
Receive(c, lines) ==
  /\ up[c] # <<>>
  /\ up' = [up EXCEPT ![c] = Tail(@)]
  /\ out' = [out EXCEPT ![c] = @ \o lines]
  /\ UNCHANGED down

\* The lines that end a map.
Closing(c) == IF option[c] = "M" THEN <<Line("seal", 0), Line("end", 0)>> ELSE <<>>

\* The first message of an answer without a count, or of the map.
ReceiveFirst(c) ==
  /\ ConsoleStep(c, "asked", IF option[c] = "M" THEN "counting" ELSE "done")
  /\ Receive(c, <<Head(up[c])>>)
  /\ left' = [left EXCEPT ![c] = 0]

\* A count is whatever the message begins with: a line would be some number.
ReceiveCount(c) ==
  /\ up[c] # <<>>
  /\ \E n \in IF "count" \in DOMAIN Head(up[c]) THEN {Head(up[c]).count} ELSE 0..1 :
       /\ ConsoleStep(c, "counting", IF n = 0 THEN "done" ELSE "reading")
       /\ left' = [left EXCEPT ![c] = n]
       /\ Receive(c, IF n = 0 THEN Closing(c) ELSE <<>>)

ReceiveLine(c) ==
  /\ ConsoleStep(c, "reading", IF left[c] = 1 THEN "done" ELSE "reading")
  /\ left' = [left EXCEPT ![c] = @ - 1]
  /\ Receive(c, <<Head(up[c])>> \o (IF left[c] = 1 THEN Closing(c) ELSE <<>>))

\* The connection ends before the answer does.
ReceiveFails(c) ==
  /\ pc \in {"ended", "crashed"}
  /\ up[c] = <<>>
  /\ \E from \in {"asked", "counting", "reading"} : ConsoleStep(c, from, "failed")
  /\ UNCHANGED <<down, up, left, out>>

Console(c) == \/ ReceiveFirst(c) \/ ReceiveCount(c) \/ ReceiveLine(c) \/ ReceiveFails(c)

Orchestrator == \/ \E c \in Consoles : accept_connection(c) \/ process_command(c)
                \/ send_Buffer \/ receive_end

Next == \/ Model \/ LogEvent \/ add_aggregate \/ Orchestrator \/ End
        \/ \E c \in Consoles : show_domains(c) \/ Ask(c) \/ Console(c)

\* The orchestrator runs, and a console that has asked reads its answer.
Fairness == WF_vars(Orchestrator) /\ \A c \in Consoles : WF_vars(Console(c))

Spec == Init /\ [][Next]_vars /\ Fairness

-----------------------------------------------------------------------------
(* Properties.                                                             *)

Ended == pc \in {"ended", "crashed"}

\* Whatever the workload does while the answer is on its way, a console writes
\* what the documentation says of its option, as of one moment: all of it if it
\* comes to its end, and otherwise a beginning, without the end of a map.
AnswersAreSnapshots ==
  \A c \in Consoles :
    /\ IsPrefix(out[c], taken[c])
    /\ console[c] = "done" => out[c] = taken[c]

\* When a console has read its answer nothing is left in the connection, so the
\* next thing the orchestrator hears from it is the end of transmission.
NothingLeftOver == \A c \in Consoles : console[c] = "done" => up[c] = <<>> /\ down[c] = 0

\* A console that has asked is answered, after those that came before it, or
\* the orchestrator ends.
AskedIsAnswered ==
  \A c \in Consoles : console[c] \in {"asked", "counting", "reading"} ~>
                        (console[c] \in {"done", "failed"} \/ Ended)

\* The orchestrator does not stay with a console while events wait.
AnsweringEnds == pc = "send" ~> pc # "send"

\* "-M: The current security model definition." (README): asking for it does the
\* orchestrator no harm.
MapDoesNoHarm == pc # "crashed"

\* "By default, an interactive session to the trust orchestrator will be opened"
\* (README): a console without an option for an output does not end with the list
\* of domains.
InteractiveByDefault == \A c \in Consoles : console[c] # "listed"
=============================================================================
