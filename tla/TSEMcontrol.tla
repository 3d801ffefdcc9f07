---------------------------- MODULE TSEMcontrol ----------------------------
(***************************************************************************)
(* The object that writes commands to the kernel's control file, with the  *)
(* three programs that use it: the orchestrator of an external agent       *)
(* (quixote-us), of the kernel's own (quixote) and the exporter.           *)
(*                                                                         *)
(* A command is a record; text is a sequence of commands.  The kernel is   *)
(* external: it may refuse any command, and of a text of several commands  *)
(* it refuses all or carries out the first.                                *)
(***************************************************************************)
EXTENDS Naturals, Sequences

CONSTANTS Type,  \* the type of the namespace: "external", "internal" or "export"
          Pids,  \* processes of the workload
          Calls, \* a bound on the calls after the set-up
          None

VARIABLES
  key,    \* has a key been generated?
  cmdstr, \* the command that is composed
  bufr,   \* the text that is written
  ns,     \* the namespace the kernel has made
  pc,     \* where the program is
  calls,  \* the calls made after the set-up
  call, written, \* the command of the last call, and the text it has written
  refused \* has a write been refused?

objVars == <<key, cmdstr, bufr>>
vars == <<objVars, ns, pc, calls, call, written, refused>>

\* The arguments of a command, key and pid, matter for a release only.
Command(verb) == [verb |-> verb, pid |-> None]
Verbs == {"create", "enforce", "seal", "base", "state", "pseudonym"}
Commands == [verb : Verbs, pid : {None}] \cup [verb : {"trusted", "untrusted"}, pid : Pids]

NoNS == [type |-> "none", enforced |-> FALSE, sealed |-> FALSE, key |-> FALSE]

TypeOK ==
  /\ {key, refused} \subseteq BOOLEAN
  /\ {cmdstr, bufr} \subseteq Seq(Commands)
  /\ ns \in [type : {"none", Type}, enforced : BOOLEAN, sealed : BOOLEAN, key : BOOLEAN]
  /\ pc \in {"start", "keyed", "created", "identified", "enforced", "running", "failed"}
  /\ calls \in 0..Calls
  /\ call \in Commands \cup {Command("none")}
  /\ written \in Seq(Commands)

Init ==
  /\ key = FALSE /\ cmdstr = <<>> /\ bufr = <<>>
  /\ ns = NoNS /\ pc = "start" /\ calls = 0
  /\ call = Command("none") /\ written = <<>> /\ refused = FALSE

-----------------------------------------------------------------------------
(* Writing.                                                                *)

\* What the kernel does for a command.
Carried(c) ==
  CASE c.verb = "create"  -> [ns EXCEPT !.type = Type, !.key = key]
    [] c.verb = "enforce" -> [ns EXCEPT !.enforced = TRUE]
    [] c.verb = "seal"    -> [ns EXCEPT !.sealed = TRUE]
    [] OTHER              -> ns

\* The text the next write writes.
Text(c) == bufr \o Append(cmdstr, c)

\* Mutant: the text of the last write stays.
WriteCmdKept(c) ==
  /\ written' = Text(c) /\ ns' = Carried(Head(Text(c)))
  /\ bufr' = Text(c) /\ cmdstr' = <<>> /\ UNCHANGED refused

\* _write_cmd for a command that has been composed: string and buffer are
\* cleared after a write that has succeeded ...
write_cmd(c) ==
  /\ written' = Text(c) /\ ns' = Carried(Head(Text(c)))
  /\ bufr' = <<>> /\ cmdstr' = <<>> /\ UNCHANGED refused

\* ... and stay as they are after one that is refused.
write_refused(c) ==
  /\ written' = Text(c) /\ UNCHANGED ns
  /\ bufr' = Text(c) /\ cmdstr' = Append(cmdstr, c) /\ refused' = TRUE

\* A call of the set-up: the program ends when it fails.
Setup(from, to, c) ==
  /\ pc \in from /\ call' = c
  /\ \/ write_cmd(c) /\ pc' = to
     \/ write_refused(c) /\ pc' = "failed"
  /\ UNCHANGED <<key, calls>>

-----------------------------------------------------------------------------
(* The set-up.                                                             *)

generate_key ==
  /\ Type = "external" /\ pc = "start"
  /\ key' = TRUE /\ pc' = "keyed"
  /\ UNCHANGED <<cmdstr, bufr, ns, calls, call, written, refused>>

\* An external namespace gets the key that authenticates its releases.
create_ns ==
  /\ Type = "external" => key
  /\ Setup({"start", "keyed"}, "created", Command("create"))

\* The number of the namespace is read by way of the string, which is emptied.
id ==
  /\ Type # "internal" /\ pc = "created"
  /\ cmdstr' = <<>> /\ pc' = "identified"
  /\ UNCHANGED <<key, bufr, ns, calls, call, written, refused>>

Ready == IF Type = "internal" THEN "created" ELSE "identified"

enforce ==
  /\ Type # "export"
  /\ Setup({Ready}, "enforced", Command("enforce"))

\* -s of quixote-us.
SealAtStart ==
  /\ Type = "external"
  /\ Setup({"identified", "enforced"}, "running", Command("seal"))

start ==
  /\ pc \in {Ready, "enforced"} /\ pc' = "running"
  /\ UNCHANGED <<objVars, ns, calls, call, written, refused>>

-----------------------------------------------------------------------------
(* The workload runs.                                                      *)

Running(c, failed) ==
  /\ pc = "running" /\ calls < Calls
  /\ calls' = calls + 1 /\ call' = c
  /\ \/ write_cmd(c) /\ UNCHANGED pc
     \/ write_refused(c) /\ pc' = failed
  /\ UNCHANGED key

\* The kernel's own agent is given its model, and sealed, by commands; one
\* that fails ends the session.
Configure(verb) == Type = "internal" /\ Running(Command(verb), "failed")
set_base == Configure("base")
add_state == Configure("state")
pseudonym == Configure("pseudonym")
seal == Configure("seal")

\* A process is released or disciplined; one that is gone is refused, and
\* the orchestrator goes on with the next event.
SetTrust(verb) ==
  /\ Type = "external"
  /\ \E p \in Pids : Running([verb |-> verb, pid |-> p], "running")

release == SetTrust("trusted")

discipline == SetTrust("untrusted")

Next ==
  \/ generate_key \/ create_ns \/ id \/ enforce \/ SealAtStart \/ start
  \/ set_base \/ add_state \/ pseudonym \/ seal \/ release \/ discipline

Spec == Init /\ [][Next]_vars

-----------------------------------------------------------------------------
(* Properties.                                                             *)

\* The kernel gets the command of each call and nothing else, as long as it
\* has not refused one.
WrittenIsTheCommand == ~refused /\ written # <<>> => written = <<call>>

\* A namespace for an external agent is made with the key its releases carry,
\* and is enforced or sealed after it was made.
ExternalHasKey ==
  /\ ns.type = "external" => ns.key
  /\ ns.enforced \/ ns.sealed => ns.type = Type

\* TSEMcontrol.c: a write writes the contents of the supplied string.
WrittenIsSupplied == written # <<>> => written = <<call>>
=============================================================================
