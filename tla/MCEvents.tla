------------------------------ MODULE MCEvents ------------------------------
(***************************************************************************)
(* An event on its way into a model: the stream of descriptions, the       *)
(* object one is parsed into, and the file the model is written to and     *)
(* loaded from; a behaviour is of one part, the others stay as they begin. *)
(***************************************************************************)
EXTENDS ModelFile

\* Three programs; the file of the first may be masked as a pseudonym.
FileEvents == {[point |-> "p1", masked |-> "p2", cell |-> "c1", pid |-> "pid1"],
               [point |-> "p2", masked |-> "p2", cell |-> "c2", pid |-> "pid1"],
               [point |-> "p3", masked |-> "p3", cell |-> "c2", pid |-> "pid1"]}

\* The lines of the model the first session may load.
FileLine(cmd, arg) == [cmd |-> cmd, arg |-> arg]
FileEntries == {FileLine("base", "b1"), FileLine("aggregate", "a2"), FileLine("state", "p1"),
                FileLine("pseudonym", "c1"), FileLine("seal", "malformed"), FileLine("end", "malformed")}

CONSTANTS StreamLength, \* bytes the monitor process will write
          Newlines,     \* the positions that hold a line feed
          Descriptions, \* what the kernel may export, of each kind of event
          Lines,        \* how many events the object is used for
          MaskedFiles,  \* the pathnames of pseudonyms
          Heap          \* what malloc may leave in a member

ASSUME StreamAssumption ==
  /\ StreamLength \in Nat \ {0}
  /\ Newlines \subseteq 1..StreamLength
  /\ StreamLength \in Newlines

\* Four descriptions: of two bytes, of one, an empty one and one of three.
MCNewlines == {3, 5, 6, 10}

VARIABLES
  part, \* what a behaviour is of
  written, whole, pipe, bufr, size, available, event, more, pc, processed, killed,
  stage, left, type, have_file, member, measured, identity, text, event_event, read_back, masked

Stream == INSTANCE TSEMevent

Event == INSTANCE SecurityEvent WITH Pseudonyms <- MaskedFiles, event <- event_event

\* The keys an event of a type may be exported with; of those of its kind one may
\* be lost.
Exported(d) ==
  {Event!TaskId} \cup ToSet(Event!COE) \cup
    CASE d.type = "file_open" -> ToSet(Event!FileKeys) \cup ToSet(Event!Dev)
      [] d.type = "mmap_file" ->
           ToSet(Event!MmapKeys) \cup ToSet(Event!FileKeys) \cup ToSet(Event!Dev)
      [] d.type = "socket_create" -> ToSet(Event!SocketCreate)
      [] d.type \in Event!Connects ->
           LET family == Event!Family(d, "connect")
           IN  ToSet(Event!Sock("connect")) \cup Event!Port("connect", family)
                 \cup ToSet(Event!ConnectAddress(family))
      [] d.type = "socket_accept" ->
           LET family == Event!Family(d, "accept")
           IN  ToSet(Event!Sock("accept")) \cup Event!Port("accept", family)
                 \cup ToSet(Event!AcceptAddress(family))
      [] d.type = "task_kill" -> ToSet(Event!TaskKill)
      [] OTHER -> {Event!EventType}

ASSUME DescriptionsAssumption == \A d \in Descriptions : DOMAIN d.key \subseteq Exported(d)

\* The descriptions of the run.
Kernel == INSTANCE MCSecurityEvent WITH
  Descriptions <- {}, Pseudonyms <- MaskedFiles, event <- event_event
KernelDescriptions == Kernel!MCDescriptions

streamVars ==
  <<written, whole, pipe, bufr, size, available, event, more, pc, processed, killed>>

objectVars ==
  <<stage, left, type, have_file, member, measured, identity, text, event_event, read_back,
    masked>>

mcVars == <<part, streamVars, objectVars, allVars>>

MCInit ==
  /\ part \in {"stream", "event", "files"}
  /\ Stream!Init /\ Event!Init /\ SessionInit
  /\ part # "event" => \A k \in Event!Members : member[k] = 0

Part(name) == part = name /\ UNCHANGED part

MCNext ==
  \/ Part("stream") /\ Stream!Next /\ UNCHANGED <<objectVars, allVars>>
  \/ Part("event") /\ Event!Next /\ UNCHANGED <<streamVars, allVars>>
  \/ Part("files") /\ SessionNext /\ UNCHANGED <<streamVars, objectVars>>

MCSpec == MCInit /\ [][MCNext]_mcVars

MCFairSpec == MCSpec /\ WF_streamVars(part = "stream" /\ Stream!Reader)

-----------------------------------------------------------------------------
\* However the writes cut the stream, the descriptions come out whole, once each
\* and in order, no byte is lost or moved on the way, and no reader is killed.
StreamIsWhole == Stream!ProcessedAreLines /\ Stream!NothingLost /\ Stream!NeverKilled

\* What the monitor has written is processed.
LinesAreProcessed == Stream!LinesAreProcessed

\* A point depends on its description, but for the ports nothing parses, and what
\* is written of an event is read again, but for the kinds the properties name.
PointIsOfTheEvent == Event!PointIsOfTheEvent /\ Event!FormattedIsReadable

=============================================================================
