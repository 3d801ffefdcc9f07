---------------------------- MODULE SecurityEvent ----------------------------
(***************************************************************************)
(* One SecurityEvent object of SecurityModel/SecurityEvent.c with its COE  *)
(* and Cell (COE.c, Cell.c), used for one event after another the way      *)
(* generate-states.c and test-event.c use it: a description is parsed into *)
(* the members of the structures, the pseudonyms may be evaluated, the     *)
(* members are measured, formatted into a description again, and the       *)
(* object is reset for the next one or for the description it has written. *)
(*                                                                         *)
(* A member is <<structure, name>>.  A description is its type and the     *)
(* value of each of its keys, a key being named as the member it is for.   *)
(* A value is a small number: 0 is what a reset or memset leaves.          *)
(***************************************************************************)
EXTENDS Integers, Sequences, SequencesExt

CONSTANTS
  Descriptions, \* what the kernel may export: [type, key], key a function
  Lines,        \* how many events the object is used for
  Pseudonyms,   \* the pathnames of the model's pseudonyms
  Heap          \* what malloc may leave in a member nothing has set

AF_UNIX == 1
AF_INET == 2
AF_INET6 == 10
TMPFS_MAGIC == 2
Joined == 98   \* a String to which a second text was added
ZeroFile == 99 \* the digest of a file of zero length

\* The members of the structures, in the order in which they are parsed.
Of(structure, names) == [i \in DOMAIN names |-> <<structure, names[i]>>]
COE == Of("coe", <<"uid", "euid", "suid", "gid", "egid", "sgid", "fsuid", "fsgid", "capeff">>)
FileKeys == Of("file", <<"flags", "digest", "uid", "gid", "mode", "s_magic", "s_id", "s_uuid",
                         "pathname">>)
Dev == Of("file", <<"major", "minor">>)
Sock(structure) == Of(structure, <<"family", "type", "protocol", "owner">>)
SocketCreate == Of("create", <<"family", "type", "protocol", "kern">>)
MmapKeys == Of("mmap", <<"prot", "flags">>)
TaskKill == Of("kill", <<"cross", "signal", "target">>)
TaskId == <<"event", "task_id">>
EventType == <<"event", "type">>
Digest == <<"file", "digest">>
Pathname == <<"file", "pathname">>
Connects == {"socket_connect", "socket_bind"}

\* The address of a connect or a bind, and of an accept; the first eight bytes
\* and the others of the address of any other family.
ConnectAddress(family) ==
  Of("connect", CASE family = AF_INET  -> <<"port", "ipv4">>
                  [] family = AF_INET6 -> <<"flow", "scope", "ipv6">>
                  [] family = AF_UNIX  -> <<"unix">>
                  [] OTHER             -> <<"first", "rest">>)
AcceptAddress(family) ==
  Of("accept", CASE family = AF_INET  -> <<"ipv4">>
                 [] family = AF_INET6 -> <<"ipv6">>
                 [] family = AF_UNIX  -> <<"unix">>
                 [] OTHER             -> <<"first", "rest">>)
Port(structure, family) ==
  IF family \in {AF_INET, AF_INET6} THEN {<<structure, "port">>} ELSE {}

Members ==
  ToSet(COE) \cup ToSet(FileKeys) \cup ToSet(Dev) \cup ToSet(SocketCreate) \cup ToSet(MmapKeys)
    \cup ToSet(TaskKill) \cup {TaskId, EventType} \cup ToSet(Sock("connect")) \cup ToSet(Sock("accept"))
    \cup UNION {Port("connect", f) \cup Port("accept", f) \cup ToSet(ConnectAddress(f))
                  \cup ToSet(AcceptAddress(f)) : f \in {AF_UNIX, AF_INET, AF_INET6, 3}}

\* What reset clears: the Strings and the characteristics of the COE.
Strings == {TaskId, EventType, Pathname}
\* Mutant: reset forgets the name of the file.
ClearedButPathname == {TaskId, EventType} \cup ToSet(COE)

Cleared == Strings \cup ToSet(COE)

VARIABLES
  stage,     \* where the client of the object is
  left,      \* the events it has left
  type, have_file, member, \* the object
  measured,  \* the COE and the Cell have been
  identity,  \* the members that were hashed, with the value each had
  text,      \* the description the object has written
  event,     \* the description of the kernel it was filled from
  read_back, \* through what it had written itself
  masked     \* the pseudonyms were evaluated before the measurement

vars == <<stage, left, type, have_file, member, measured, identity, text, event, read_back,
          masked>>

Nothing == [k \in {} |-> 0]
None == [type |-> "undefined", key |-> Nothing]

TypeOK ==
  /\ stage \in {"idle", "parsed", "measured", "masked late", "written", "failed"}
  /\ member \in [Members -> Int]
  /\ {have_file, measured, read_back, masked} \subseteq BOOLEAN
  /\ DOMAIN identity \subseteq Members /\ DOMAIN text.key \subseteq Members

Init ==
  /\ stage = "idle"
  /\ left = Lines
  /\ type = "undefined"
  /\ have_file = FALSE
  /\ \E garbage \in Heap : member = [k \in Members |->
       IF k \in Cleared \cup ToSet(FileKeys) \cup ToSet(Dev) THEN 0 ELSE garbage]
  /\ measured = FALSE
  /\ identity = Nothing
  /\ text = None
  /\ event = None
  /\ read_back = FALSE
  /\ masked = FALSE

-----------------------------------------------------------------------------

Has(d, keys) == \E i \in DOMAIN keys : keys[i] \in DOMAIN d.key

Family(d, structure) ==
  IF <<structure, "family">> \in DOMAIN d.key THEN d.key[<<structure, "family">>] ELSE AF_INET

\* The members a description is read into.  A file without a dev is of device 0.
FileParsed(d) == FileKeys \o (IF Has(d, Dev) THEN Dev ELSE <<>>)
MmapParsed(d) == MmapKeys \o (IF Has(d, FileKeys) THEN FileParsed(d) ELSE <<>>)
ConnectParsed(d) == Sock("connect") \o ConnectAddress(Family(d, "connect"))
AcceptParsed(d) == Sock("accept") \o AcceptAddress(Family(d, "accept"))

CellParsed(d) ==
  CASE d.type = "file_open" -> FileParsed(d)
    [] d.type = "mmap_file" -> MmapParsed(d)
    [] d.type = "socket_create" -> SocketCreate
    [] d.type \in Connects -> ConnectParsed(d)
    [] d.type = "socket_accept" -> AcceptParsed(d)
    [] d.type = "task_kill" -> TaskKill
    [] OTHER -> <<EventType>>

Parsed(d) == <<TaskId>> \o COE \o CellParsed(d)

\* A text is added to what the String holds; a number replaces the other.
Stored(k, value) == IF k \in Strings /\ member[k] # 0 THEN Joined ELSE value

\* The keys are read one after the other up to the first that is not there.
ReadUpTo(d) ==
  LET keys == Parsed(d)
      there(n) == \A i \in 1..n : keys[i] \in DOMAIN d.key
  IN CHOOSE n \in 0..Len(keys) : there(n) /\ (n = Len(keys) \/ ~there(n + 1))

Read(d) ==
  LET keys == Parsed(d)
      filled == {keys[i] : i \in 1..ReadUpTo(d)}
      no_dev == IF Pathname \in filled /\ ~Has(d, Dev) THEN ToSet(Dev) ELSE {}
  IN /\ type' = d.type
     /\ have_file' = IF d.type = "mmap_file" THEN Has(d, FileKeys) ELSE have_file
     /\ member' = [k \in Members |-> IF k \in filled THEN Stored(k, d.key[k])
                                     ELSE IF k \in no_dev THEN 0 ELSE member[k]]
     /\ stage' = IF ReadUpTo(d) = Len(keys) THEN "parsed" ELSE "failed"
     /\ UNCHANGED <<measured, identity, text>>

Parse(d) ==
  /\ stage = "idle" /\ text = None
  /\ left > 0
  /\ left' = left - 1
  /\ Read(d)
  /\ event' = d
  /\ read_back' = FALSE
  /\ masked' = FALSE

ParseWritten ==
  /\ stage = "idle" /\ text # None
  /\ Read(text)
  /\ read_back' = TRUE
  /\ UNCHANGED <<left, event, masked>>

\* The file of a pseudonym is as one of zero length; test-event.c evaluates the
\* pseudonyms after the measurement, the model before it.
EvaluatePseudonym ==
  /\ stage \in {"parsed", "measured"}
  /\ member[Pathname] \in Pseudonyms
  /\ member' = [member EXCEPT ![Digest] = ZeroFile]
  /\ masked' = TRUE
  /\ stage' = IF stage = "measured" THEN "masked late" ELSE stage
  /\ UNCHANGED <<left, type, have_file, measured, identity, text, event, read_back>>

\* The members that are hashed.  fsuid is hashed in the place of fsgid, and of
\* the address of any other family a connect takes the size of a pointer.
COEMeasured == ToSet(COE) \ {<<"coe", "fsgid">>}

MmapMeasured == ToSet(MmapKeys) \cup (IF have_file THEN ToSet(FileKeys) ELSE {})
ConnectMeasured ==
  LET family == member[<<"connect", "family">>]
  IN ToSet(Sock("connect")) \cup Port("connect", family)
       \cup (ToSet(ConnectAddress(family)) \ {<<"connect", "rest">>})
AcceptMeasured ==
  LET family == member[<<"accept", "family">>]
  IN ToSet(Sock("accept")) \cup Port("accept", family) \cup ToSet(AcceptAddress(family))

CellMeasured ==
  CASE type = "file_open" -> ToSet(FileKeys)
    [] type = "mmap_file" -> MmapMeasured
    [] type = "socket_create" -> ToSet(SocketCreate)
    [] type \in Connects -> ConnectMeasured
    [] type = "socket_accept" -> AcceptMeasured
    [] type = "task_kill" -> ToSet(TaskKill)
    [] OTHER -> {EventType}

\* The uuid of a tmpfs is not of the host and counts as zero.
Hashed(k) ==
  IF k = <<"file", "s_uuid">> /\ member[<<"file", "s_magic">>] = TMPFS_MAGIC THEN 0 ELSE member[k]

Measure ==
  /\ stage = "parsed"
  /\ IF measured
     THEN stage' = "failed" /\ UNCHANGED <<measured, identity>>
     ELSE /\ identity' = [k \in {TaskId} \cup COEMeasured \cup CellMeasured |-> Hashed(k)]
          /\ measured' = TRUE
          /\ stage' = "measured"
  /\ UNCHANGED <<left, type, have_file, member, text, event, read_back, masked>>

\* The keys a parser finds in what format writes.  The address of AF_INET6 and
\* of other families is written without its keys, and the target of a kill as
\* task_id.
FileWritten == ToSet(FileKeys) \cup ToSet(Dev)
MmapWritten == ToSet(MmapKeys) \cup (IF have_file THEN FileWritten ELSE {})
AddressWritten(family, address) == IF family \in {AF_INET, AF_UNIX} THEN ToSet(address) ELSE {}
ConnectWritten ==
  LET family == member[<<"connect", "family">>]
  IN ToSet(Sock("connect")) \cup AddressWritten(family, ConnectAddress(family))
AcceptWritten ==
  LET family == member[<<"accept", "family">>]
  IN ToSet(Sock("accept")) \cup AddressWritten(family, AcceptAddress(family))
KillWritten == ToSet(TaskKill) \ {<<"kill", "target">>}

CellWritten ==
  CASE type = "file_open" -> FileWritten
    [] type = "mmap_file" -> MmapWritten
    [] type = "socket_create" -> ToSet(SocketCreate)
    [] type \in Connects -> ConnectWritten
    [] type = "socket_accept" -> AcceptWritten
    [] type = "task_kill" -> KillWritten
    [] OTHER -> {EventType}

Format ==
  /\ stage \in {"measured", "masked late"}
  /\ ~read_back
  /\ text' = [type |-> type, key |-> [k \in {TaskId} \cup ToSet(COE) \cup CellWritten |-> member[k]]]
  /\ stage' = "written"
  /\ UNCHANGED <<left, type, have_file, member, measured, identity, event, read_back, masked>>

\* The object is ready for the description it has written, or for another one.
Reset ==
  /\ stage \in {"measured", "written"}
  /\ stage' = "idle"
  /\ type' = "undefined"
  /\ member' = [k \in Members |-> IF k \in Cleared THEN 0 ELSE member[k]]
  /\ measured' = FALSE
  /\ identity' = Nothing
  /\ text' = IF stage = "written" THEN text ELSE None
  /\ UNCHANGED <<left, have_file, event, read_back, masked>>

Next ==
  \/ \E d \in Descriptions : Parse(d)
  \/ ParseWritten \/ EvaluatePseudonym \/ Measure \/ Format \/ Reset

Spec == Init /\ [][Next]_vars

-----------------------------------------------------------------------------
\* Properties

\* What the measurement leaves out of a description, and the ports the parser
\* leaves out: those of an accept and of AF_INET6.
Unmeasured ==
  {<<"coe", "fsgid">>, <<"connect", "rest">>, <<"accept", "port">>} \cup ToSet(Dev)
    \cup (IF Family(event, "connect") = AF_INET6 THEN {<<"connect", "port">>} ELSE {})

Due(k) ==
  CASE k = Digest /\ masked /\ event.key[Pathname] \in Pseudonyms -> ZeroFile
    [] k = <<"file", "s_uuid">> /\ event.key[<<"file", "s_magic">>] = TMPFS_MAGIC -> 0
    [] OTHER -> event.key[k]

\* The security state point depends on the description, whatever events the object
\* held before and whether the description came from the kernel or from format:
\* each key of it that is parsed counts with its own value, and nothing else does,
\* but the ports that are measured without having been parsed (PortIsOfTheEvent).
PointIsOfTheEvent ==
  stage = "measured" =>
    LET due == DOMAIN event.key \ Unmeasured
    IN /\ due \subseteq DOMAIN identity
       /\ \A k \in due : identity[k] = Due(k)
       /\ DOMAIN identity \ due \subseteq {<<"connect", "port">>, <<"accept", "port">>}

\* What format has written of an event can be parsed again, unless the event is
\* of AF_INET6 or of another family, or kills a task.
FormattedIsReadable ==
  stage = "failed" /\ read_back =>
    \/ event.type = "task_kill"
    \/ event.type \in Connects /\ Family(event, "connect") \notin {AF_INET, AF_UNIX}
    \/ event.type = "socket_accept" /\ Family(event, "accept") \notin {AF_INET, AF_UNIX}

\* COE.c:324 "the digest over the structure which defines the characteristics of
\* the context of execution": each of them is in the measurement.
COEIsMeasured == stage = "measured" => ToSet(COE) \subseteq DOMAIN identity

\* The port that is measured is the one the kernel exported.
PortIsOfTheEvent ==
  stage = "measured" =>
    \A k \in DOMAIN identity \cap DOMAIN event.key : k[2] = "port" => identity[k] = event.key[k]

\* test-event.c:204 parses what format has written of an event, whatever its kind.
FormattedIsParsed == stage = "failed" => ~read_back

\* The whole address is in the measurement of a connect.
AddressIsMeasured ==
  stage = "measured" /\ type \in Connects =>
    ToSet(ConnectAddress(member[<<"connect", "family">>])) \subseteq DOMAIN identity
=============================================================================
