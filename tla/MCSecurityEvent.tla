--------------------------- MODULE MCSecurityEvent ---------------------------
(* Instances of SecurityEvent for TLC: one description or more of every kind. *)
EXTENDS SecurityEvent

\* Every key is 1, those of the set 2.
Description(kind, keys, family, twos) ==
  [type |-> kind,
   key |-> [k \in {TaskId} \cup ToSet(COE) \cup keys |->
              IF k[2] = "family" THEN family ELSE IF k \in twos THEN 2 ELSE 1]]

File == ToSet(FileKeys) \cup ToSet(Dev)
Address(structure, family) == ToSet(Sock(structure)) \cup Port(structure, family)
\* Any family but the three the code knows.
AF_OTHER == 3
Families == {AF_UNIX, AF_INET, AF_INET6, AF_OTHER}

Kinds ==
  {<<"file_open", File, 0>>, <<"file_open", ToSet(FileKeys), 0>>,
   <<"mmap_file", File \cup ToSet(MmapKeys), 0>>, <<"mmap_file", ToSet(MmapKeys), 0>>,
   <<"socket_create", ToSet(SocketCreate), AF_INET>>, <<"task_kill", ToSet(TaskKill), 0>>,
   <<"bprm_set_creds", {EventType}, 0>>}
  \cup {<<kind, Address("connect", f) \cup ToSet(ConnectAddress(f)), f>> : kind \in Connects, f \in Families}
  \cup {<<"socket_accept", Address("accept", f) \cup ToSet(AcceptAddress(f)), f>> : f \in Families}

\* A file of a tmpfs, and descriptions a key of which is lost.
MCDescriptions ==
  {Description(k[1], k[2], k[3], twos) : k \in Kinds, twos \in {{}, Members}}
  \cup {Description("file_open", File, 0, {<<"file", "s_magic">>}),
        Description("file_open", File \ {Digest}, 0, {}),
        Description("socket_connect", ToSet(Sock("connect")), AF_INET, {})}
=============================================================================
