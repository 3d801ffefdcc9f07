SPECIFICATION MCFairSpec
CONSTANTS
  Servers = {s1, s2}
  Clients = {c1, c2}
  None = None
  Backlog = 1
  Exclusive = TRUE
  Crashes = TRUE
  ToSend = 4
  Width = 8
  Losses = 1
  Packets = 2
  Daemons = 2
  Identities = {"id1", "id2"}
  XenHosts = {"h1", "h2"}
  PortHeader = 2
  PortBlock = 2
  PortSizes = {1, 2, 3, 5}
  PortPieces = 2
  PortCommands = 2
  PortSessions = 2
CHECK_DEADLOCK FALSE
INVARIANTS RunningIsReachable OnlyCrashLeavesPath XenIsInStep PublishedInOrder PortIsInStep PipeIsInStep IdentityIsOwn
PROPERTIES WaitsEnd
