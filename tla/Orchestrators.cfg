SPECIFICATION MCFairSpec
CONSTANTS
  Modes = {"cartridge", "process", "execute"}
  Outputs = {"none", "model", "trajectory"}
  Files <- SomeFiles
  Commands = {"state", "forensics", "seal", "events"}
  MaxEvents = 2
  MaxAsks = 1
  Stops = TRUE
  Daemons = TRUE
  CalmCommands = {"trajectory", "map"}
  CalmEvents = 1
  CalmAsks = 2
  Consoles = {"c1", "c2"}
  NoConsole = "none"
  Options = {"none", "C", "E", "F", "M", "P", "S", "T"}
  MaxPoints = 2
  MaxLogs = 1
  DuctSize = 1
INVARIANTS WholeModelIsLoaded ListingsAreSnapshots OutputIsWhole LeavesNoWorkload
PROPERTIES AskingEnds
CHECK_DEADLOCK FALSE
