SPECIFICATION MCFairSpec
CONSTANTS
  Events = 4
  PipeSize = 2
  Mode = "process"
  Root = TRUE
  Stops = TRUE
  Faults = TRUE
  Races = TRUE
  RootEvents = 5
  RootStrings = 2
  RootKept = 9
  Writes = 4
  Sleepers = {p1, p2}
  SgxEvents = {"e1", "e2", "e3"}
  SgxAsync = {"e3"}
  SgxKnown <- OnePoint
  SgxEnforce = TRUE
  SgxRefusals = 1
  SgxFailures = 1
  SgxListings = 2
INVARIANTS NothingLostOnTheWay LeavesNoWorkload UtilityIsInStep CommandsAreWritten EnclaveIsInStep
PROPERTIES ExportingEnds
CHECK_DEADLOCK FALSE
