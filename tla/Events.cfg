SPECIFICATION MCFairSpec
CONSTANTS
  StreamLength = 10
  Newlines <- MCNewlines
  Descriptions <- KernelDescriptions
  Lines = 2
  MaskedFiles = {2}
  Heap = {0, 7}
  Points = {"p1", "p2", "p3"}
  Aggregates = {"a1", "a2"}
  Bases = {"b0", "b1"}
  Pseudonyms = {"c1", "c2"}
  Pids = {"pid1"}
  ZeroBase = "b0"
  DefaultAggregate = "a0"
  NoAggregate = "none"
  Malformed = "malformed"
  NoPid = "no pid"
  NoVerdict = NoVerdict
  MaxCount = 2
  MaxExtensions = 3
  MaxTEvents = 0
  Events <- FileEvents
  Entries <- FileEntries
INVARIANTS StreamIsWhole PointIsOfTheEvent OutputKeepsMeasurement VerdictsAreKept
PROPERTIES LinesAreProcessed
CHECK_DEADLOCK FALSE
