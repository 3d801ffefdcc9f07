SPECIFICATION Spec
CONSTANTS
  p1 = p1
  p2 = p2
  p3 = p3
  b0 = b0
  b1 = b1
  a1 = a1
  c1 = c1
  c2 = c2
  pid1 = pid1
  pid2 = pid2
  Points = {p1, p2}
  Aggregates = {a1}
  Bases = {b0, b1}
  Pseudonyms = {c1, c2}
  Pids = {pid1, pid2}
  ZeroBase = b0
  DefaultAggregate = DefaultAggregate
  Malformed = Malformed
  NoPid = NoPid
  NoVerdict = NoVerdict
  MaxCount = 2
  MaxExtensions = 2
  MaxTEvents = 1
  Events <- MCEvents
  Entries <- MCEntries
INVARIANTS TypeOK PointsDistinct LogsPairUp
PROPERTIES MeasurementAppendOnly RefinesTMA ClassesAreFinal SealedIsFrozen
