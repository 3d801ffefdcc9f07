SPECIFICATION Spec
CONSTANTS
  p1 = p1
  p2 = p2
  w1 = w1
  w2 = w2
  Points = {p1, p2}
  NoVerdict = NoVerdict
  Procs = {w1, w2}
  Enforce = TRUE
  PipeSize = 2
  MaxEvents = 2
  MaxCommands = 1
  RuncFails = TRUE
  Faults = TRUE
  Interrupts = TRUE
SYMMETRY Symmetric
INVARIANTS TrustedMeansValid WaitingIsInFlight
CHECK_DEADLOCK FALSE
