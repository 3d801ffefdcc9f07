SPECIFICATION Spec
CONSTANTS
  p1 = p1
  p2 = p2
  w1 = w1
  w2 = w2
  Points = {p1}
  NoVerdict = NoVerdict
  Procs = {w1, w2}
  Enforce = TRUE
  PipeSize = 1
  MaxEvents = 2
  MaxCommands = 0
  RuncFails = FALSE
  Faults = FALSE
  Interrupts = FALSE
PROPERTIES ModelIsOutput
CHECK_DEADLOCK FALSE
