SPECIFICATION Spec
CONSTANTS
  p1 = p1
  p2 = p2
  w1 = w1
  w2 = w2
  Points = {p1, p2}
  NoVerdict = NoVerdict
  Procs = {w1}
  Requests = {"forensics_coefficients"}
  Enforce = TRUE
  MaxEvents = 2
  MaxRequests = 1
  Faults = FALSE
  Interrupts = FALSE
INVARIANTS ReplyAnswersCommand
CHECK_DEADLOCK FALSE
