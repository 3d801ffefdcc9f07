SPECIFICATION Spec
CONSTANTS
  p1 = p1
  p2 = p2
  w1 = w1
  w2 = w2
  Points = {p1, p2}
  NoVerdict = NoVerdict
  Procs = {w1, w2}
  Requests = {"seal", "value", "events", "coefficients", "map", "reset", "illegal"}
  Enforce = TRUE
  MaxEvents = 2
  MaxRequests = 1
  Faults = TRUE
  Interrupts = TRUE
INVARIANTS ReplyAnswersCommand TrustedMeansValid
PROPERTIES WaitingIsAnswered ViolationStopsWorkload
CHECK_DEADLOCK FALSE
